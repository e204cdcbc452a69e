---------------------------- MODULE LocalObjects ----------------------------
(***************************************************************************)
(* The local object store (internal/objectstore/local.go).  Put streams    *)
(* into a temporary file, syncs it, and publishes it under the hash of its *)
(* content by a rename; writers of the same content meet at the final      *)
(* path.  A power loss keeps synced data; a directory entry whose          *)
(* directory was not synced may be lost.                                   *)
(*                                                                         *)
(* An object is known by its hash; content is counted in chunks of the     *)
(* copy buffer.                                                            *)
(***************************************************************************)
EXTENDS Integers, FiniteSets

CONSTANTS ObjHashes, ObjChunks, ObjWriters,
          MaxPuts, MaxPowerLoss  \* bounds

ASSUME ObjAssumption == ObjChunks \in Nat \ {0}

VARIABLES
    final,     \* final[h]: "absent", "whole", "short" or "foreign" content at the path of h
    synced,    \* hashes whose directory entry is durable
    put,       \* put[p]: step of a call of Put, its object and the chunks in its temporary file
    temps,     \* writers whose temporary file exists
    acked,     \* refs that were returned
    puts, losses

objVars == <<final, synced, put, temps, acked, puts, losses>>

LocalIdle == [pc |-> "rest", h |-> "", n |-> 0, size |-> 0]

\* Put returns an error: the deferred cleanup removes the temporary file.
PutFails(p) ==
    /\ put' = [put EXCEPT ![p] = LocalIdle]
    /\ temps' = temps \ {p}
    /\ UNCHANGED <<final, synced, acked>>

\* Put returns the ref of h.
PutReturns(p) ==
    /\ put' = [put EXCEPT ![p] = LocalIdle]
    /\ temps' = temps \ {p}
    /\ acked' = acked \cup {put[p].h}

-----------------------------------------------------------------------------
\* O_EXCL and a random name: no two writers share a temporary file.  The reader may
\* end before the declared size.
CreateTemp(p) ==
    /\ put[p].pc = "rest" /\ puts < MaxPuts
    /\ \E h \in ObjHashes, given \in {ObjChunks - 1, ObjChunks} :
         put' = [put EXCEPT ![p] = [pc |-> "copy", h |-> h, n |-> 0, size |-> given]]
    /\ temps' = temps \cup {p} /\ puts' = puts + 1
    /\ UNCHANGED <<final, synced, acked, losses>>

\* copyWithContext: a chunk, or the context was cancelled or the write failed.
copyWithContext(p) ==
    /\ put[p].pc = "copy" /\ put[p].n < put[p].size
    /\ \/ put' = [put EXCEPT ![p].n = @ + 1] /\ UNCHANGED <<final, synced, temps, acked>>
       \/ PutFails(p)
    /\ UNCHANGED <<puts, losses>>

\* Mutant: what was copied is published without a look at the size.
AnySize(p) ==
    /\ put[p].pc = "copy" /\ put[p].n = put[p].size
    /\ put' = [put EXCEPT ![p].pc = "check"] /\ UNCHANGED <<final, synced, temps, acked, puts, losses>>

\* The end of the stream: the size is compared, the file synced and closed.
SyncTemp(p) ==
    /\ put[p].pc = "copy" /\ put[p].n = put[p].size
    /\ IF put[p].n # ObjChunks THEN PutFails(p)
       ELSE put' = [put EXCEPT ![p].pc = "check"] /\ UNCHANGED <<final, synced, temps, acked>>
    /\ UNCHANGED <<puts, losses>>

\* The final path is hashed: a match makes Put idempotent, other content is an error.
fileSHA256Matches(p) ==
    /\ put[p].pc = "check"
    /\ IF final[put[p].h] = "whole" THEN PutReturns(p) /\ UNCHANGED <<final, synced>>
       ELSE IF final[put[p].h] = "absent"
       THEN put' = [put EXCEPT ![p].pc = "rename"] /\ UNCHANGED <<final, synced, temps, acked>>
       ELSE PutFails(p)
    /\ UNCHANGED <<puts, losses>>

\* The rename replaces what another writer has published meanwhile; if it fails, the
\* path is hashed once more.
Rename(p) ==
    /\ put[p].pc = "rename"
    /\ \/ /\ final' = [final EXCEPT ![put[p].h] = IF put[p].n = ObjChunks THEN "whole" ELSE "short"]
          /\ put' = [put EXCEPT ![p].pc = "syncdir"] /\ temps' = temps \ {p}
          /\ UNCHANGED <<synced, acked>>
       \/ IF final[put[p].h] = "whole" THEN PutReturns(p) /\ UNCHANGED <<final, synced>> ELSE PutFails(p)
    /\ UNCHANGED <<puts, losses>>

\* syncDir makes every entry of the directory durable.
syncDir(p) ==
    /\ put[p].pc = "syncdir"
    /\ \/ /\ synced' = synced \cup {h \in ObjHashes : final[h] # "absent"}
          /\ PutReturns(p) /\ UNCHANGED final
       \/ PutFails(p)
    /\ UNCHANGED <<puts, losses>>

\* Entries that were not synced are lost or not; the callers are gone and their
\* temporary files stay.
PowerLoss ==
    /\ losses < MaxPowerLoss
    /\ \E lost \in SUBSET (ObjHashes \ synced) :
         final' = [h \in ObjHashes |-> IF h \in lost THEN "absent" ELSE final[h]]
    /\ put' = [p \in ObjWriters |-> LocalIdle]
    /\ synced' = {h \in ObjHashes : final'[h] # "absent"}
    /\ losses' = losses + 1
    /\ UNCHANGED <<temps, acked, puts>>

ObjInit ==
    /\ final \in [ObjHashes -> {"absent", "foreign"}]
    /\ synced = {h \in ObjHashes : final[h] # "absent"}
    /\ put = [p \in ObjWriters |-> LocalIdle]
    /\ temps = {} /\ acked = {} /\ puts = 0 /\ losses = 0

ObjNext ==
    \/ \E p \in ObjWriters :
         \/ CreateTemp(p) \/ copyWithContext(p) \/ SyncTemp(p) \/ fileSHA256Matches(p)
         \/ Rename(p) \/ syncDir(p)
    \/ PowerLoss

ObjSpec == ObjInit /\ [][ObjNext]_objVars

-----------------------------------------------------------------------------
\* While there is power, a ref that was returned opens the whole object, and no final
\* path ever holds a part of one, whoever else writes the same content (Put).
RefReadable ==
    /\ \A h \in ObjHashes : final[h] # "short"
    /\ losses = 0 => \A h \in acked : final[h] = "whole"

\* Every temporary file belongs to a call under way: each return, also the one of a
\* duplicate or of a failed rename, removes it (Put).
NoTempLeft == losses = 0 => \A p \in temps : put[p].pc # "rest"

\* Put publishes whole objects and nothing else: refs that were returned are readable,
\* temporary files are gone (Put).
ObjectsPublished == RefReadable /\ NoTempLeft
=============================================================================
