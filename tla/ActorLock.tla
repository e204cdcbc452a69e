----------------------------- MODULE ActorLock ------------------------------
(***************************************************************************)
(* The per-actor lock table of internal/actorlock/table.go.  A lock        *)
(* operation has four steps: the entry is found or made and counted under  *)
(* Table.mu, the entry's mutex is taken outside it, released, and the      *)
(* entry uncounted (and dropped when nobody needs it) under Table.mu.      *)
(***************************************************************************)
EXTENDS Integers, FiniteSets

CONSTANTS LockUsers,   \* goroutines that take actor locks
          LockActors

ASSUME LockAssumption == LockUsers \subseteq Nat \ {0} /\ IsFiniteSet(LockUsers)

VARIABLES lockOf,   \* lockOf[a]: Table.locks, the entry of actor a, or 0
          refs,     \* refs[i]: entry.refs
          owner,    \* owner[i]: the goroutine that holds entry.mu, or 0
          lockRef   \* lockRef[u]: the entry goroutine u holds a pointer to, or 0

lockVars == <<lockOf, refs, owner, lockRef>>

LockEntries == 1..(Cardinality(LockUsers) + 1)

LockInit ==
    /\ lockOf = [a \in LockActors |-> 0]
    /\ refs = [i \in LockEntries |-> 0]
    /\ owner = [i \in LockEntries |-> 0]
    /\ lockRef = [u \in LockUsers |-> 0]

\* A new entry: one that neither the table nor a goroutine refers to.
Fresh == CHOOSE i \in LockEntries :
            (\A a \in LockActors : lockOf[a] # i) /\ (\A u \in LockUsers : lockRef[u] # i)

RefEntry(u, a) ==
    LET i == IF lockOf[a] # 0 THEN lockOf[a] ELSE Fresh IN
    /\ lockRef[u] = 0
    /\ lockOf' = [lockOf EXCEPT ![a] = i]
    /\ refs' = [refs EXCEPT ![i] = @ + 1]
    /\ lockRef' = [lockRef EXCEPT ![u] = i]
    /\ UNCHANGED owner

TakeMutex(u) ==
    /\ owner[lockRef[u]] = 0
    /\ owner' = [owner EXCEPT ![lockRef[u]] = u]
    /\ UNCHANGED <<lockOf, refs, lockRef>>

ReleaseMutex(u) ==
    /\ owner[lockRef[u]] = u
    /\ owner' = [owner EXCEPT ![lockRef[u]] = 0]
    /\ UNCHANGED <<lockOf, refs, lockRef>>

\* Mutant: the entry is dropped although others wait for it.
UnrefDrops(u, a) ==
    /\ refs' = [refs EXCEPT ![lockRef[u]] = @ - 1]
    /\ lockOf' = [lockOf EXCEPT ![a] = 0]
    /\ lockRef' = [lockRef EXCEPT ![u] = 0]
    /\ UNCHANGED owner

UnrefEntry(u, a) ==
    LET i == lockRef[u] IN
    /\ refs' = [refs EXCEPT ![i] = @ - 1]
    /\ lockOf' = IF refs[i] = 1 /\ lockOf[a] = i THEN [lockOf EXCEPT ![a] = 0] ELSE lockOf
    /\ lockRef' = [lockRef EXCEPT ![u] = 0]
    /\ UNCHANGED owner

\* The table forgets an actor as soon as no goroutine holds or awaits its lock, and
\* never while one does: an entry that outlives its users grows the table without
\* bound, one dropped early lets two goroutines lock two entries (Table.Lock).
TableExact ==
    \A i \in LockEntries :
        (\E a \in LockActors : lockOf[a] = i) <=> (\E u \in LockUsers : lockRef[u] = i)
=============================================================================
