----------------------------- MODULE EventStream -----------------------------
(***************************************************************************)
(* The event streams of the web API (internal/webapi/handlers_events.go):  *)
(* Server-Sent Events made by polling.  A subscription follows the records *)
(* of a log stream with a cursor, or shows the current state of a task,    *)
(* workflow or dashboard; a frame equal to the last one is not sent.       *)
(***************************************************************************)
EXTENDS Integers, Sequences

CONSTANTS MaxStream,   \* bound: records of the stream
          MaxChanges,  \* bound: changes of the followed state
          ReadLimit,   \* limit of one read
          Shown        \* values of the followed state

ASSUME EvAssumption ==
    MaxStream \in Nat /\ MaxChanges \in Nat /\ ReadLimit \in Nat /\ Shown # {}

VARIABLES
    appended,   \* last sequence number of the stream
    trimmed,    \* records up to here are gone
    value,      \* state of the followed task
    changes,
    sub,        \* the subscription: step, mode, FromSeq, last frame
    screen,     \* what the client has: records in order, and the state last shown; the
                \* state the last poll read
    missed      \* records that were there when a read passed them and were not delivered

evVars == <<appended, trimmed, value, changes, sub, screen, missed>>

NoFrame == [records |-> <<>>, next |-> 0, value |-> ""]
Closed == [pc |-> "closed", mode |-> "log", from |-> 1, last |-> NoFrame]
Blank == [records |-> <<>>, value |-> "", polled |-> ""]

-----------------------------------------------------------------------------
(* The sources. *)
AppendRecord ==
    /\ appended < MaxStream /\ appended' = appended + 1
    /\ UNCHANGED <<trimmed, value, changes, sub, screen, missed>>

TrimRecords ==
    /\ \E n \in (trimmed + 1)..appended : trimmed' = n
    /\ UNCHANGED <<appended, value, changes, sub, screen, missed>>

ChangeState ==
    /\ changes < MaxChanges /\ changes' = changes + 1
    /\ \E x \in Shown \ {value} : value' = x
    /\ UNCHANGED <<appended, trimmed, sub, screen, missed>>

-----------------------------------------------------------------------------
(* The subscription. *)

\* parseEventSubscription: a log subscription says where it starts.
parseEventSubscription ==
    /\ sub.pc = "closed"
    /\ \E mode \in {"log", "state"}, from \in 1..2 :
         /\ mode = "state" => from = 1
         /\ sub' = [pc |-> "first", mode |-> mode, from |-> from, last |-> NoFrame]
    /\ screen' = Blank /\ missed' = {}
    /\ UNCHANGED <<appended, trimmed, value, changes>>

\* What a read of the log returns: the records from the cursor on that are not trimmed, no
\* more than the limit and no more than one answer holds.
ReadLog(from) ==
    LET first == IF trimmed + 1 > from THEN trimmed + 1 ELSE from
    IN  {[i \in 1..n |-> first + i - 1] : n \in {k \in 0..ReadLimit : first + k - 1 <= appended
                                                                /\ (k = 0 => first > appended)}}

\* Mutant: the cursor counts the records of the batch.
NextByCount(from, rs) == from + Len(rs)

\* eventLogRecords: the cursor goes behind the greatest sequence number seen.
NextSeq(from, rs) ==
    IF rs # <<>> /\ rs[Len(rs)] >= from THEN rs[Len(rs)] + 1 ELSE from

\* nextEventPayload, for either mode.
Payloads ==
    IF sub.mode = "log"
    THEN {[records |-> rs, next |-> NextSeq(sub.from, rs), value |-> ""] : rs \in ReadLog(sub.from)}
    ELSE {[records |-> <<>>, next |-> 0, value |-> value]}

\* The last frame is an owned copy of what was sent.
Remember(frame) == frame

\* handleEvents, one turn: the first frame is always sent, a later one if it differs.
Poll ==
    /\ sub.pc \in {"first", "ticking"}
    /\ \E frame \in Payloads :
         LET sent == sub.pc = "first" \/ frame # sub.last
             from == IF sub.mode = "log" THEN frame.next ELSE sub.from
         IN  /\ screen' = IF sent THEN [records |-> screen.records \o frame.records, value |-> frame.value,
                                             polled |-> frame.value]
                          ELSE [screen EXCEPT !.polled = frame.value]
             /\ sub' = [sub EXCEPT !.pc = "ticking", !.from = from,
                                   !.last = IF sent THEN Remember(frame) ELSE @]
             /\ missed' = missed \cup
                   {n \in (trimmed + 1)..appended :
                       /\ sub.from <= n /\ n < from
                       /\ ~(sent /\ \E i \in 1..Len(frame.records) : frame.records[i] = n)}
    /\ UNCHANGED <<appended, trimmed, value, changes>>

\* A failed read ends the stream with an error frame; a disconnected client ends it too.
EndStream ==
    /\ sub.pc \in {"first", "ticking"}
    /\ sub' = Closed
    /\ UNCHANGED <<appended, trimmed, value, changes, screen, missed>>

EvInit ==
    /\ appended = 0 /\ trimmed = 0 /\ value = CHOOSE x \in Shown : TRUE
    /\ changes = 0 /\ sub = Closed /\ screen = Blank /\ missed = {}

EvNext ==
    \/ AppendRecord \/ TrimRecords \/ ChangeState
    \/ parseEventSubscription \/ Poll \/ EndStream

EvSpec == EvInit /\ [][EvNext]_evVars

-----------------------------------------------------------------------------
\* Within one subscription a client gets every record that the cursor passes, once and in
\* order, whatever is appended and trimmed between the polls and although equal frames are
\* suppressed (eventLogRecords, handleEvents).
RecordsOnce ==
    /\ missed = {}
    /\ \A i, j \in 1..Len(screen.records) : i < j => screen.records[i] < screen.records[j]

\* A suppressed frame is one the client already shows: after every poll the client shows
\* the state that the poll read, also when the state went back to an earlier value
\* (handleEvents).
ScreenCurrent ==
    sub.pc = "ticking" /\ sub.mode = "state" => screen.value = screen.polled

\* A client sees every record once and the state of the last poll, although equal
\* frames are suppressed and records are appended and trimmed between polls.
ClientCurrent == RecordsOnce /\ ScreenCurrent
=============================================================================
