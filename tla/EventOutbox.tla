----------------------------- MODULE EventOutbox -----------------------------
(***************************************************************************)
(* The outbox of transfer events: SQLite keeps every event of a transfer   *)
(* until the Registry acknowledged it, a loop sends them in bounded        *)
(* batches, a bounded number of transfers per pass, and the Registry adds  *)
(* the ones it does not have to its audit log.                             *)
(*                                                                         *)
(* Requests and answers are lost, an abandoned request arrives later,      *)
(* SQLite fails, Courier dies between any two steps, the user clears a     *)
(* transfer during a pass, and the Registry stops accepting a transfer     *)
(* (deleted there, its session ended, an event refused).                   *)
(*                                                                         *)
(* A transfer is its place in the order of the ids, an event its sequence  *)
(* number within the transfer (the UUID the Registry knows it by).         *)
(***************************************************************************)
EXTENDS Naturals, Sequences, FiniteSets, FiniteSetsExt, SequencesExt, Functions

CONSTANTS
    NTransfers,  \* the local transfers, in the order of their ids
    PassLimit,   \* transfers_with_pending_events: LIMIT 20
    BatchLimit,  \* pending_transfer_events: LIMIT 100
    MaxEvents,   \* bound: events of all transfers
    MaxTrouble   \* bound: requests and answers lost, passes that fail, deaths of Courier,
                 \* transfers cleared here or refused there, together

ASSUME OutboxAssumption ==
    /\ NTransfers \in Nat \ {0} /\ PassLimit \in Nat \ {0} /\ BatchLimit \in Nat \ {0}
    /\ MaxEvents \in Nat /\ MaxTrouble \in Nat

VARIABLES
    rows,      \* SQLite: per transfer "local", "registered" (it has a Registry id) or "cleared"
    events,    \* SQLite: how many events were recorded
    synced,    \* SQLite: the events with synced_at
    cursor,    \* the loop's cursor, 0 for None
    pass,      \* the transfers still to be visited in this pass
    next,      \* the cursor after this pass
    pc,        \* where the pass is
    batch,     \* the batch being sent
    late,      \* requests given up that are still on their way: [transfer, batch]
    refused,   \* Registry: the transfers whose events it refuses
    log,       \* Registry: per transfer the events in its audit log
    trouble    \* what went wrong so far

sqlite   == <<rows, events, synced>>
loop     == <<cursor, pass, next, pc, batch>>
registry == <<refused, log>>
vars     == <<sqlite, loop, late, registry, trouble>>

Transfers == 1..NTransfers
Trouble == trouble < MaxTrouble /\ trouble' = trouble + 1

Init ==
    /\ rows = [t \in Transfers |-> "local"] /\ events = [t \in Transfers |-> 0]
    /\ synced = [t \in Transfers |-> {}]
    /\ cursor = 0 /\ pass = {} /\ next = 0 /\ pc = "sleep" /\ batch = {} /\ late = {}
    /\ refused = {} /\ log = [t \in Transfers |-> <<>>]
    /\ trouble = 0

-----------------------------------------------------------------------------
(* SQLite *)

Unsynced(t) == IF rows[t] = "cleared" THEN {} ELSE (1..events[t]) \ synced[t]

First(n, S) == {x \in S : Cardinality({y \in S : y < x}) < n}   \* ORDER BY ... LIMIT n

AllPending(t) == Unsynced(t)   \* mutant
pending_transfer_events(t) == First(BatchLimit, Unsynced(t))

transfers_with_pending_events(after) ==
    First(PassLimit, {t \in Transfers : rows[t] = "registered" /\ t > after /\ Unsynced(t) # {}})

(* An event of the upload, by record_transfer_event or a trigger; the loop runs beside it. *)
record_transfer_event(t) ==
    /\ rows[t] # "cleared" /\ FoldFunction(+, 0, events) < MaxEvents
    /\ events' = [events EXCEPT ![t] = @ + 1]
    /\ UNCHANGED <<rows, synced, loop, late, registry, trouble>>

bind_registry_transfer(t) ==
    /\ rows[t] = "local"
    /\ rows' = [rows EXCEPT ![t] = "registered"]
    /\ UNCHANGED <<events, synced, loop, late, registry, trouble>>

(* The transfer's row and, by the cascade, its events are deleted. *)
clear_transfer(t) ==
    /\ rows[t] # "cleared" /\ Trouble
    /\ rows' = [rows EXCEPT ![t] = "cleared"]
    /\ UNCHANGED <<events, synced, loop, late, registry>>

-----------------------------------------------------------------------------
(* A pass of the loop *)

NoCursor(ids) == 0   \* mutant
Cursor(ids) == IF ids = {} THEN 0 ELSE Max(ids)

sync_pending_transfer_events ==
    /\ pc = "sleep"
    /\ LET ahead == transfers_with_pending_events(cursor)
           ids   == IF ahead = {} /\ cursor # 0 THEN transfers_with_pending_events(0) ELSE ahead
       IN  /\ pass' = ids /\ next' = Cursor(ids)
    /\ pc' = "visit"
    /\ UNCHANGED <<sqlite, cursor, batch, late, registry, trouble>>

Visiting == Min(pass)
Visited  == pass' = pass \ {Visiting} /\ pc' = "visit" /\ batch' = {}

(* The next transfer of the pass: one that was cleared meanwhile, or has nothing to send
   any more, is passed over.                                                            *)
sync_transfer_events ==
    /\ pc = "visit" /\ pass # {}
    /\ LET b == pending_transfer_events(Visiting)
       IN  IF b = {} THEN Visited ELSE batch' = b /\ pc' = "send" /\ UNCHANGED pass
    /\ UNCHANGED <<sqlite, cursor, next, late, registry, trouble>>

(* The loop keeps the cursor the pass returned. *)
pass_ends ==
    /\ pc = "visit" /\ pass = {}
    /\ cursor' = next /\ pc' = "sleep"
    /\ UNCHANGED <<sqlite, pass, next, batch, late, registry, trouble>>

(* An error of SQLite ends the pass; the cursor stays. *)
pass_fails ==
    /\ pc = "visit" /\ Trouble
    /\ pc' = "sleep" /\ pass' = {}
    /\ UNCHANGED <<sqlite, cursor, next, batch, late, registry>>

-----------------------------------------------------------------------------
(* The request *)

AllNew(t, b) == b   \* mutant
New(t, b) == b \ ToSet(log[t])

InOrder(S) ==
    CHOOSE s \in [1..Cardinality(S) -> S] : \A i, j \in DOMAIN s : i < j => s[i] < s[j]

(* ingest_events holds the transfer's row for the whole batch, and adds what is new. *)
ingest_events(t, b) == log' = [log EXCEPT ![t] = @ \o InOrder(New(t, b))]

(* Delivered and answered; refused; abandoned, with the request lost for good or late. *)
Send ==
    /\ pc = "send"
    /\ LET t == Visiting IN
       \/ /\ t \notin refused /\ ingest_events(t, batch)
          /\ \/ pc' = "answered" /\ UNCHANGED <<pass, batch, trouble>>
             \/ Trouble /\ Visited
          /\ UNCHANGED late
       \/ t \in refused /\ Visited /\ UNCHANGED <<log, late, trouble>>
       \/ /\ Trouble /\ Visited /\ UNCHANGED log
          /\ late' \in {late, late \cup {[transfer |-> t, batch |-> batch]}}
    /\ UNCHANGED <<sqlite, cursor, next, refused>>

LateRequestArrives ==
    /\ \E m \in late :
         /\ late' = late \ {m}
         /\ IF m.transfer \in refused THEN UNCHANGED log ELSE ingest_events(m.transfer, m.batch)
    /\ UNCHANGED <<sqlite, loop, refused, trouble>>

AcknowledgesAll(t) == 1..events[t]   \* mutant
Acknowledged(t) == batch

(* The answer names the batch, and exactly those events are marked. *)
acknowledge_transfer_events ==
    /\ pc = "answered"
    /\ LET t == Visiting
       IN  synced' = IF rows[t] = "cleared" THEN synced
                     ELSE [synced EXCEPT ![t] = @ \cup Acknowledged(t)]
    /\ Visited
    /\ UNCHANGED <<rows, events, cursor, next, late, registry, trouble>>

(* The Registry deletes the transfer, its session ends, or an event is refused. *)
RegistryRefuses(t) ==
    /\ rows[t] = "registered" /\ t \notin refused /\ Trouble
    /\ refused' = refused \cup {t}
    /\ UNCHANGED <<sqlite, loop, late, log>>

(* Courier dies: the cursor starts again at None; a request it had sent may be late. *)
Crash ==
    /\ Trouble
    /\ late' = IF pc = "send" THEN late \cup {[transfer |-> Visiting, batch |-> batch]} ELSE late
    /\ cursor' = 0 /\ pass' = {} /\ next' = 0 /\ pc' = "sleep" /\ batch' = {}
    /\ UNCHANGED <<sqlite, registry>>

LoopStep ==
    \/ sync_pending_transfer_events \/ sync_transfer_events \/ pass_ends
    \/ Send \/ acknowledge_transfer_events

Next ==
    \/ LoopStep \/ pass_fails \/ LateRequestArrives \/ Crash
    \/ \E t \in Transfers :
         \/ record_transfer_event(t) \/ bind_registry_transfer(t)
         \/ clear_transfer(t) \/ RegistryRefuses(t)

Spec == Init /\ [][Next]_vars

(* The loop sleeps fifteen seconds between two passes and is started again with Courier. *)
FairSpec == Spec /\ WF_vars(LoopStep)

-----------------------------------------------------------------------------
(* Types, and the loop is where its pass says. *)
TypeOK ==
    /\ rows \in [Transfers -> {"local", "registered", "cleared"}]
    /\ events \in [Transfers -> 0..MaxEvents]
    /\ \A t \in Transfers : synced[t] \subseteq 1..events[t]
    /\ cursor \in 0..NTransfers /\ next \in 0..NTransfers
    /\ pass \subseteq Transfers /\ pc \in {"sleep", "visit", "send", "answered"}
    /\ Cardinality(batch) <= BatchLimit /\ Cardinality(pass) <= PassLimit
    /\ pc \in {"send", "answered"} => pass # {}
    /\ refused \subseteq Transfers

(* The Registry's log of a transfer is a beginning of what was recorded here, each event
   once and in order, although batches are sent again, arrive late and overlap.          *)
LogIsPrefix ==
    \A t \in Transfers : \A i \in 1..Len(log[t]) : log[t][i] = i

(* What SQLite marks as sent is in the Registry's log: an event leaves the outbox only
   when the Registry has it.                                                           *)
SyncedIsLogged ==
    \A t \in Transfers : synced[t] \subseteq ToSet(log[t])

Deliverable(t) == rows[t] = "registered" /\ t \notin refused

(* Every event of a registered transfer reaches the Registry, however many transfers are
   refused for ever: they do not keep the loop from the others.                          *)
EventsAreDelivered ==
    \A t \in Transfers : Deliverable(t) ~> (~Deliverable(t) \/ Len(log[t]) = events[t])
=============================================================================
