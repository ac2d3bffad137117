----------------------- MODULE TransferLifecycleProofs -----------------------
(***************************************************************************)
(* Proofs about TransferLifecycle, for any number of objects, polls in     *)
(* progress, releases, crashes, lost requests, pauses, exchanges of the    *)
(* invitation, retries and deletions.                                      *)
(*                                                                         *)
(* None of the properties is inductive.  What is fetched, sent or read by  *)
(* a task is applied later, to a transfer that may have been cleared,      *)
(* deleted, or registered again meanwhile; what saves them is that a row   *)
(* is never given away, that a transfer Courier has keeps its id, and that *)
(* only the transfer under that id is ever sent a manifest.                *)
(***************************************************************************)
EXTENDS TransferLifecycle, SequenceTheorems, TLAPS

Versions == 0..MaxVersion
RowStatus == TransferStatus \cup {"deleted"}
Rows == [session : Nat, status : RowStatus, version : Versions, manifest : Versions,
         stored : SUBSET Objects, recorded : SUBSET Objects]
Locals == [status : TransferStatus \cup Absent, server : Nat,
           snapshot : Versions, uploaded : SUBSET Objects]

Before == {"inventory", "scan", "register"}                              \* no id yet
After  == {"snapshot", "manifest", "objects", "mark", "finalize", "finish"}
Tasks  == [pc : {"idle"} \cup Before \cup After, session : Nat, server : Nat,
           snapshot : Versions, todo : SUBSET Objects]

Counted == retries \in Nat /\ exchanges \in Nat

(* The Registry's rows: a session has one that was not deleted, described by the manifest of
   the release that registered it.                                                         *)
RowIsSound(row) ==
    /\ row.version # None /\ row.manifest \in {None, row.version}
    /\ row.manifest = None => row.status \in {"draft", "deleted"}

RowsAreSound ==
    /\ \A id \in Ids : RowIsSound(transfers[id])
    /\ \A i, j \in Ids : i # j /\ Live(i) /\ Live(j) => transfers[i].session # transfers[j].session

(* A request that may still arrive names an id that was given. *)
LateAreKnown ==
    \A r \in late : /\ r.id <= Len(transfers)
                    /\ r.kind # "finalize" => r.value # None
                    /\ r.kind = "manifest" => r.id # None

(* The transfers described, or that a manifest is on its way to. *)
MayDescribe(id) ==
    \/ id \in Ids /\ transfers[id].manifest # None
    \/ \E r \in late : r.kind = "manifest" /\ r.id = id
    \/ task.pc = "manifest" /\ task.server = id

OneIsDescribed ==
    \A i \in Nat : MayDescribe(i) =>
        /\ i # None
        /\ local.status # "cleared" => i = local.server
        /\ \A j \in Nat : MayDescribe(j) => i = j

(* The task and the transfer it works on, unless it was cleared. *)
TaskIsBound ==
    /\ ~ Exists => local.server = None /\ local.snapshot = None
    /\ local.snapshot # None => local.server # None
    /\ ~ Busy => task = Idle
    /\ local.status = "none" => ~ Busy
    /\ task.pc \in Before => task.server = None /\ local.server = None
    /\ task.pc \in After => task.server # None
    /\ Exists /\ task.pc \in After => local.server = task.server
    /\ Exists /\ task.pc \in After \cup {"register"} => local.status = "uploading"
    /\ task.pc = "manifest" => task.snapshot # None

(* A snapshot names the release its transfer was registered with. *)
SnapshotsAreRegistered ==
    /\ local.snapshot # None => local.snapshot = transfers[local.server].version
    /\ task.pc = "manifest" => task.snapshot = transfers[task.server].version

(* A verdict that was fetched, and one that is shown, is the Registry's. *)
VerdictsAreFounded ==
    /\ ShownVerdictIsTheRegistrys
    /\ \A p \in Pollers :
        /\ polls[p] # "none" => local.server # None \/ local.status = "cleared"
        /\ Live(local.server) =>
            /\ polls[p] = "complete" => transfers[local.server].status = "complete"
            /\ polls[p] = "failed" => transfers[local.server].status = "failed" \/ retries > 0

IInv == /\ TypeOK /\ Counted /\ RowsAreSound /\ LateAreKnown /\ OneIsDescribed /\ TaskIsBound
        /\ SnapshotsAreRegistered /\ VerdictsAreFounded

LEMMA Typed ==
  TypeOK => /\ local \in Locals /\ task \in Tasks /\ transfers \in Seq(Rows)
            /\ local.server <= Len(transfers) /\ task.server <= Len(transfers)
            /\ pausing \in BOOLEAN /\ version \in 1..MaxVersion /\ session \in Nat \ {0}
            /\ late \subseteq Requests /\ polls \in [Pollers -> TransferStatus \cup {"none"}]
<1>1. transfers \in Seq(Rows) => Len(transfers) \in Nat
  BY LenProperties
<1> QED
  BY <1>1 DEF TypeOK, Locals, Tasks, Rows, RowStatus, Versions, Before, After

-----------------------------------------------------------------------------
(* The local status machine *)

LEMMA TransitionKeeps ==
  ASSUME TypeOK, NEW next \in TransferStatus, transition(next)
  PROVE  /\ local' \in Locals
         /\ local'.server = local.server /\ local'.snapshot = local.snapshot
         /\ local'.status = local.status
              \/ (local'.status = next /\ Exists /\ can_transition_to(local.status, next))
<1>1. local \in Locals
  BY Typed
<1> QED
  BY <1>1 DEF transition, Locals

LEMMA EndsKeeps ==
  ASSUME TypeOK, NEW next \in {"ready", "failed", "interrupted", "paused", "finalizing"}, Ends(next)
  PROVE  /\ local' \in Locals
         /\ local'.server = local.server /\ local'.snapshot = local.snapshot
         /\ local'.status = local.status
              \/ (local'.status = next /\ Exists /\ can_transition_to(local.status, next))
         /\ task' = Idle
  BY TransitionKeeps DEF Ends, TransferStatus

LEMMA IdleTask ==
  Idle \in Tasks /\ Idle.pc = "idle" /\ Idle.server = None /\ Idle.snapshot = None
  BY LifecycleAssumption DEF Idle, Tasks, Versions, None

-----------------------------------------------------------------------------
(* The Registry *)

(* What a step of the Registry leaves true for whoever knows one of its ids. *)
Later ==
    /\ transfers' \in Seq(Rows) /\ RowsAreSound'
    /\ Len(transfers) <= Len(transfers')
    /\ \A id \in Ids :
        /\ id \in Ids' /\ transfers'[id].version = transfers[id].version
        /\ Live(id)' => /\ Live(id)
                        /\ transfers[id].status = "complete" => transfers'[id].status = "complete"
                        /\ transfers[id].status = "failed" =>
                               transfers'[id].status = "failed" \/ retries' > 0
    /\ \A id \in Ids' : transfers'[id].manifest # None => MayDescribe(id)

LEMMA IdsOf ==
  ASSUME TypeOK
  PROVE  /\ transfers \in Seq(Rows) /\ Ids = 1..Len(transfers) /\ Len(transfers) \in Nat
         /\ \A id \in Ids : transfers[id] \in Rows /\ id # None /\ id \in Nat
         /\ local.server \in {None} \cup Ids /\ task.server \in {None} \cup Ids
<1>1. transfers \in Seq(Rows)
  BY Typed
<1>2. Ids = 1..Len(transfers) /\ Len(transfers) \in Nat
  BY <1>1, LenProperties DEF Ids
<1>3. \A id \in Ids : transfers[id] \in Rows
  BY <1>1, <1>2, ElementOfSeq
<1>4. /\ local.server \in Nat /\ local.server <= Len(transfers)
      /\ task.server \in Nat /\ task.server <= Len(transfers)
  BY Typed DEF Locals, Tasks
<1> QED
  BY <1>1, <1>2, <1>3, <1>4 DEF None

LEMMA Unchanged ==
  ASSUME TypeOK, Counted, RowsAreSound, UNCHANGED <<transfers, retries>>
  PROVE  Later
<1>1. Ids' = Ids /\ \A id : Live(id)' <=> Live(id)
  BY DEF Ids, Live
<1>2. RowsAreSound'
  BY <1>1 DEF RowsAreSound, RowIsSound
<1>3. transfers \in Seq(Rows) /\ Len(transfers) \in Nat
  BY IdsOf
<1> QED
  BY <1>1, <1>2, <1>3 DEF Later, MayDescribe

(* One row changes: it keeps its session and its release, stays deleted if it was, loses a
   verdict only to the administrator, and gets a manifest only if one was on its way.      *)
LEMMA RowChanging ==
  ASSUME TypeOK, Counted, RowsAreSound, NEW id \in Ids, NEW row \in Rows,
         transfers' = [transfers EXCEPT ![id] = row],
         RowIsSound(row), row.session = transfers[id].session, row.version = transfers[id].version,
         row.manifest # None => MayDescribe(id),
         transfers[id].status = "deleted" => row.status = "deleted",
         row.status # "deleted" =>
            /\ transfers[id].status = "complete" => row.status = "complete"
            /\ transfers[id].status = "failed" => row.status = "failed" \/ retries' > 0,
         retries' \in {retries, retries + 1}
  PROVE  Later
<1>1. /\ transfers \in Seq(Rows) /\ Ids = 1..Len(transfers) /\ Len(transfers) \in Nat
      /\ \A j \in Ids : transfers[j] \in Rows /\ j # None
  BY IdsOf
<1>2. /\ transfers' \in Seq(Rows) /\ Len(transfers') = Len(transfers)
      /\ \A j \in 1..Len(transfers) : transfers'[j] = IF j = id THEN row ELSE transfers[j]
  BY <1>1, ExceptSeq
<1>3. Ids' = Ids
  BY <1>1, <1>2, LenProperties DEF Ids
<1>4. \A j \in Ids : transfers'[j] = IF j = id THEN row ELSE transfers[j]
  BY <1>1, <1>2
<1>5. \A j \in Ids : /\ transfers'[j].session = transfers[j].session
                     /\ transfers'[j].version = transfers[j].version
                     /\ Live(j)' => Live(j)
  BY <1>1, <1>4 DEF Live
<1>6. RowsAreSound'
  <2>1. \A j \in Ids' : RowIsSound(transfers'[j])
    BY <1>3, <1>4 DEF RowsAreSound
  <2>2. ASSUME NEW i \in Ids', NEW j \in Ids', i # j, Live(i)', Live(j)'
        PROVE  transfers'[i].session # transfers'[j].session
    BY <1>3, <1>5, <2>2 DEF RowsAreSound
  <2> QED
    BY <2>1, <2>2 DEF RowsAreSound
<1>7. \A j \in Ids : Live(j)' =>
        /\ transfers[j].status = "complete" => transfers'[j].status = "complete"
        /\ transfers[j].status = "failed" => transfers'[j].status = "failed" \/ retries' > 0
  BY <1>4 DEF Live
<1>8. \A j \in Ids : transfers'[j].manifest # None => MayDescribe(j)
  BY <1>4 DEF MayDescribe
<1> QED
  BY <1>1, <1>2, <1>3, <1>5, <1>6, <1>7, <1>8 DEF Later

(* A row is added, for a session that has none. *)
LEMMA Registering ==
  ASSUME TypeOK, Counted, RowsAreSound, NEW s \in Nat, NEW v \in Versions \ {None},
         create_transfer(s, v), UNCHANGED retries
  PROVE  Later
<1>1. CASE Registered(s)
  BY <1>1, Unchanged DEF create_transfer
<1>2. CASE ~ Registered(s)
  <2>1. transfers' = Append(transfers, Draft(s, v))
    BY <1>2 DEF create_transfer
  <2>2. /\ transfers \in Seq(Rows) /\ Ids = 1..Len(transfers) /\ Len(transfers) \in Nat
        /\ \A j \in Ids : transfers[j] \in Rows /\ j # None
    BY IdsOf
  <2>3. /\ Draft(s, v) \in Rows /\ RowIsSound(Draft(s, v)) /\ Draft(s, v).session = s
        /\ Draft(s, v).manifest = None
    BY LifecycleAssumption DEF Draft, Rows, RowStatus, TransferStatus, Versions, None, RowIsSound
  <2> HIDE DEF Draft
  <2>4. /\ transfers' \in Seq(Rows) /\ Len(transfers') = Len(transfers) + 1
        /\ \A j \in 1..Len(transfers) : transfers'[j] = transfers[j]
        /\ transfers'[Len(transfers) + 1] = Draft(s, v)
    BY <2>1, <2>2, <2>3, AppendProperties
  <2>5. Ids' = Ids \cup {Len(transfers) + 1} /\ Len(transfers) + 1 \notin Ids
    BY <2>2, <2>4, LenProperties DEF Ids
  <2>6. \A j \in Ids : transfers'[j] = transfers[j] /\ (Live(j)' <=> Live(j))
    BY <2>2, <2>4 DEF Live
  <2>7. RowsAreSound'
    <3>1. \A j \in Ids' : RowIsSound(transfers'[j])
      BY <2>3, <2>4, <2>5, <2>6 DEF RowsAreSound
    <3>2. \A j \in Ids : Live(j)' => transfers'[j].session # s
      BY <1>2, <2>6 DEF Registered, Known
    <3>3. ASSUME NEW i \in Ids', NEW j \in Ids', i # j, Live(i)', Live(j)'
          PROVE  transfers'[i].session # transfers'[j].session
      <4>1. CASE i \in Ids /\ j \in Ids
        BY <2>6, <3>3, <4>1 DEF RowsAreSound
      <4>2. CASE i = Len(transfers) + 1
        BY <2>3, <2>4, <2>5, <3>2, <3>3, <4>2
      <4>3. CASE j = Len(transfers) + 1
        BY <2>3, <2>4, <2>5, <3>2, <3>3, <4>3
      <4> QED
        BY <2>5, <4>1, <4>2, <4>3
    <3> QED
      BY <3>1, <3>3 DEF RowsAreSound
  <2>8. \A j \in Ids' : transfers'[j].manifest # None => MayDescribe(j)
    BY <2>3, <2>4, <2>5, <2>6 DEF MayDescribe
  <2> QED
    BY <2>2, <2>4, <2>5, <2>6, <2>7, <2>8 DEF Later
<1> QED
  BY <1>1, <1>2

LEMMA Describing ==
  ASSUME TypeOK, Counted, RowsAreSound, NEW s \in Nat, NEW id \in 0..Len(transfers),
         NEW v \in Versions \ {None}, MayDescribe(id), submit_manifest(s, id, v), UNCHANGED retries
  PROVE  Later
<1>1. CASE UNCHANGED transfers
  BY <1>1, Unchanged
<1>2. CASE /\ Known(s, id) /\ transfers[id].manifest = None /\ v = transfers[id].version
           /\ transfers' = [transfers EXCEPT ![id].status = "ready", ![id].manifest = v]
  <2>1. id \in Ids /\ transfers[id] \in Rows
    BY <1>2, IdsOf DEF Known, Live, None
  <2> DEFINE row == [transfers[id] EXCEPT !.status = "ready", !.manifest = v]
  <2>2. /\ row \in Rows /\ row.session = transfers[id].session /\ row.version = transfers[id].version
        /\ row.status = "ready" /\ row.manifest = v
    BY <2>1 DEF Rows, RowStatus, TransferStatus
  <2>3. transfers' = [transfers EXCEPT ![id] = row]
    BY <1>2
  <2> HIDE DEF row
  <2>4. transfers[id].status = "draft"
    BY <1>2, <2>1 DEF RowsAreSound, RowIsSound, Known, Live
  <2>5. RowIsSound(row)
    BY <1>2, <2>2 DEF RowIsSound
  <2> QED
    BY <2>1, <2>2, <2>3, <2>4, <2>5, RowChanging
<1> QED
  BY <1>1, <1>2 DEF submit_manifest, ManifestAccepted

(* A row whose status alone changes. *)
LEMMA StatusChanging ==
  ASSUME TypeOK, Counted, RowsAreSound, NEW id \in Ids, NEW status \in RowStatus,
         transfers' = [transfers EXCEPT ![id].status = status],
         transfers[id].manifest = None => status = "deleted",
         transfers[id].status = "deleted" => status = "deleted",
         status # "deleted" =>
            /\ transfers[id].status = "complete" => status = "complete"
            /\ transfers[id].status = "failed" => status = "failed" \/ retries' > 0,
         retries' \in {retries, retries + 1}
  PROVE  Later
<1>1. transfers[id] \in Rows
  BY IdsOf
<1> DEFINE row == [transfers[id] EXCEPT !.status = status]
<1>2. /\ row \in Rows /\ row.session = transfers[id].session /\ row.version = transfers[id].version
      /\ row.status = status /\ row.manifest = transfers[id].manifest
  BY <1>1 DEF Rows
<1>3. transfers' = [transfers EXCEPT ![id] = row]
  OBVIOUS
<1> HIDE DEF row
<1>4. RowIsSound(row)
  BY <1>2 DEF RowsAreSound, RowIsSound
<1>5. row.manifest # None => MayDescribe(id)
  BY <1>2 DEF MayDescribe
<1> QED
  BY <1>2, <1>3, <1>4, <1>5, RowChanging

LEMMA Finalizing ==
  ASSUME TypeOK, Counted, RowsAreSound, NEW s \in Nat, NEW id \in 0..Len(transfers),
         finalize_transfer(s, id), UNCHANGED retries
  PROVE  Later
<1>1. CASE UNCHANGED transfers
  BY <1>1, Unchanged
<1>2. CASE /\ Known(s, id) /\ transfers[id].status = "ready"
           /\ transfers' = [transfers EXCEPT ![id].status = "finalizing"]
  <2>1. id \in Ids
    BY <1>2, IdsOf DEF Known, Live, None
  <2>2. transfers[id].manifest # None
    BY <1>2, <2>1 DEF RowsAreSound, RowIsSound
  <2>3. "finalizing" \in RowStatus /\ retries \in Nat
    BY DEF RowStatus, TransferStatus, Counted
  <2> QED
    BY <1>2, <2>1, <2>2, <2>3, StatusChanging
<1> QED
  BY <1>1, <1>2 DEF finalize_transfer, FinalizeChanges

LEMMA Handling ==
  ASSUME TypeOK, Counted, RowsAreSound, NEW r \in Requests, r.id <= Len(transfers),
         r.kind # "finalize" => r.value # None, r.kind = "manifest" => MayDescribe(r.id),
         Handle(r), UNCHANGED retries
  PROVE  Later
<1>1. /\ r.kind \in {"register", "manifest", "finalize"} /\ r.id \in 0..Len(transfers)
      /\ r.session \in Nat /\ r.value \in Versions
  BY IdsOf DEF Requests, Versions
<1>2. CASE r.kind = "register"
  BY <1>1, <1>2, Registering DEF Handle
<1>3. CASE r.kind = "manifest"
  BY <1>1, <1>3, Describing DEF Handle
<1>4. CASE r.kind = "finalize"
  BY <1>1, <1>4, Finalizing DEF Handle
<1> QED
  BY <1>1, <1>2, <1>3, <1>4

(* A row whose objects alone change. *)
LEMMA Storing ==
  ASSUME TypeOK, Counted, RowsAreSound, NEW id \in Ids, NEW row \in Rows,
         row.session = transfers[id].session, row.version = transfers[id].version,
         row.manifest = transfers[id].manifest, row.status = transfers[id].status,
         transfers' = [transfers EXCEPT ![id] = row], UNCHANGED retries
  PROVE  Later
<1>1. RowIsSound(row)
  BY DEF RowsAreSound, RowIsSound
<1>2. row.manifest # None => MayDescribe(id)
  BY DEF MayDescribe
<1> QED
  BY <1>1, <1>2, RowChanging

(* Late requests that may be there after a step. *)
LateIsKnown ==
    /\ late' \subseteq Requests
    /\ \A q \in late' : /\ q.id <= Len(transfers)
                        /\ q.kind # "finalize" => q.value # None
                        /\ q.kind = "manifest" => q.id # None /\ MayDescribe(q.id)

LEMMA LateStays ==
  ASSUME TypeOK, LateAreKnown, late' \subseteq late
  PROVE  LateIsKnown
<1>1. \A r \in late : r.kind = "manifest" => MayDescribe(r.id)
  BY DEF MayDescribe
<1> QED
  BY <1>1, Typed DEF LateIsKnown, LateAreKnown

(* A request whose answer is lost, from a task that may send it. *)
LEMMA Abandoning ==
  ASSUME TypeOK, Counted, RowsAreSound, LateAreKnown, NEW r \in Requests, r.id <= Len(transfers),
         r.kind # "finalize" => r.value # None,
         r.kind = "manifest" => r.id # None /\ MayDescribe(r.id),
         Abandoned(r), UNCHANGED retries
  PROVE  Later /\ LateIsKnown
<1>1. late' \in {late, late \cup {r}}
  BY DEF Abandoned
<1>2. Later
  BY Handling, Unchanged DEF Abandoned
<1>3. LateIsKnown
  <2>1. \A q \in late : q.kind = "manifest" => MayDescribe(q.id)
    BY DEF MayDescribe
  <2> QED
    BY <1>1, <2>1, Typed DEF LateIsKnown, LateAreKnown
<1> QED
  BY <1>2, <1>3

-----------------------------------------------------------------------------
(* What Courier knows after a step of the Registry *)

(* A step of Courier that keeps the id and the snapshot, applies no verdict and does not
   set out to send the manifest; or none of Courier at all.                              *)
Proceeds ==
    /\ local' \in Locals /\ task' \in Tasks
    /\ pausing' \in BOOLEAN /\ version' \in 1..MaxVersion
    /\ local'.server = local.server /\ local'.snapshot = local.snapshot
    /\ \/ local'.status = local.status
       \/ local'.status \notin Absent \cup {"complete", "failed"}
       \/ local'.status = "failed" /\ local.server = None
    /\ local.status = "cleared" => local'.status = "cleared"
    /\ task'.server \in {None, task.server, local.server}
    /\ task'.pc = "manifest" => /\ task.pc = "manifest"
                                /\ task'.server = task.server /\ task'.snapshot = task.snapshot
    /\ TaskIsBound'

LEMMA ProceedsKeeps ==
  ASSUME IInv, Later, LateIsKnown, Proceeds, polls' \in {polls, [p \in Pollers |-> "none"]},
         retries' \in {retries, retries + 1}, Counted', session' \in Nat \ {0}
  PROVE  IInv'
<1>1. /\ local.server \in {None} \cup Ids /\ task.server \in {None} \cup Ids
      /\ Len(transfers) \in Nat /\ \A id \in Ids : id # None
  BY IdsOf DEF IInv
<1>2. /\ local.server \in Nat /\ local.server <= Len(transfers)
      /\ task.server \in Nat /\ task.server <= Len(transfers)
  BY Typed DEF IInv, Locals, Tasks
<1>3. Len(transfers) <= Len(transfers') /\ Len(transfers') \in Nat /\ transfers' \in Seq(Rows)
  BY LenProperties DEF Later
<1>4. TypeOK'
  <2>1. local'.server <= Len(transfers')
    BY <1>1, <1>2, <1>3 DEF Proceeds
  <2>2. task'.server <= Len(transfers')
    BY <1>1, <1>2, <1>3 DEF Proceeds, None
  <2>3. polls' \in [Pollers -> TransferStatus \cup {"none"}]
    BY Typed DEF IInv
  <2>4. /\ local' \in Locals /\ task' \in Tasks
        /\ pausing' \in BOOLEAN /\ version' \in 1..MaxVersion /\ late' \subseteq Requests
    BY DEF Proceeds, LateIsKnown
  <2> QED
    BY <1>3, <2>1, <2>2, <2>3, <2>4 DEF TypeOK, Locals, Tasks, Rows, RowStatus, Versions, Before, After
<1>5. LateAreKnown'
  <2>1. ASSUME NEW q \in late' PROVE q.id <= Len(transfers')
    <3>1. q.id \in Nat /\ q.id <= Len(transfers)
      BY DEF LateIsKnown, Requests
    <3> QED
      BY <1>1, <1>3, <3>1
  <2> QED
    BY <2>1 DEF LateAreKnown, LateIsKnown
<1>6. OneIsDescribed'
  <2>1. ASSUME NEW i \in Nat, MayDescribe(i)'
        PROVE  MayDescribe(i)
    BY <2>1 DEF MayDescribe, Later, LateIsKnown, Proceeds
  <2>2. local'.status # "cleared" => local.status # "cleared" /\ local'.server = local.server
    BY DEF Proceeds
  <2> QED
    BY <2>1, <2>2 DEF IInv, OneIsDescribed
<1>7. SnapshotsAreRegistered'
  <2>1. local'.snapshot # None => local'.snapshot = transfers'[local'.server].version
    <3>1. local.snapshot # None => /\ local.server \in Ids
                                   /\ local.snapshot = transfers[local.server].version
      BY <1>1 DEF IInv, SnapshotsAreRegistered, TaskIsBound
    <3> QED
      BY <3>1 DEF Later, Proceeds
  <2>2. task'.pc = "manifest" => task'.snapshot = transfers'[task'.server].version
    <3>1. task.pc = "manifest" => /\ task.server \in Ids
                                  /\ task.snapshot = transfers[task.server].version
      BY <1>1 DEF IInv, SnapshotsAreRegistered, TaskIsBound, After
    <3> QED
      BY <3>1 DEF Later, Proceeds
  <2> QED
    BY <2>1, <2>2 DEF SnapshotsAreRegistered
<1>8. VerdictsAreFounded'
  <2> DEFINE before == transfers[local.server].status
             after  == transfers'[local.server].status
  <2>1. retries > 0 => retries' > 0
    BY DEF IInv, Counted
  <2>2. /\ local'.server = local.server
        /\ Live(local.server)' => /\ Live(local.server) /\ local.server # None
                                  /\ before = "complete" => after = "complete"
                                  /\ before = "failed" => after = "failed" \/ retries' > 0
    <3>1. local'.server = local.server
      BY DEF Proceeds
    <3> QED
      BY <1>1, <3>1 DEF Later, Live
  <2>3. ShownVerdictIsTheRegistrys'
    <3>1. CASE local'.status = local.status
      <4>1. Live(local.server) =>
              /\ local.status = "complete" => before = "complete"
              /\ local.status = "failed" => before = "failed" \/ retries > 0
        BY DEF IInv, VerdictsAreFounded, ShownVerdictIsTheRegistrys
      <4>2. Live(local.server)' =>
              /\ local'.status = "complete" => after = "complete"
              /\ local'.status = "failed" => after = "failed" \/ retries' > 0
        BY <3>1, <4>1, <2>1, <2>2
      <4> QED
        BY <4>2, <2>2 DEF ShownVerdictIsTheRegistrys
    <3>2. CASE local'.status \notin {"complete", "failed"}
      BY <3>2 DEF ShownVerdictIsTheRegistrys
    <3>3. CASE local'.status = "failed" /\ local.server = None
      BY <2>2, <3>3 DEF ShownVerdictIsTheRegistrys
    <3> QED
      BY <3>1, <3>2, <3>3 DEF Proceeds
  <2>4. ASSUME NEW p \in Pollers
        PROVE  /\ polls[p] # "none" => local'.server # None \/ local'.status = "cleared"
               /\ Live(local.server)' =>
                    /\ polls[p] = "complete" => after = "complete"
                    /\ polls[p] = "failed" => after = "failed" \/ retries' > 0
    <3>1. polls[p] # "none" => local.server # None \/ local.status = "cleared"
      BY DEF IInv, VerdictsAreFounded
    <3>2. polls[p] # "none" => local'.server # None \/ local'.status = "cleared"
      BY <3>1 DEF Proceeds
    <3>3. Live(local.server)' =>
            /\ polls[p] = "complete" => before = "complete"
            /\ polls[p] = "failed" => before = "failed" \/ retries > 0
      BY <2>2 DEF IInv, VerdictsAreFounded
    <3> QED
      BY <3>2, <3>3, <2>1, <2>2
  <2>5. \A p \in Pollers : polls'[p] = polls[p] \/ polls'[p] = "none"
    OBVIOUS
  <2> QED
    BY <2>2, <2>3, <2>4, <2>5 DEF VerdictsAreFounded
<1>9. Counted' /\ RowsAreSound' /\ TaskIsBound'
  BY DEF Later, Proceeds
<1> QED
  BY <1>4, <1>5, <1>6, <1>7, <1>8, <1>9 DEF IInv

(* The end of a task, and its way from one place to the next. *)
LEMMA EndsProceeds ==
  ASSUME IInv, NEW next \in {"ready", "failed", "interrupted", "paused", "finalizing"}, Ends(next),
         next = "failed" => local.server = None, UNCHANGED <<pausing, version>>
  PROVE  Proceeds
<1>1. TypeOK /\ TaskIsBound
  BY DEF IInv
<1>2. /\ local' \in Locals /\ task' = Idle
      /\ local'.server = local.server /\ local'.snapshot = local.snapshot
      /\ local'.status = local.status \/ (local'.status = next /\ Exists)
  BY <1>1, EndsKeeps
<1>3. Idle \in Tasks /\ Idle.pc = "idle" /\ Idle.server = None
  BY IdleTask
<1>4. TaskIsBound'
  BY <1>1, <1>2, <1>3 DEF TaskIsBound, Exists, Busy, Absent, Before, After
<1> QED
  BY <1>1, <1>2, <1>3, <1>4 DEF Proceeds, TypeOK, Exists, Absent

LEMMA GoesOn ==
  ASSUME IInv, task.pc \in After, NEW pc \in After \ {"manifest"}, NEW todo \in SUBSET Objects,
         task' = [task EXCEPT !.pc = pc, !.todo = todo],
         local' \in Locals, local'.server = local.server, local'.snapshot = local.snapshot,
         local'.status = local.status, UNCHANGED <<pausing, version>>
  PROVE  Proceeds
<1>1. TypeOK /\ TaskIsBound
  BY DEF IInv
<1>2. task' \in Tasks /\ task'.pc = pc /\ task'.server = task.server
  BY <1>1, Typed DEF Tasks
<1>3. TaskIsBound'
  BY <1>1, <1>2 DEF TaskIsBound, Exists, Busy, Before, After
<1> QED
  BY <1>1, <1>2, <1>3 DEF Proceeds, TypeOK

LEMMA GotoGoesOn ==
  ASSUME IInv, task.pc \in After, NEW pc \in After \ {"manifest"}, Goto(pc),
         UNCHANGED <<local, pausing, version>>
  PROVE  Proceeds
<1>1. task' = [task EXCEPT !.pc = pc, !.todo = task.todo] /\ task.todo \in SUBSET Objects
  BY Typed DEF Goto, IInv, Tasks
<1>2. local' \in Locals /\ local' = local
  BY Typed DEF IInv
<1> QED
  BY <1>1, <1>2, GoesOn

LEMMA StandsStill ==
  ASSUME IInv, UNCHANGED <<local, task, version>>, pausing' \in BOOLEAN
  PROVE  Proceeds
<1>1. TaskIsBound'
  BY DEF IInv, TaskIsBound, Exists, Busy
<1> QED
  BY <1>1, Typed DEF IInv, Proceeds

(* A step that leaves the Registry and the late requests alone. *)
LEMMA AtHome ==
  ASSUME IInv, Proceeds, UNCHANGED <<polls, session, transfers, late, retries, exchanges>>
  PROVE  IInv'
<1>1. Later
  BY Unchanged DEF IInv
<1>2. LateIsKnown
  BY LateStays DEF IInv
<1>3. Counted' /\ session' \in Nat \ {0}
  BY Typed DEF IInv, Counted
<1> QED
  BY <1>1, <1>2, <1>3, ProceedsKeeps

-----------------------------------------------------------------------------
(* create_inventory *)

LEMMA CreateInventory ==
  ASSUME IInv, create_inventory
  PROVE  IInv'
<1>1. TypeOK /\ TaskIsBound
  BY DEF IInv
<1>2. /\ local' \in Locals /\ local'.server = local.server /\ local'.snapshot = local.snapshot
      /\ local'.status = "draft" /\ local.status = "none"
  BY <1>1, Typed DEF create_inventory, Locals, TransferStatus
<1>3. task = Idle /\ Idle.server = None /\ local.server = None /\ local.snapshot = None
  BY <1>1, <1>2 DEF TaskIsBound, Exists, Absent, Idle
<1>4. task' \in Tasks /\ task'.pc = "inventory" /\ task'.server = None
  BY <1>1, <1>3, Typed DEF create_inventory, Goto, Tasks, Before
<1>5. TaskIsBound'
  BY <1>2, <1>3, <1>4 DEF TaskIsBound, Exists, Busy, Absent, Before, After
<1>6. Proceeds
  BY <1>1, <1>2, <1>3, <1>4, <1>5 DEF Proceeds, TypeOK, create_inventory, Absent
<1> QED
  BY <1>6, AtHome DEF create_inventory, bounds

LEMMA InventoryBegins ==
  ASSUME IInv, inventory_begins
  PROVE  IInv'
<1>1. TypeOK /\ TaskIsBound
  BY DEF IInv
<1>2. task.pc = "inventory" /\ task.server = None /\ local.server = None /\ local.snapshot = None
  BY <1>1 DEF inventory_begins, TaskIsBound, Before
<1>3. /\ local' \in Locals /\ local'.server = local.server /\ local'.snapshot = local.snapshot
      /\ local'.status = local.status \/ (local'.status = "inventorying" /\ Exists)
  BY <1>1, TransitionKeeps DEF inventory_begins, TransferStatus
<1>4. task' \in Tasks /\ task'.pc = "scan" /\ task'.server = task.server
  BY <1>1, Typed DEF inventory_begins, Goto, Tasks, Before
<1>5. TaskIsBound'
  BY <1>1, <1>2, <1>3, <1>4 DEF TaskIsBound, Exists, Busy, Absent, Before, After
<1>6. Proceeds
  BY <1>1, <1>2, <1>3, <1>4, <1>5 DEF Proceeds, TypeOK, inventory_begins, Exists, Absent
<1> QED
  BY <1>6, AtHome DEF inventory_begins, bounds

LEMMA InventoryEnds ==
  ASSUME IInv, inventory_ends
  PROVE  IInv'
<1>1. local.server = None
  BY DEF IInv, inventory_ends, TaskIsBound, Before
<1>2. PICK outcome \in {"ready", "failed"} : Ends(outcome)
  BY DEF inventory_ends
<1>3. Proceeds
  BY <1>1, <1>2, EndsProceeds DEF inventory_ends
<1> QED
  BY <1>3, AtHome DEF inventory_ends, bounds

-----------------------------------------------------------------------------
(* start_upload and run_upload *)

LEMMA StartUpload ==
  ASSUME IInv, start_upload
  PROVE  IInv'
<1>1. TypeOK /\ TaskIsBound
  BY DEF IInv
<1>2. /\ local' \in Locals /\ local'.server = local.server /\ local'.snapshot = local.snapshot
      /\ local'.status = "uploading" /\ Exists /\ local.status # "cleared"
  BY <1>1, Typed DEF start_upload, Resumable, Exists, Absent, Locals, TransferStatus
<1>3. /\ task' \in Tasks /\ task'.server = local.server /\ task'.snapshot = None
      /\ task'.pc = IF local.server = None THEN "register" ELSE "snapshot"
  <2>1. Objects \ local.uploaded \in SUBSET Objects /\ session \in Nat /\ local.server \in Nat
    BY <1>1, Typed DEF Locals
  <2>2. None \in Versions
    BY LifecycleAssumption DEF None, Versions
  <2> QED
    BY <2>1, <2>2 DEF start_upload, Tasks, Before, After
<1>4. TaskIsBound'
  BY <1>1, <1>2, <1>3 DEF TaskIsBound, Exists, Busy, Absent, Before, After
<1>5. Proceeds
  BY <1>1, <1>2, <1>3, <1>4 DEF Proceeds, TypeOK, start_upload, Absent
<1> QED
  BY <1>5, AtHome DEF start_upload, bounds

(* A request whose answer is lost, and the end of the task if it was the last try. *)
LEMMA LosingARequest ==
  ASSUME IInv, NEW kind \in {"register", "manifest", "finalize"}, RequestLost(kind),
         kind = "manifest" => task.pc = "manifest", UNCHANGED <<pausing, version, polls, session>>
  PROVE  IInv'
<1>1. TypeOK /\ Counted /\ RowsAreSound /\ LateAreKnown /\ TaskIsBound
  BY DEF IInv
<1> DEFINE r == Request(kind)
<1>2. Abandoned(r) /\ UNCHANGED <<retries, exchanges>>
  BY DEF RequestLost, Fault
<1>3. /\ r \in Requests /\ r.id <= Len(transfers) /\ (r.kind # "finalize" => r.value # None)
      /\ r.kind = "manifest" => r.id # None /\ MayDescribe(r.id)
  <2>1. r.kind = kind /\ r.id = task.server
    BY DEF Request
  <2>2. r \in Requests /\ r.id <= Len(transfers)
    BY <1>1, Typed, LifecycleAssumption DEF Request, Requests, Tasks, Versions
  <2>3. r.kind # "finalize" => r.value # None
    BY <1>1, Typed, LifecycleAssumption DEF Request, TaskIsBound, None
  <2>4. kind = "manifest" => task.server # None /\ MayDescribe(task.server)
    BY <1>1 DEF TaskIsBound, After, MayDescribe
  <2> QED
    BY <2>1, <2>2, <2>3, <2>4
<1> HIDE DEF r
<1>4. Later /\ LateIsKnown
  BY <1>1, <1>2, <1>3, Abandoning
<1>5. Proceeds
  <2>1. CASE UNCHANGED <<local, task>>
    BY <2>1, StandsStill DEF IInv, TypeOK
  <2>2. CASE Ends("interrupted")
    BY <2>2, EndsProceeds
  <2> QED
    BY <2>1, <2>2 DEF RequestLost
<1>6. Counted' /\ session' \in Nat \ {0}
  BY <1>1, <1>2, Typed DEF Counted
<1> QED
  BY <1>2, <1>4, <1>5, <1>6, ProceedsKeeps

(* The id is new to Courier: no snapshot was made for it and no answer fetched. *)
LEMMA RegisterTransfer ==
  ASSUME IInv, register_transfer
  PROVE  IInv'
<1>1. TypeOK /\ Counted /\ RowsAreSound /\ LateAreKnown /\ TaskIsBound /\ VerdictsAreFounded
  BY DEF IInv
<1>2. CASE RequestLost("register")
  BY <1>2, LosingARequest DEF register_transfer
<1>3. ASSUME NEW id \in Ids',
             create_transfer(task.session, version), Live(id)',
             task' = [task EXCEPT !.pc = "snapshot", !.server = id],
             Write([local EXCEPT !.server = id]),
             UNCHANGED <<late, bounds>>
      PROVE  IInv'
  <2>1. task.session \in Nat /\ version \in Versions \ {None} /\ UNCHANGED <<retries, exchanges>>
    BY <1>1, <1>3, Typed, LifecycleAssumption DEF Tasks, Versions, None, bounds
  <2>2. Later
    BY <1>1, <1>3, <2>1, Registering
  <2>3. /\ transfers' \in Seq(Rows) /\ RowsAreSound' /\ Len(transfers) <= Len(transfers')
        /\ Len(transfers) \in Nat /\ Len(transfers') \in Nat
        /\ id \in Nat /\ id <= Len(transfers') /\ id # None
    <3>1. transfers' \in Seq(Rows) /\ Ids' = 1..Len(transfers')
      BY <2>2, LenProperties DEF Later, Ids
    <3> QED
      BY <1>1, <1>3, <2>2, <3>1, IdsOf, LenProperties DEF Later, None
  <2>4. /\ task.pc = "register" /\ task.server = None /\ local.server = None /\ local.snapshot = None
        /\ Exists => local.status = "uploading"
        /\ UNCHANGED <<pausing, version, polls, session>>
    BY <1>1 DEF register_transfer, TaskIsBound, Before
  <2>5. task' \in Tasks /\ task'.pc = "snapshot" /\ task'.server = id
    BY <1>1, <1>3, <2>3, Typed DEF Tasks, After
  <2>6. /\ local' \in Locals /\ local'.status = local.status /\ local'.snapshot = None
        /\ local'.server = IF Exists THEN id ELSE None
    BY <1>1, <1>3, <2>3, <2>4, Typed DEF Write, Locals
  <2>7. TypeOK'
    <3>1. /\ local'.server <= Len(transfers') /\ task'.server <= Len(transfers')
          /\ pausing' \in BOOLEAN /\ version' \in 1..MaxVersion /\ session' \in Nat \ {0}
          /\ late' \subseteq Requests /\ polls' \in [Pollers -> TransferStatus \cup {"none"}]
      BY <1>1, <1>3, <2>3, <2>4, <2>5, <2>6, Typed DEF None
    <3> QED
      BY <2>3, <2>5, <2>6, <3>1 DEF TypeOK, Locals, Tasks, Rows, RowStatus, Versions, Before, After
  <2>8. LateAreKnown'
    <3>1. ASSUME NEW q \in late PROVE q.id <= Len(transfers')
      BY <1>1, <2>3, Typed DEF LateAreKnown, Requests
    <3> QED
      BY <1>1, <1>3, <3>1 DEF LateAreKnown
  <2>9. TaskIsBound'
    <3>1. local.status # "none"
      BY <1>1, <2>4 DEF TaskIsBound, Busy
    <3>2. Exists' <=> Exists
      BY <2>6 DEF Exists
    <3>3. Busy' /\ task'.pc \in After /\ task'.pc \notin Before
      BY <2>5 DEF Busy, Before, After
    <3> QED
      BY <2>3, <2>4, <2>5, <2>6, <3>1, <3>2, <3>3 DEF TaskIsBound
  <2>10. SnapshotsAreRegistered'
    BY <2>5, <2>6 DEF SnapshotsAreRegistered
  <2>11. VerdictsAreFounded'
    <3>1. ShownVerdictIsTheRegistrys'
      BY <2>4, <2>6 DEF ShownVerdictIsTheRegistrys, Live, Exists, Absent
    <3>2. ASSUME NEW p \in Pollers
          PROVE  polls[p] # "none" => local'.server = None /\ local'.status = "cleared"
      BY <1>1, <2>4, <2>6 DEF VerdictsAreFounded, Exists, Absent
    <3>3. polls' = polls
      BY <2>4
    <3> QED
      BY <3>1, <3>2, <3>3 DEF VerdictsAreFounded, Live
  <2>12. OneIsDescribed'
    <3>1. ASSUME NEW i \in Nat, MayDescribe(i)'
          PROVE  MayDescribe(i)
      BY <1>3, <2>2, <2>5, <3>1 DEF MayDescribe, Later
    <3>2. \A i \in Nat : MayDescribe(i) => local.status = "cleared"
      BY <2>4 DEF IInv, OneIsDescribed
    <3> QED
      BY <2>6, <3>1, <3>2 DEF IInv, OneIsDescribed
  <2>13. Counted'
    BY <1>1, <2>1 DEF Counted
  <2> QED
    BY <2>3, <2>7, <2>8, <2>9, <2>10, <2>11, <2>12, <2>13 DEF IInv
<1> QED
  BY <1>2, <1>3 DEF register_transfer

(* The snapshot that is sent: the one kept, or one built for the registered release. *)
LEMMA ManifestSnapshot ==
  ASSUME IInv, manifest_snapshot
  PROVE  IInv'
<1>1. TypeOK /\ Counted /\ RowsAreSound /\ LateAreKnown /\ TaskIsBound /\ SnapshotsAreRegistered
      /\ VerdictsAreFounded /\ OneIsDescribed
  BY DEF IInv
<1>2. /\ task.pc = "snapshot"
      /\ UNCHANGED <<pausing, version, polls, session, transfers, late, retries, exchanges>>
  BY DEF manifest_snapshot, bounds, Fault
<1>3. CASE Ends("interrupted")
  BY <1>2, <1>3, EndsProceeds, AtHome
<1>4. ASSUME NEW v \in Versions \ {None},
             Exists, v = transfers[task.server].version,
             task' = [task EXCEPT !.pc = "manifest", !.snapshot = v],
             local' \in Locals, local'.status = local.status, local'.server = local.server,
             local'.snapshot = v
      PROVE  IInv'
  <2>1. local.server = task.server /\ task.server # None /\ local.status = "uploading"
    BY <1>1, <1>2, <1>4 DEF TaskIsBound, After
  <2>2. task' \in Tasks /\ task'.pc = "manifest" /\ task'.server = task.server /\ task'.snapshot = v
    BY <1>1, <1>4, Typed DEF Tasks, After
  <2>3. TypeOK'
    <3>1. local'.server <= Len(transfers) /\ task'.server <= Len(transfers)
      BY <1>1, <1>4, <2>2, Typed
    <3> QED
      BY <1>1, <1>2, <1>4, <2>2, <3>1 DEF TypeOK, Locals, Tasks, Versions, Before, After
  <2>4. Counted' /\ RowsAreSound' /\ LateAreKnown'
    BY <1>1, <1>2 DEF Counted, RowsAreSound, RowIsSound, Ids, Live, LateAreKnown
  <2>5. TaskIsBound'
    BY <1>4, <2>1, <2>2 DEF TaskIsBound, Exists, Busy, Absent, Before, After
  <2>6. SnapshotsAreRegistered'
    BY <1>2, <1>4, <2>1, <2>2 DEF SnapshotsAreRegistered
  <2>7. VerdictsAreFounded'
    <3>1. ShownVerdictIsTheRegistrys'
      BY <1>4, <2>1 DEF ShownVerdictIsTheRegistrys
    <3>2. /\ polls' = polls /\ transfers' = transfers /\ retries' = retries
          /\ local'.server = local.server /\ local'.status = local.status
      BY <1>2, <1>4
    <3> QED
      BY <1>1, <3>1, <3>2 DEF VerdictsAreFounded, Live
  <2>8. OneIsDescribed'
    <3>1. ASSUME NEW i \in Nat, MayDescribe(i)'
          PROVE  i = local.server
      <4>1. MayDescribe(i) \/ task'.server = i
        BY <1>2, <3>1 DEF MayDescribe, Ids
      <4>2. local.status # "cleared"
        BY <2>1
      <4> QED
        BY <1>1, <2>1, <2>2, <4>1, <4>2 DEF OneIsDescribed
    <3> QED
      BY <1>4, <2>1, <3>1 DEF OneIsDescribed
  <2> QED
    BY <2>3, <2>4, <2>5, <2>6, <2>7, <2>8 DEF IInv
<1>5. CASE Exists /\ local.snapshot # None /\ UNCHANGED local
           /\ task' = [task EXCEPT !.pc = "manifest", !.snapshot = local.snapshot]
  <2>1. local.server = task.server
    BY <1>1, <1>2, <1>5 DEF TaskIsBound, After
  <2>2. local.snapshot = transfers[task.server].version
    BY <1>1, <1>5, <2>1 DEF SnapshotsAreRegistered
  <2>3. local.snapshot \in Versions \ {None} /\ local' \in Locals
    BY <1>1, <1>5, Typed DEF Locals
  <2> QED
    BY <1>4, <1>5, <2>2, <2>3
<1>6. CASE /\ Exists /\ local.snapshot = None /\ Known(task.session, task.server)
           /\ local' = [local EXCEPT !.snapshot = SnapshotVersion]
           /\ task' = [task EXCEPT !.pc = "manifest", !.snapshot = SnapshotVersion]
  <2>1. task.server \in Ids
    BY <1>1, <1>6, IdsOf DEF Known, Live
  <2>2. /\ SnapshotVersion = transfers[task.server].version
        /\ transfers[task.server].version \in Versions \ {None}
    BY <1>1, <2>1, IdsOf DEF SnapshotVersion, RowsAreSound, RowIsSound, Rows
  <2>3. /\ local' \in Locals /\ local'.status = local.status /\ local'.server = local.server
        /\ local'.snapshot = transfers[task.server].version
    BY <1>1, <1>6, <2>2, Typed DEF Locals
  <2> QED
    BY <1>4, <1>6, <2>2, <2>3
<1> QED
  BY <1>3, <1>5, <1>6 DEF manifest_snapshot

LEMMA ManifestSubmission ==
  ASSUME IInv, manifest_submission
  PROVE  IInv'
<1>1. /\ TypeOK /\ Counted /\ RowsAreSound /\ LateAreKnown /\ TaskIsBound
      /\ task.pc = "manifest" /\ UNCHANGED <<pausing, version, polls, session>>
  BY DEF IInv, manifest_submission
<1>2. /\ task.session \in Nat /\ task.snapshot \in Versions \ {None}
      /\ task.server \in 0..Len(transfers) /\ MayDescribe(task.server)
  <2>1. /\ task.session \in Nat /\ task.snapshot \in Versions
        /\ task.server \in Nat /\ task.server <= Len(transfers) /\ Len(transfers) \in Nat
    BY <1>1, Typed, IdsOf DEF Tasks
  <2>2. task.snapshot # None /\ MayDescribe(task.server)
    BY <1>1 DEF TaskIsBound, MayDescribe
  <2> QED
    BY <2>1, <2>2
<1>3. CASE RequestLost("manifest")
  BY <1>1, <1>3, LosingARequest
<1>4. CASE Ends("interrupted") /\ UNCHANGED <<transfers, late, bounds>>
  BY <1>1, <1>4, EndsProceeds, AtHome DEF bounds
<1>5. CASE /\ submit_manifest(task.session, task.server, task.snapshot)
           /\ Ends("interrupted") \/ (Goto("objects") /\ UNCHANGED local)
           /\ UNCHANGED <<late, bounds>>
  <2>1. Later
    BY <1>1, <1>2, <1>5, Describing DEF bounds
  <2>2. Proceeds
    BY <1>1, <1>5, EndsProceeds, GotoGoesOn DEF After
  <2>3. LateIsKnown /\ Counted' /\ session' \in Nat \ {0}
    BY <1>1, <1>5, LateStays, Typed DEF Counted, bounds
  <2> QED
    BY <1>1, <1>5, <2>1, <2>2, <2>3, ProceedsKeeps DEF bounds
<1> QED
  BY <1>3, <1>4, <1>5 DEF manifest_submission

LEMMA UploadObject ==
  ASSUME IInv, upload_object
  PROVE  IInv'
<1>1. /\ TypeOK /\ Counted /\ RowsAreSound /\ LateAreKnown
      /\ task.pc = "objects" /\ UNCHANGED <<pausing, version, polls, session, late>>
      /\ UNCHANGED <<retries, exchanges>>
  BY DEF IInv, upload_object, bounds, Fault
<1>2. PICK o \in task.todo : upload_object!2!(o)
  BY DEF upload_object
<1>3. o \in Objects /\ task.todo \ {o} \in SUBSET Objects
  BY <1>1, Typed DEF Tasks
<1>4. Later
  <2>1. CASE UNCHANGED transfers
    BY <1>1, <2>1, Unchanged
  <2>2. CASE /\ Known(task.session, task.server)
             /\ RowBecomes(Uploaded(o)) \/ RowBecomes(Unrecorded(o))
    <3> DEFINE row == transfers[task.server]
    <3>1. task.server \in Ids /\ row \in Rows
      BY <1>1, <2>2, IdsOf DEF Known, Live
    <3>2. row.stored \cup {o} \in SUBSET Objects /\ row.recorded \cup {o} \in SUBSET Objects
      BY <1>3, <3>1 DEF Rows
    <3>3. \A w \in {Uploaded(o), Unrecorded(o)} :
            /\ w \in Rows /\ w.session = row.session /\ w.version = row.version
            /\ w.manifest = row.manifest /\ w.status = row.status
      <4>1. \E recorded \in SUBSET Objects :
              Uploaded(o) = [row EXCEPT !.stored = row.stored \cup {o}, !.recorded = recorded]
        BY <3>1, <3>2 DEF Uploaded, Rows
      <4>2. Unrecorded(o) = [row EXCEPT !.stored = row.stored \cup {o}]
        BY DEF Unrecorded
      <4>3. PICK recorded \in SUBSET Objects :
              Uploaded(o) = [row EXCEPT !.stored = row.stored \cup {o}, !.recorded = recorded]
        BY <4>1
      <4> HIDE DEF row
      <4>4. /\ Uploaded(o) \in Rows /\ Uploaded(o).session = row.session
            /\ Uploaded(o).version = row.version /\ Uploaded(o).manifest = row.manifest
            /\ Uploaded(o).status = row.status
        BY <3>1, <3>2, <4>3 DEF Rows
      <4>5. /\ Unrecorded(o) \in Rows /\ Unrecorded(o).session = row.session
            /\ Unrecorded(o).version = row.version /\ Unrecorded(o).manifest = row.manifest
            /\ Unrecorded(o).status = row.status
        BY <3>1, <3>2, <4>2 DEF Rows
      <4> QED
        BY <4>4, <4>5
    <3>4. PICK w \in {Uploaded(o), Unrecorded(o)} : RowBecomes(w)
      BY <2>2
    <3> QED
      BY <1>1, <3>1, <3>3, <3>4, Storing DEF RowBecomes
  <2> QED
    BY <1>2, <2>1, <2>2
<1>5. Proceeds
  <2>1. CASE Ends("paused") \/ Ends("interrupted")
    BY <1>1, <2>1, EndsProceeds
  <2>2. CASE task' = [task EXCEPT !.pc = "mark", !.todo = task.todo \ {o}] /\ UNCHANGED local
    <3>1. local' \in Locals /\ local' = local
      BY <1>1, <2>2, Typed
    <3> QED
      BY <1>1, <1>3, <2>2, <3>1, GoesOn DEF After
  <2> QED
    BY <1>2, <2>1, <2>2
<1>6. LateIsKnown /\ Counted' /\ session' \in Nat \ {0}
  BY <1>1, LateStays, Typed DEF Counted
<1> QED
  BY <1>1, <1>4, <1>5, <1>6, ProceedsKeeps

LEMMA MarkUploaded ==
  ASSUME IInv, mark_uploaded
  PROVE  IInv'
<1>1. TypeOK /\ task.pc = "mark"
  BY DEF IInv, mark_uploaded
<1>2. /\ local' \in Locals /\ local'.server = local.server /\ local'.snapshot = local.snapshot
      /\ local'.status = local.status
  <2>1. Objects \ task.todo \in SUBSET Objects /\ local \in Locals
    BY <1>1, Typed
  <2> QED
    BY <2>1 DEF mark_uploaded, Write, Locals
<1>3. task' = [task EXCEPT !.pc = "objects", !.todo = task.todo] /\ task.todo \in SUBSET Objects
  BY <1>1, Typed DEF mark_uploaded, Goto, Tasks
<1>4. Proceeds
  BY <1>1, <1>2, <1>3, GoesOn DEF mark_uploaded, After
<1> QED
  BY <1>4, AtHome DEF mark_uploaded, bounds

LEMMA Finalization ==
  ASSUME IInv, finalization
  PROVE  IInv'
<1>1. Proceeds
  BY GotoGoesOn DEF finalization, After
<1> QED
  BY <1>1, AtHome DEF finalization, bounds

LEMMA FinalizeUpload ==
  ASSUME IInv, finalize_upload
  PROVE  IInv'
<1>1. /\ TypeOK /\ Counted /\ RowsAreSound /\ LateAreKnown
      /\ task.pc = "finalize" /\ UNCHANGED <<pausing, version, polls, session>>
  BY DEF IInv, finalize_upload
<1>2. CASE RequestLost("finalize")
  BY <1>1, <1>2, LosingARequest
<1>3. CASE Ends("interrupted") /\ UNCHANGED <<transfers, late, bounds>>
  BY <1>1, <1>3, EndsProceeds, AtHome DEF bounds
<1>4. CASE /\ finalize_transfer(task.session, task.server) /\ Goto("finish")
           /\ UNCHANGED <<local, late, bounds>>
  <2>1. task.session \in Nat /\ task.server \in 0..Len(transfers)
    BY <1>1, Typed, IdsOf DEF Tasks
  <2>2. Later
    BY <1>1, <1>4, <2>1, Finalizing DEF bounds
  <2>3. Proceeds
    BY <1>1, <1>4, GotoGoesOn DEF After
  <2>4. LateIsKnown /\ Counted' /\ session' \in Nat \ {0}
    BY <1>1, <1>4, LateStays, Typed DEF Counted, bounds
  <2> QED
    BY <1>1, <1>4, <2>2, <2>3, <2>4, ProceedsKeeps DEF bounds
<1> QED
  BY <1>2, <1>3, <1>4 DEF finalize_upload

LEMMA FinishUpload ==
  ASSUME IInv, finish_upload
  PROVE  IInv'
<1>1. Proceeds
  BY EndsProceeds DEF finish_upload
<1> QED
  BY <1>1, AtHome DEF finish_upload, bounds

LEMMA PauseUpload ==
  ASSUME IInv, pause_upload
  PROVE  IInv'
<1>1. Proceeds
  BY StandsStill DEF pause_upload
<1> QED
  BY <1>1, AtHome DEF pause_upload

(* The invitation is exchanged again, or a session renewed: no row and no id changes. *)
LEMMA SessionChanges ==
  ASSUME IInv, exchange_invitation \/ renew_session
  PROVE  IInv'
<1>1. UNCHANGED <<local, task, pausing, version, polls, transfers, late, retries>>
  BY DEF exchange_invitation, renew_session, client, bounds
<1>2. Counted' /\ session' \in Nat \ {0}
  <2>1. exchanges \in Nat /\ retries \in Nat /\ task.session \in Nat
    BY Typed DEF IInv, Counted, Tasks
  <2> QED
    BY <1>1, <2>1 DEF exchange_invitation, renew_session, bounds, Counted, None
<1>3. Proceeds
  BY <1>1, StandsStill DEF IInv, TypeOK
<1>4. Later /\ LateIsKnown
  BY <1>1, Unchanged, LateStays DEF IInv
<1> QED
  BY <1>1, <1>2, <1>3, <1>4, ProceedsKeeps

-----------------------------------------------------------------------------
(* refresh_transfer_status *)

LEMMA FetchStatus ==
  ASSUME IInv, NEW p \in Pollers, fetch_status(p)
  PROVE  IInv'
<1>1. /\ polls' = [polls EXCEPT ![p] = transfers[local.server].status]
      /\ Known(session, local.server)
      /\ UNCHANGED <<local, task, pausing, version, session, transfers, late, bounds>>
  BY DEF fetch_status
<1>2. transfers[local.server].status \in TransferStatus
  BY <1>1, IdsOf DEF IInv, Known, Live, Rows, RowStatus
<1>3. TypeOK'
  BY <1>1, <1>2 DEF IInv, TypeOK
<1>4. /\ Counted' /\ RowsAreSound' /\ LateAreKnown' /\ TaskIsBound' /\ SnapshotsAreRegistered'
      /\ ShownVerdictIsTheRegistrys'
  BY <1>1 DEF IInv, Counted, RowsAreSound, RowIsSound, Ids, Live, LateAreKnown, TaskIsBound, Exists,
     Busy, SnapshotsAreRegistered, VerdictsAreFounded, ShownVerdictIsTheRegistrys, bounds
<1>5. OneIsDescribed'
  BY <1>1 DEF IInv, OneIsDescribed, MayDescribe, Ids
<1>6. ASSUME NEW q \in Pollers
      PROVE  /\ polls'[q] # "none" => local.server # None \/ local.status = "cleared"
             /\ Live(local.server) =>
                  /\ polls'[q] = "complete" => transfers[local.server].status = "complete"
                  /\ polls'[q] = "failed" => transfers[local.server].status = "failed" \/ retries > 0
  <2>1. polls'[q] = transfers[local.server].status \/ polls'[q] = polls[q]
    BY <1>1 DEF IInv, TypeOK
  <2>2. local.server # None
    BY <1>1 DEF Known, Live
  <2> QED
    BY <2>1, <2>2 DEF IInv, VerdictsAreFounded
<1>7. VerdictsAreFounded'
  BY <1>1, <1>4, <1>6 DEF VerdictsAreFounded, Live, bounds
<1> QED
  BY <1>3, <1>4, <1>5, <1>7 DEF IInv

(* An answer moves only a transfer that awaits its verdict, and then it is the Registry's. *)
LEMMA Answers ==
  ASSUME TypeOK, NEW p \in Pollers, Exists
  PROVE  LET s == reconcile_registry_status(Target(polls[p])) IN
         \/ s = local.status
         \/ /\ local.status \in {"finalizing", "verifying"}
            /\ s \in {"verifying", "complete", "failed"} /\ s = polls[p]
            /\ s = "verifying" => local.status = "finalizing"
  BY DEF reconcile_registry_status, Target, allowed_current

LEMMA ApplyStatus ==
  ASSUME IInv, NEW p \in Pollers, apply_status(p)
  PROVE  IInv'
<1>1. TypeOK /\ TaskIsBound /\ VerdictsAreFounded
  BY DEF IInv
<1>2. /\ polls' = [polls EXCEPT ![p] = "none"]
      /\ UNCHANGED <<task, pausing, version, session, transfers, late, bounds>>
  BY DEF apply_status
<1>3. \A q \in Pollers : polls'[q] = polls[q] \/ polls'[q] = "none"
  BY <1>1, <1>2 DEF TypeOK
<1> DEFINE s == reconcile_registry_status(Target(polls[p]))
<1>4. /\ s = local.status
         \/ /\ local.status \in {"finalizing", "verifying"} /\ Exists
            /\ s \in {"verifying", "complete", "failed"} /\ s = polls[p]
      /\ s \in TransferStatus \cup Absent
      \/ ~ Exists
  BY <1>1, Answers DEF TypeOK, TransferStatus, Absent
<1>5. local' = IF Exists THEN [local EXCEPT !.status = s] ELSE local
  BY DEF apply_status, Write
<1> HIDE DEF s
<1>6. /\ local' \in Locals /\ local'.server = local.server /\ local'.snapshot = local.snapshot
      /\ \/ local'.status = local.status
         \/ /\ local.status \in {"finalizing", "verifying"}
            /\ local'.status \in {"verifying", "complete", "failed"} /\ local'.status = polls[p]
  BY <1>1, <1>4, <1>5, Typed DEF Locals
<1>7. TypeOK'
  <2>1. local'.server \in 0..Len(transfers)
    BY <1>1, <1>6, Typed, IdsOf DEF Locals
  <2> QED
    BY <1>1, <1>2, <1>3, <1>6, <2>1 DEF TypeOK, Locals, Versions
<1>8. Counted' /\ RowsAreSound' /\ LateAreKnown' /\ SnapshotsAreRegistered'
  BY <1>2, <1>6 DEF IInv, Counted, RowsAreSound, RowIsSound, Ids, Live, LateAreKnown,
     SnapshotsAreRegistered, bounds
<1>9. TaskIsBound'
  <2>1. Exists' <=> Exists
    BY <1>6 DEF Exists, Absent
  <2>2. local'.status = "none" => local.status = "none"
    BY <1>6
  <2>3. Exists /\ task.pc \in After \cup {"register"} => local'.status = "uploading"
    BY <1>1, <1>6 DEF TaskIsBound
  <2> QED
    BY <1>1, <1>2, <1>6, <2>1, <2>2, <2>3 DEF TaskIsBound, Busy
<1>10. VerdictsAreFounded'
  <2>1. Live(local.server) =>
          /\ local'.status = "complete" => transfers[local.server].status = "complete"
          /\ local'.status = "failed" => transfers[local.server].status = "failed" \/ retries > 0
    BY <1>1, <1>6 DEF VerdictsAreFounded, ShownVerdictIsTheRegistrys
  <2>2. ShownVerdictIsTheRegistrys'
    BY <1>2, <1>6, <2>1 DEF ShownVerdictIsTheRegistrys, Live, bounds
  <2>3. ASSUME NEW q \in Pollers
        PROVE  /\ polls'[q] # "none" => local.server # None \/ local'.status = "cleared"
               /\ Live(local.server) =>
                    /\ polls'[q] = "complete" => transfers[local.server].status = "complete"
                    /\ polls'[q] = "failed" => transfers[local.server].status = "failed" \/ retries > 0
    BY <1>1, <1>3, <1>6 DEF VerdictsAreFounded
  <2> QED
    BY <1>2, <1>6, <2>2, <2>3 DEF VerdictsAreFounded, Live, bounds
<1>11. OneIsDescribed'
  <2>1. \A i \in Nat : MayDescribe(i)' <=> MayDescribe(i)
    BY <1>2 DEF MayDescribe, Ids
  <2>2. local'.status # "cleared" => local.status # "cleared"
    BY <1>6
  <2> QED
    BY <1>6, <2>1, <2>2 DEF IInv, OneIsDescribed
<1> QED
  BY <1>7, <1>8, <1>9, <1>10, <1>11 DEF IInv

-----------------------------------------------------------------------------
(* Clearing, crashes, and what the Registry does on its own *)

LEMMA ClearTransfer ==
  ASSUME IInv, clear_transfer
  PROVE  IInv'
<1>1. /\ local' = [status |-> "cleared", server |-> None, snapshot |-> None, uploaded |-> {}]
      /\ UNCHANGED <<task, pausing, version, polls, session, transfers, late, bounds>>
  BY DEF clear_transfer
<1>2. TypeOK'
  <2>1. None \in 0..Len(transfers) /\ None \in 0..MaxVersion
    BY IdsOf, LifecycleAssumption DEF IInv, None
  <2>2. local' \in [status : TransferStatus \cup Absent, server : 0..Len(transfers),
                    snapshot : 0..MaxVersion, uploaded : SUBSET Objects]
    BY <1>1, <2>1 DEF Absent
  <2> QED
    BY <1>1, <2>2 DEF IInv, TypeOK
<1>3. Counted' /\ RowsAreSound' /\ LateAreKnown' /\ SnapshotsAreRegistered'
  BY <1>1 DEF IInv, Counted, RowsAreSound, RowIsSound, Ids, Live, LateAreKnown,
     SnapshotsAreRegistered, bounds
<1>4. OneIsDescribed'
  <2>1. \A i \in Nat : MayDescribe(i)' <=> MayDescribe(i)
    BY <1>1 DEF MayDescribe, Ids
  <2> QED
    BY <1>1, <2>1 DEF IInv, OneIsDescribed
<1>5. TaskIsBound'
  BY <1>1 DEF IInv, TaskIsBound, Exists, Busy, Absent
<1>6. VerdictsAreFounded'
  BY <1>1 DEF VerdictsAreFounded, ShownVerdictIsTheRegistrys, Live
<1> QED
  BY <1>2, <1>3, <1>4, <1>5, <1>6 DEF IInv

LEMMA CourierDies ==
  ASSUME IInv, Crash
  PROVE  IInv'
<1>1. TypeOK /\ LateAreKnown /\ TaskIsBound
  BY DEF IInv
<1>2. /\ task' = Idle /\ pausing' = FALSE /\ polls' = [p \in Pollers |-> "none"]
      /\ version' \in version..MaxVersion /\ late' \in {late, late \cup InFlight}
      /\ UNCHANGED <<local, session, transfers, retries, exchanges>>
  BY DEF Crash
<1>3. ASSUME NEW q \in InFlight
      PROVE  /\ q \in Requests /\ q.id <= Len(transfers)
             /\ q.kind # "finalize" => q.value # None
             /\ q.kind = "manifest" => q.id # None /\ MayDescribe(q.id)
  <2>1. /\ q.kind \in {"register", "manifest", "finalize"} /\ q = Request(q.kind)
        /\ q.kind = "manifest" => task.pc = "manifest"
    BY <1>3 DEF InFlight, Request
  <2>2. q.id = task.server /\ q.session = task.session
        /\ q.value = IF q.kind = "register" THEN version ELSE task.snapshot
    BY <2>1 DEF Request
  <2>3. q \in Requests /\ q.id <= Len(transfers)
    BY <1>1, <2>1, <2>2, Typed, LifecycleAssumption DEF Request, Requests, Tasks, Versions
  <2>4. q.kind # "finalize" => q.value # None
    BY <1>1, <2>1, <2>2, Typed, LifecycleAssumption DEF TaskIsBound, None
  <2>5. task.pc = "manifest" => task.server # None /\ MayDescribe(task.server)
    BY <1>1 DEF TaskIsBound, After, MayDescribe
  <2> QED
    BY <2>1, <2>2, <2>3, <2>4, <2>5
<1>4. LateIsKnown
  <2>1. \A q \in late : q.kind = "manifest" => MayDescribe(q.id)
    BY DEF MayDescribe
  <2> QED
    BY <1>1, <1>2, <1>3, <2>1, Typed DEF LateIsKnown, LateAreKnown
<1>5. Idle \in Tasks /\ Idle.pc = "idle" /\ Idle.server = None
  BY IdleTask
<1>6. TaskIsBound'
  BY <1>1, <1>2, <1>5 DEF TaskIsBound, Exists, Busy, Before, After
<1>7. local' \in Locals /\ version' \in 1..MaxVersion
  BY <1>1, <1>2, Typed, LifecycleAssumption
<1>8. Proceeds
  BY <1>2, <1>5, <1>6, <1>7 DEF Proceeds
<1>9. Later /\ Counted' /\ session' \in Nat \ {0}
  BY <1>2, Unchanged, Typed DEF IInv, Counted
<1> QED
  BY <1>2, <1>4, <1>8, <1>9, ProceedsKeeps

LEMMA LateArrival ==
  ASSUME IInv, LateRequestArrives
  PROVE  IInv'
<1>1. PICK r \in late : Handle(r) /\ late' = late \ {r}
  BY DEF LateRequestArrives
<1>2. UNCHANGED <<client, session, bounds>>
  BY DEF LateRequestArrives
<1>3. /\ r \in Requests /\ r.id <= Len(transfers) /\ (r.kind # "finalize" => r.value # None)
      /\ r.kind = "manifest" => MayDescribe(r.id)
  BY Typed DEF IInv, LateAreKnown, MayDescribe
<1>4. Later
  BY <1>1, <1>2, <1>3, Handling DEF IInv, bounds
<1>5. LateIsKnown /\ Counted' /\ session' \in Nat \ {0}
  BY <1>1, <1>2, LateStays, Typed DEF IInv, Counted, bounds
<1>6. Proceeds
  BY <1>2, StandsStill DEF IInv, TypeOK, client
<1> QED
  BY <1>2, <1>4, <1>5, <1>6, ProceedsKeeps DEF client, bounds

(* Verification and the administrator. *)
LEMMA RegistryGoesOn ==
  ASSUME IInv, Verify \/ Settle \/ AdminRetry \/ AdminDelete
  PROVE  IInv'
<1>1. PICK id \in Ids :
        /\ StatusChanges(id)
        /\ \/ Registry(id)!Claim \/ Registry(id)!Requeue
           \/ Registry(id)!Verdict
           \/ Registry(id)!Retry /\ retries' = retries + 1
           \/ Registry(id)!Delete
  BY DEF Verify, Settle, AdminRetry, AdminDelete
<1>2. /\ UNCHANGED <<client, session, late>>
      /\ retries' \in {retries, retries + 1} /\ Counted'
  BY <1>1 DEF StatusChanges, IInv, Counted, Verify, Settle, AdminRetry, AdminDelete, bounds
<1>3. PICK status \in RowStatus : transfers' = [transfers EXCEPT ![id].status = status]
  BY <1>1 DEF StatusChanges, RowStatus
<1>4. transfers'[id].status = status
  BY <1>3, IdsOf, ExceptSeq DEF IInv, Rows
<1>5. Later
  <2>1. /\ transfers[id].manifest = None => transfers[id].status \in {"draft", "deleted"}
        /\ TypeOK /\ Counted /\ RowsAreSound /\ retries \in Nat
    BY DEF IInv, RowsAreSound, RowIsSound, Counted
  <2>2. CASE Registry(id)!Claim \/ Registry(id)!Requeue \/ Registry(id)!Verdict
    <3>1. transfers[id].status \in {"finalizing", "verifying"} /\ status # "deleted"
      BY <1>4, <2>2 DEF Registry!Claim, Registry!Requeue, Registry!Verdict
    <3> QED
      BY <1>2, <1>3, <2>1, <3>1, StatusChanging
  <2>3. CASE Registry(id)!Retry /\ retries' = retries + 1
    <3>1. transfers[id].status = "failed" /\ retries' > 0
      BY <2>1, <2>3 DEF Registry!Retry
    <3> QED
      BY <1>2, <1>3, <2>1, <3>1, StatusChanging
  <2>4. CASE Registry(id)!Delete
    <3>1. status = "deleted"
      BY <1>4, <2>4 DEF Registry!Delete
    <3> QED
      BY <1>2, <1>3, <2>1, <3>1, StatusChanging
  <2> QED
    BY <1>1, <2>2, <2>3, <2>4
<1>6. Proceeds
  BY <1>2, StandsStill DEF IInv, TypeOK, client
<1>7. LateIsKnown /\ session' \in Nat \ {0}
  BY <1>2, LateStays, Typed DEF IInv
<1> QED
  BY <1>2, <1>5, <1>6, <1>7, ProceedsKeeps DEF client

-----------------------------------------------------------------------------
LEMMA Initially ==
  ASSUME Init
  PROVE  IInv
<1>1. /\ task = Idle /\ pausing = FALSE /\ polls = [p \in Pollers |-> "none"] /\ late = {}
      /\ retries = 0 /\ exchanges = 0 /\ version = 2 /\ session = 1
  BY DEF Init
<1>2. 0 \in Versions /\ 1 \in Versions /\ 2 \in 1..MaxVersion
  BY LifecycleAssumption DEF Versions
<1>3. \/ /\ local = [status |-> "none", server |-> None, snapshot |-> None, uploaded |-> {}]
         /\ transfers = << >>
      \/ \E s \in {"uploading", "paused", "interrupted"}, row \in Rows :
         /\ local = [status |-> s, server |-> 1, snapshot |-> None, uploaded |-> {}]
         /\ transfers = <<row>> /\ row.version = 1 /\ row.manifest \in {None, 1}
         /\ row.status = IF row.manifest = None THEN "draft" ELSE "ready"
  <2>1. CASE transfers = << >>
    BY <2>1 DEF Init
  <2>2. CASE transfers # << >>
    <3>1. PICK submitted \in BOOLEAN :
            transfers = << [Draft(1, 1) EXCEPT !.status = IF submitted THEN "ready" ELSE @,
                                               !.manifest = IF submitted THEN 1 ELSE @] >>
      BY <2>2 DEF Init
    <3>2. PICK s \in {"uploading", "paused", "interrupted"} :
            local = [status |-> s, server |-> 1, snapshot |-> None, uploaded |-> {}]
      BY <2>2 DEF Init
    <3>3. ASSUME NEW row,
                 row = [Draft(1, 1) EXCEPT !.status = IF submitted THEN "ready" ELSE @,
                                           !.manifest = IF submitted THEN 1 ELSE @]
          PROVE  /\ row \in Rows /\ row.version = 1 /\ row.manifest \in {None, 1}
                 /\ row.status = IF row.manifest = None THEN "draft" ELSE "ready"
      <4>1. row = [session |-> 1, status |-> IF submitted THEN "ready" ELSE "draft", version |-> 1,
                   manifest |-> IF submitted THEN 1 ELSE None, stored |-> {}, recorded |-> {}]
        BY <3>3 DEF Draft
      <4> QED
        BY <1>2, <4>1 DEF Rows, RowStatus, TransferStatus, None
    <3> QED
      BY <3>1, <3>2, <3>3
  <2> QED
    BY <2>1, <2>2
<1>4. /\ transfers \in Seq(Rows)
      /\ \/ Ids = {} /\ Len(transfers) = 0 /\ local.server = 0
         \/ Ids = {1} /\ Len(transfers) = 1 /\ local.server = 1
  <2>1. CASE transfers = << >> /\ local.server = 0
    BY <2>1 DEF Ids
  <2>2. CASE \E row \in Rows : transfers = <<row>> /\ local.server = 1
    BY <2>2 DEF Ids
  <2> QED
    BY <1>3, <2>1, <2>2 DEF None
<1>5. \A id \in Ids : id = 1 /\ RowIsSound(transfers[id])
  BY <1>3, <1>4 DEF RowIsSound, None
<1>6. TypeOK
  <2>1. local \in Locals /\ local.server \in 0..Len(transfers)
    <3>1. local \in Locals
      BY <1>2, <1>3 DEF Locals, TransferStatus, Absent, None
    <3> QED
      BY <1>4, <3>1
  <2>2. task \in Tasks /\ task.server = 0
    BY <1>1, IdleTask DEF None
  <2>3. 0 \in 0..Len(transfers)
    BY <1>4
  <2> QED
    <3>1. /\ pausing \in BOOLEAN /\ version \in 1..MaxVersion /\ session \in Nat \ {0}
          /\ late \subseteq Requests /\ polls \in [Pollers -> TransferStatus \cup {"none"}]
      <4>1. pausing \in BOOLEAN
        BY <1>1
      <4>2. version \in 1..MaxVersion /\ session \in Nat \ {0} /\ late \subseteq Requests
        BY <1>1, <1>2
      <4>3. polls \in [Pollers -> TransferStatus \cup {"none"}]
        BY <1>1
      <4> QED
        BY <4>1, <4>2, <4>3
    <3>2. transfers \in Seq(Rows)
      BY <1>4
    <3> QED
      BY <2>1, <2>2, <2>3, <3>1, <3>2 DEF TypeOK, Locals, Tasks, Rows, RowStatus, Versions, Before, After
<1>7. Counted /\ LateAreKnown
  BY <1>1 DEF Counted, LateAreKnown
<1>8. RowsAreSound
  BY <1>5 DEF RowsAreSound
<1>9. OneIsDescribed
  <2>1. \A i \in Nat : MayDescribe(i) => i = 1 /\ 1 \in Ids
    BY <1>1, <1>5, IdleTask DEF MayDescribe
  <2>2. 1 \in Ids => local.server = 1
    BY <1>4
  <2> QED
    BY <2>1, <2>2 DEF OneIsDescribed, None
<1>10. TaskIsBound
  BY <1>1, <1>3 DEF TaskIsBound, Exists, Busy, Absent, Before, After, Idle, None
<1>11. SnapshotsAreRegistered
  BY <1>1, <1>3 DEF SnapshotsAreRegistered, Idle, None
<1>12. VerdictsAreFounded
  BY <1>1, <1>3 DEF VerdictsAreFounded, ShownVerdictIsTheRegistrys
<1> QED
  BY <1>6, <1>7, <1>8, <1>9, <1>10, <1>11, <1>12 DEF IInv

LEMMA EveryStep ==
  ASSUME IInv, [Next]_vars
  PROVE  IInv'
<1>1. CASE \/ create_inventory \/ start_upload \/ pause_upload \/ exchange_invitation \/ renew_session
           \/ clear_transfer \/ Crash
  BY <1>1, CreateInventory, StartUpload, PauseUpload, SessionChanges, ClearTransfer, CourierDies
<1>2. CASE TaskStep
  BY <1>2, InventoryBegins, InventoryEnds, RegisterTransfer, ManifestSnapshot, ManifestSubmission,
     UploadObject, MarkUploaded, Finalization, FinalizeUpload, FinishUpload DEF TaskStep
<1>3. CASE \E p \in Pollers : fetch_status(p) \/ apply_status(p)
  BY <1>3, FetchStatus, ApplyStatus
<1>4. CASE LateRequestArrives
  BY <1>4, LateArrival
<1>5. CASE Verify \/ Settle \/ AdminRetry \/ AdminDelete
  BY <1>5, RegistryGoesOn
<1>6. CASE UNCHANGED vars
  <2>1. UNCHANGED <<local, task, pausing, version, polls, session, transfers, late, retries, exchanges>>
    BY <1>6 DEF vars, client, bounds
  <2>2. Proceeds
    BY <2>1, StandsStill DEF IInv, TypeOK
  <2> QED
    BY <2>1, <2>2, AtHome
<1> QED
  BY <1>1, <1>2, <1>3, <1>4, <1>5, <1>6 DEF Next

LEMMA Invariant == Spec => []IInv
<1>1. Init => IInv
  BY Initially
<1>2. IInv /\ [Next]_vars => IInv'
  BY EveryStep
<1> QED
  BY <1>1, <1>2, PTL DEF Spec

(* Every variable stays in its domain; Courier has no id the Registry did not give. *)
THEOREM LifecycleTypes == Spec => []TypeOK
<1>1. IInv => TypeOK
  BY DEF IInv
<1> QED
  BY <1>1, Invariant, PTL

(* create_transfer finds the row of an earlier registration of the same session, however late
   it arrives; and of the transfers that several sessions registered, Courier describes one. *)
THEOREM OneRegistration == Spec => []RegisteredOnce
<1>1. IInv => RegisteredOnce
  <2>1. ASSUME IInv, NEW i \in Ids, NEW j \in Ids, i # j
        PROVE  transfers[i].manifest = None \/ transfers[j].manifest = None
    <3>1. i \in Nat /\ j \in Nat
      BY <2>1, IdsOf DEF IInv
    <3> QED
      BY <2>1, <3>1 DEF IInv, OneIsDescribed, MayDescribe
  <2> QED
    BY <2>1 DEF IInv, RowsAreSound, RegisteredOnce
<1> QED
  BY <1>1, Invariant, PTL

(* manifest_snapshot keeps the digest through crashes, upgrades of Courier and lost answers:
   submit_manifest never answers with a conflict.                                           *)
THEOREM ManifestsAreAccepted == Spec => []ManifestIsNeverRefused
<1>1. IInv => ManifestIsNeverRefused
  <2>1. ASSUME IInv, task.pc = "manifest", Known(task.session, task.server)
        PROVE  ManifestAccepted(task.session, task.server, task.snapshot)
    <3>1. task.server \in Ids
      BY <2>1, IdsOf DEF IInv, Known, Live
    <3> QED
      BY <2>1, <3>1 DEF IInv, SnapshotsAreRegistered, RowsAreSound, RowIsSound, ManifestAccepted
  <2> QED
    BY <2>1 DEF ManifestIsNeverRefused
<1> QED
  BY <1>1, Invariant, PTL

(* refresh_transfer_status: answers applied late, out of order, to a transfer cleared or
   registered again, show no verdict but the Registry's.                                *)
THEOREM VerdictsAreTheRegistrys == Spec => []ShownVerdictIsTheRegistrys
<1>1. IInv => ShownVerdictIsTheRegistrys
  BY DEF IInv, VerdictsAreFounded
<1> QED
  BY <1>1, Invariant, PTL

-----------------------------------------------------------------------------
(* The local status never runs backward *)

Forward == local'.status # "cleared" =>
    /\ Rank(local'.status) >= Rank(local.status)
    /\ Rank(local.status) = 3 => local'.status = local.status

LEMMA StaysForward ==
  ASSUME local'.status = local.status
  PROVE  Forward
  BY DEF Forward, Rank

LEMMA TransitionsGoForward ==
  ASSUME TypeOK, NEW next \in {"inventorying", "ready", "failed", "interrupted", "paused", "finalizing"},
         transition(next)
  PROVE  Forward
<1>1. CASE local'.status = local.status
  BY <1>1, StaysForward
<1>2. CASE local'.status = next /\ can_transition_to(local.status, next)
  BY <1>2 DEF Forward, Rank, can_transition_to
<1> QED
  BY <1>1, <1>2, TransitionKeeps DEF TransferStatus

LEMMA EveryStepGoesForward ==
  ASSUME IInv, Next
  PROVE  Forward
<1>1. TypeOK
  BY DEF IInv
<1>2. \A next \in {"ready", "failed", "interrupted", "paused", "finalizing"} : Ends(next) => Forward
  BY <1>1, TransitionsGoForward DEF Ends
<1>3. UNCHANGED local => Forward
  BY StaysForward
<1>4. CASE create_inventory \/ start_upload
  BY <1>1, <1>4, Typed DEF create_inventory, start_upload, Resumable, Forward, Rank, Locals
<1>5. CASE inventory_begins
  BY <1>1, <1>5, TransitionsGoForward DEF inventory_begins
<1>6. CASE inventory_ends \/ finish_upload \/ finalize_upload \/ finalization
  BY <1>2, <1>3, <1>6 DEF inventory_ends, finish_upload, finalize_upload, finalization, RequestLost
<1>7. CASE register_transfer \/ mark_uploaded
  <2>1. ASSUME NEW id PROVE Write([local EXCEPT !.server = id]) => Forward
    BY <1>1, StaysForward, Typed DEF Write, Locals
  <2>2. ASSUME NEW set PROVE Write([local EXCEPT !.uploaded = set]) => Forward
    BY <1>1, StaysForward, Typed DEF Write, Locals
  <2> QED
    BY <1>2, <1>3, <1>7, <2>1, <2>2 DEF register_transfer, mark_uploaded, RequestLost
<1>8. CASE manifest_snapshot \/ manifest_submission
  <2>1. ASSUME NEW v PROVE local' = [local EXCEPT !.snapshot = v] => Forward
    BY <1>1, StaysForward, Typed DEF Locals
  <2> QED
    BY <1>2, <1>3, <1>8, <2>1 DEF manifest_snapshot, manifest_submission, RequestLost
<1>9. CASE upload_object
  BY <1>2, <1>3, <1>9 DEF upload_object
<1>10. CASE \E p \in Pollers : apply_status(p)
  <2>1. PICK p \in Pollers : apply_status(p)
    BY <1>10
  <2> DEFINE s == reconcile_registry_status(Target(polls[p]))
  <2>2. CASE Exists
    <3>1. local' = [local EXCEPT !.status = s]
      BY <2>1, <2>2 DEF apply_status, Write
    <3>2. \/ s = local.status
          \/ /\ local.status \in {"finalizing", "verifying"}
             /\ s \in {"verifying", "complete", "failed"}
             /\ s = "verifying" => local.status = "finalizing"
      BY <1>1, <2>2, Answers
    <3> HIDE DEF s
    <3>3. local'.status = s
      BY <1>1, <3>1, Typed DEF Locals
    <3> QED
      BY <3>2, <3>3 DEF Forward, Rank
  <2>3. CASE ~ Exists
    BY <1>3, <2>1, <2>3 DEF apply_status, Write
  <2> QED
    BY <2>2, <2>3
<1>11. CASE clear_transfer
  BY <1>11 DEF clear_transfer, Forward
<1>12. CASE \/ pause_upload \/ Crash \/ LateRequestArrives \/ Verify \/ Settle \/ AdminRetry
            \/ AdminDelete \/ exchange_invitation \/ renew_session
            \/ \E p \in Pollers : fetch_status(p)
  BY <1>3, <1>12 DEF pause_upload, Crash, LateRequestArrives, Verify, Settle, AdminRetry,
     AdminDelete, StatusChanges, exchange_invitation, renew_session, fetch_status, client
<1> QED
  BY <1>4, <1>5, <1>6, <1>7, <1>8, <1>9, <1>10, <1>11, <1>12 DEF Next, TaskStep

(* "without allowing a delayed response to move a transfer backward from a terminal state":
   no task, poll, late answer or crash does.                                                *)
THEOREM StatusNeverMovesBackward == Spec => NeverMovesBackward
<1>1. IInv /\ [Next]_vars => [Forward]_vars
  BY EveryStepGoesForward
<1> QED
  BY <1>1, Invariant, PTL DEF Spec, NeverMovesBackward, Forward
=============================================================================
