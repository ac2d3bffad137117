-------------------------- MODULE TransferLifecycle --------------------------
(***************************************************************************)
(* One transfer as Courier Desktop sees it: the local status machine in    *)
(* SQLite, the inventory and upload tasks that drive it, the requests that *)
(* register the transfer, its manifest and its end with the Registry, and  *)
(* the polling that brings the verdict back.                               *)
(*                                                                         *)
(* Courier dies between any two steps and may come back as a newer release;*)
(* requests and answers are lost, or take effect after Courier gave up;    *)
(* two polls overlap and their answers are applied late; the user pauses or*)
(* clears the transfer while it is uploading, or exchanges its invitation  *)
(* again, which gives Courier another session, and the Registry knows a    *)
(* transfer only to the session that registered it; the administrator      *)
(* retries or deletes the transfer.                                        *)
(*                                                                         *)
(* The upload of an object is one step here (MultipartUpload has its       *)
(* parts), the Registry's verification follows RegistryTransfer (which     *)
(* Verification implements), and a manifest is told apart by the Courier   *)
(* release it names: everything else in it comes from the local inventory. *)
(* The cache of packs is left out, and a poll asks with the session Courier*)
(* holds when it is answered.                                              *)
(***************************************************************************)
EXTENDS Naturals, FiniteSets, Sequences

CONSTANTS
    Objects,      \* the transport objects
    Pollers,      \* refresh_transfer_status calls that can be in progress at once
    MaxVersion,   \* bound: Courier releases, 1 being the one without manifest snapshots
    MaxCrashes,   \* bound: how often Courier is closed or dies
    MaxFaults,    \* bound: requests or answers lost, uploads that fail
    MaxPauses,    \* bound
    MaxExchanges, \* bound: how often the invitation is exchanged again
    MaxRetries,   \* bound: admin retries
    MaxDeletes    \* bound: admin deletions

ASSUME LifecycleAssumption ==
    /\ MaxVersion \in Nat \ {0, 1}
    /\ MaxCrashes \in Nat /\ MaxFaults \in Nat /\ MaxPauses \in Nat
    /\ MaxExchanges \in Nat /\ MaxRetries \in Nat /\ MaxDeletes \in Nat

VARIABLES
    local,     \* SQLite: status, Registry id, manifest snapshot, uploaded objects
    task,      \* the inventory or upload task
    pausing,   \* its pause flag
    version,   \* the Courier release that is running
    polls,     \* answers of refresh_transfer_status fetched and not yet applied
    session,   \* the session whose tokens the vault has for the transfer's invitation
    transfers, \* Registry: the rows registered for this transfer, by id
    late,      \* requests Courier gave up on that may still arrive
    crashes, faults, pauses, exchanges, retries, deletes

client   == <<local, task, pausing, version, polls>>
bounds   == <<crashes, faults, pauses, exchanges, retries, deletes>>
vars     == <<client, session, transfers, late, bounds>>

None == 0   \* no Registry id, no manifest

-----------------------------------------------------------------------------
(* The local status machine *)

TransferStatus ==
    {"draft", "inventorying", "ready", "uploading", "paused", "interrupted",
     "finalizing", "verifying", "complete", "failed", "cancelled"}

Absent == {"none", "cleared"}   \* no row: not yet created, or removed by the user

can_transition_to(from, next) ==
    /\ from \notin {"complete", "cancelled"}
    /\ \/ <<from, next>> \in
            {<<"draft", "inventorying">>, <<"inventorying", "ready">>, <<"inventorying", "failed">>,
             <<"ready", "uploading">>, <<"uploading", "paused">>, <<"uploading", "interrupted">>,
             <<"uploading", "finalizing">>, <<"uploading", "failed">>, <<"paused", "uploading">>,
             <<"interrupted", "uploading">>, <<"finalizing", "verifying">>, <<"finalizing", "failed">>,
             <<"verifying", "complete">>, <<"verifying", "failed">>}
       \/ next = "cancelled"

Exists == local.status \notin Absent

(* transition, which fails without a change if the step is not allowed or the row is gone. *)
transition(next) ==
    local' = IF Exists /\ can_transition_to(local.status, next)
             THEN [local EXCEPT !.status = next] ELSE local

(* A write to the transfer's rows: it matches nothing once they are gone. *)
Write(rows) == local' = IF Exists THEN rows ELSE local

Idle == [pc |-> "idle", session |-> None, server |-> None, snapshot |-> None, todo |-> {}]
Busy == task.pc # "idle"

Goto(next) == task' = [task EXCEPT !.pc = next]

(* The end of a task. *)
Ends(outcome) == transition(outcome) /\ task' = Idle

-----------------------------------------------------------------------------
(* A row as create_transfer writes it. *)
Draft(s, v) == [session |-> s, status |-> "draft", version |-> v, manifest |-> None,
                stored |-> {}, recorded |-> {}]

(* A transfer not yet begun, or one an earlier release left behind: registered, its
   manifest submitted or not, and no snapshot of it kept.                           *)
Init ==
    /\ task = Idle /\ pausing = FALSE /\ polls = [p \in Pollers |-> "none"] /\ late = {}
    /\ version = 2 /\ session = 1
    /\ crashes = 0 /\ faults = 0 /\ pauses = 0 /\ exchanges = 0 /\ retries = 0 /\ deletes = 0
    /\ \/ /\ local = [status |-> "none", server |-> None, snapshot |-> None, uploaded |-> {}]
          /\ transfers = << >>
       \/ /\ \E s \in {"uploading", "paused", "interrupted"} :
               local = [status |-> s, server |-> 1, snapshot |-> None, uploaded |-> {}]
          /\ \E submitted \in BOOLEAN :
               transfers = << [Draft(1, 1) EXCEPT !.status = IF submitted THEN "ready" ELSE @,
                                                  !.manifest = IF submitted THEN 1 ELSE @] >>

-----------------------------------------------------------------------------
(* The Registry's handlers, by what they do and whether they answer with success *)

Ids == DOMAIN transfers
Live(id) == id # None /\ transfers[id].status # "deleted"

(* owned_transfer: the row is there, and its session is the one that asks. *)
Known(s, id) == Live(id) /\ transfers[id].session = s

(* A client's registration: its idempotency key finds the row of an earlier request of the
   same session.                                                                           *)
NeverRegistered(s) == FALSE   \* mutant
Registered(s) == \E id \in Ids : Known(s, id)

create_transfer(s, v) ==
    IF Registered(s) THEN UNCHANGED transfers ELSE transfers' = Append(transfers, Draft(s, v))

(* The digest is compared first; only a first manifest is checked against the row. *)
ManifestAccepted(s, id, manifest) ==
    /\ Known(s, id)
    /\ \/ transfers[id].manifest = manifest
       \/ transfers[id].manifest = None /\ manifest = transfers[id].version

submit_manifest(s, id, manifest) ==
    IF ManifestAccepted(s, id, manifest) /\ transfers[id].manifest = None
    THEN transfers' = [transfers EXCEPT ![id].status = "ready", ![id].manifest = manifest]
    ELSE UNCHANGED transfers

FinalizeChanges(s, id) ==
    Known(s, id) /\ transfers[id].status = "ready" /\ transfers[id].recorded = Objects

FinalizeAccepted(s, id) ==
    \/ FinalizeChanges(s, id)
    \/ Known(s, id) /\ transfers[id].status \in {"finalizing", "verifying", "complete"}

finalize_transfer(s, id) ==
    IF FinalizeChanges(s, id) THEN transfers' = [transfers EXCEPT ![id].status = "finalizing"]
    ELSE UNCHANGED transfers

(* A request, by its kind, the session that sends it, the transfer it names and what it
   carries.                                                                              *)
Request(kind) == [kind |-> kind, session |-> task.session, id |-> task.server,
                  value |-> IF kind = "register" THEN version ELSE task.snapshot]

Handle(r) ==
    CASE r.kind = "register" -> create_transfer(r.session, r.value)
      [] r.kind = "manifest" -> submit_manifest(r.session, r.id, r.value)
      [] r.kind = "finalize" -> finalize_transfer(r.session, r.id)

(* A request whose answer Courier does not get took effect, will later, or never does. *)
Abandoned(r) ==
    \/ Handle(r) /\ UNCHANGED late
    \/ UNCHANGED transfers /\ late' = late \cup {r}
    \/ UNCHANGED <<transfers, late>>

LateRequestArrives ==
    /\ \E r \in late : Handle(r) /\ late' = late \ {r}
    /\ UNCHANGED <<client, session, bounds>>

Fault ==
    /\ faults < MaxFaults
    /\ faults' = faults + 1
    /\ UNCHANGED <<crashes, pauses, exchanges, retries, deletes>>

(* send_upload_json sends the request again, or its attempts are used up. *)
RequestLost(kind) ==
    /\ Fault
    /\ Abandoned(Request(kind))
    /\ \/ UNCHANGED <<local, task>>
       \/ Ends("interrupted")

-----------------------------------------------------------------------------
(* create_inventory *)

create_inventory ==
    /\ local.status = "none"
    /\ local' = [local EXCEPT !.status = "draft"]
    /\ Goto("inventory")
    /\ UNCHANGED <<pausing, version, polls, session, transfers, late, bounds>>

inventory_begins ==
    /\ task.pc = "inventory"
    /\ transition("inventorying")
    /\ Goto("scan")
    /\ UNCHANGED <<pausing, version, polls, session, transfers, late, bounds>>

(* The scan, the transport plan and the part plans succeed or do not.  A transfer
   that was cleared meanwhile is left alone.                                       *)
inventory_ends ==
    /\ task.pc = "scan"
    /\ \E outcome \in {"ready", "failed"} : Ends(outcome)
    /\ UNCHANGED <<pausing, version, polls, session, transfers, late, bounds>>

-----------------------------------------------------------------------------
(* start_upload and run_upload *)

(* "Uploading" is what a crash leaves behind.  The task works with the session Courier holds
   when it starts.                                                                         *)
ResumableStoppedOnly == local.status \in {"ready", "paused", "interrupted"}   \* mutant
Resumable == local.status \in {"ready", "paused", "interrupted", "uploading"}

start_upload ==
    /\ ~ Busy
    /\ Resumable
    /\ local' = [local EXCEPT !.status = "uploading"]
    /\ task' = [pc |-> IF local.server = None THEN "register" ELSE "snapshot",
                session |-> session, server |-> local.server, snapshot |-> None,
                todo |-> Objects \ local.uploaded]
    /\ pausing' = FALSE
    /\ UNCHANGED <<version, polls, session, transfers, late, bounds>>

register_transfer ==
    /\ task.pc = "register"
    /\ \/ /\ create_transfer(task.session, version)
          /\ \E id \in Ids' :
               /\ Live(id)' /\ transfers'[id].session = task.session
               /\ task' = [task EXCEPT !.pc = "snapshot", !.server = id]
               /\ Write([local EXCEPT !.server = id])
          /\ UNCHANGED <<late, bounds>>
       \/ RequestLost("register")
    /\ UNCHANGED <<pausing, version, polls, session>>

(* The release a new snapshot names: the one the transfer was registered with. *)
RunningVersion == version   \* mutant
SnapshotVersion == transfers[task.server].version

(* The snapshot kept in SQLite, or else one built now and kept before it is sent. *)
manifest_snapshot ==
    /\ task.pc = "snapshot"
    /\ \/ /\ Exists /\ local.snapshot # None
          /\ task' = [task EXCEPT !.pc = "manifest", !.snapshot = local.snapshot]
          /\ UNCHANGED <<local, bounds>>
       \/ /\ Exists /\ local.snapshot = None
          /\ Known(task.session, task.server)
          /\ local' = [local EXCEPT !.snapshot = SnapshotVersion]
          /\ task' = [task EXCEPT !.pc = "manifest", !.snapshot = SnapshotVersion]
          /\ UNCHANGED bounds
       \/ /\ ~ Exists \/ (local.snapshot = None /\ ~ Known(task.session, task.server))
          /\ Ends("interrupted")
          /\ UNCHANGED bounds
       \/ Fault /\ Ends("interrupted")
    /\ UNCHANGED <<pausing, version, polls, session, transfers, late>>

manifest_submission ==
    /\ task.pc = "manifest"
    /\ \/ /\ ManifestAccepted(task.session, task.server, task.snapshot)
          /\ submit_manifest(task.session, task.server, task.snapshot)
          /\ IF Exists THEN Goto("objects") /\ UNCHANGED local
             ELSE Ends("interrupted")       \* nothing to bind the Registry's objects to
          /\ UNCHANGED <<late, bounds>>
       \/ /\ ~ ManifestAccepted(task.session, task.server, task.snapshot)
          /\ Ends("interrupted")
          /\ UNCHANGED <<transfers, late, bounds>>
       \/ RequestLost("manifest")
    /\ UNCHANGED <<pausing, version, polls, session>>

(* Storage has the object, and the Registry recorded it or not.  One that storage has already
   is found there and not completed again, so it is recorded now or never.                  *)
Uploaded(o) ==
    LET row == transfers[task.server]
    IN  [row EXCEPT !.stored = @ \cup {o},
                    !.recorded = IF o \in row.stored THEN @ ELSE @ \cup {o}]
Unrecorded(o) == [transfers[task.server] EXCEPT !.stored = @ \cup {o}]

RowBecomes(row) == transfers' = [transfers EXCEPT ![task.server] = row]

(* An object is uploaded; or the pause flag is seen; or the transfer is gone, here or there;
   or a request is lost, and the Registry's record of the object with it, or the upload fails
   however far it got.                                                                      *)
upload_object ==
    /\ task.pc = "objects"
    /\ \E o \in task.todo :
       \/ /\ ~ pausing /\ Known(task.session, task.server)
          /\ RowBecomes(Uploaded(o))
          /\ task' = [task EXCEPT !.pc = "mark", !.todo = @ \ {o}]
          /\ UNCHANGED <<local, bounds>>
       \/ /\ pausing
          /\ Ends("paused")
          /\ UNCHANGED <<transfers, bounds>>
       \/ /\ ~ pausing /\ (~ Known(task.session, task.server) \/ ~ Exists)
          /\ Ends("interrupted")
          /\ UNCHANGED <<transfers, bounds>>
       \/ /\ Fault /\ Known(task.session, task.server)
          /\ RowBecomes(Unrecorded(o))
          /\ task' = [task EXCEPT !.pc = "mark", !.todo = @ \ {o}]
          /\ UNCHANGED local
       \/ /\ Fault /\ Known(task.session, task.server)
          /\ UNCHANGED transfers \/ RowBecomes(Uploaded(o)) \/ RowBecomes(Unrecorded(o))
          /\ Ends("interrupted")
    /\ UNCHANGED <<pausing, version, polls, session, late>>

(* mark_file_uploaded of the object's files. *)
mark_uploaded ==
    /\ task.pc = "mark"
    /\ Write([local EXCEPT !.uploaded = Objects \ task.todo])
    /\ Goto("objects")
    /\ UNCHANGED <<pausing, version, polls, session, transfers, late, bounds>>

finalization ==
    /\ task.pc = "objects"
    /\ task.todo = {}
    /\ Goto("finalize")
    /\ UNCHANGED <<local, pausing, version, polls, session, transfers, late, bounds>>

finalize_upload ==
    /\ task.pc = "finalize"
    /\ \/ /\ FinalizeAccepted(task.session, task.server)
          /\ finalize_transfer(task.session, task.server)
          /\ Goto("finish")
          /\ UNCHANGED <<local, late, bounds>>
       \/ /\ ~ FinalizeAccepted(task.session, task.server)
          /\ Ends("interrupted")
          /\ UNCHANGED <<transfers, late, bounds>>
       \/ RequestLost("finalize")
    /\ UNCHANGED <<pausing, version, polls, session>>

finish_upload ==
    /\ task.pc = "finish"
    /\ Ends("finalizing")
    /\ UNCHANGED <<pausing, version, polls, session, transfers, late, bounds>>

pause_upload ==
    /\ task.pc \notin {"idle", "inventory", "scan"}
    /\ ~ pausing
    /\ pauses < MaxPauses
    /\ pauses' = pauses + 1
    /\ pausing' = TRUE
    /\ UNCHANGED <<local, task, version, polls, session, transfers, late, crashes, faults,
                   exchanges, retries, deletes>>

-----------------------------------------------------------------------------
(* The session *)

(* The user enters the invitation again: a new session, kept under the same invitation.  What
   the earlier one registered is not the new one's.                                          *)
exchange_invitation ==
    /\ exchanges < MaxExchanges
    /\ exchanges' = exchanges + 1
    /\ session' = exchanges' + 1
    /\ UNCHANGED <<client, transfers, late, crashes, faults, pauses, retries, deletes>>

(* The client of a running task renews its session, and saves it over what the vault has. *)
renew_session ==
    /\ Busy /\ task.session \notin {None, session}
    /\ session' = task.session
    /\ UNCHANGED <<client, transfers, late, bounds>>

-----------------------------------------------------------------------------
(* refresh_transfer_status *)

(* The interface polls while the local status awaits a verdict. *)
fetch_status(p) ==
    /\ polls[p] = "none"
    /\ local.status \in {"finalizing", "verifying"}
    /\ Known(session, local.server)
    /\ polls' = [polls EXCEPT ![p] = transfers[local.server].status]
    /\ UNCHANGED <<local, task, pausing, version, session, transfers, late, bounds>>

(* What an answer means for the local status; most mean nothing. *)
TargetTakesVerifyingForVerified(answer) ==   \* mutant
    IF answer \in {"verifying", "complete"} THEN "complete"
    ELSE IF answer = "failed" THEN answer ELSE "none"

Target(answer) == IF answer \in {"verifying", "complete", "failed"} THEN answer ELSE "none"

(* From which statuses an answer may move the transfer. *)
allowed_current(remote) ==
    CASE remote = "verifying" -> {"finalizing"}
      [] remote \in {"complete", "failed"} -> {"finalizing", "verifying"}
      [] OTHER -> {}

(* The local status once an answer is applied. *)
TrustsAnswer(remote) == IF remote = "none" THEN local.status ELSE remote   \* mutant

reconcile_registry_status(remote) ==
    IF local.status \in allowed_current(remote) THEN remote ELSE local.status

apply_status(p) ==
    /\ polls[p] # "none"
    /\ Write([local EXCEPT !.status = reconcile_registry_status(Target(polls[p]))])
    /\ polls' = [polls EXCEPT ![p] = "none"]
    /\ UNCHANGED <<task, pausing, version, session, transfers, late, bounds>>

-----------------------------------------------------------------------------
(* The user clears the transfer, whether or not a task is working on it. *)
clear_transfer ==
    /\ Exists
    /\ local' = [status |-> "cleared", server |-> None, snapshot |-> None, uploaded |-> {}]
    /\ UNCHANGED <<task, pausing, version, polls, session, transfers, late, bounds>>

(* Courier is closed or dies, and comes back, perhaps as a newer release. *)
InFlight ==
    CASE task.pc = "register" -> {Request("register")}
      [] task.pc = "manifest" -> {Request("manifest")}
      [] task.pc = "finalize" -> {Request("finalize")}
      [] OTHER -> {}

Crash ==
    /\ Busy \/ \E p \in Pollers : polls[p] # "none"
    /\ crashes < MaxCrashes
    /\ crashes' = crashes + 1
    /\ task' = Idle
    /\ pausing' = FALSE
    /\ polls' = [p \in Pollers |-> "none"]
    /\ version' \in version..MaxVersion
    /\ late' \in {late, late \cup InFlight}
    /\ UNCHANGED <<local, session, transfers, faults, pauses, exchanges, retries, deletes>>

-----------------------------------------------------------------------------
(* The rest of the Registry *)

Registry(id) == INSTANCE RegistryTransfer WITH status <- transfers[id].status

(* One row's status changes, as the Registry allows. *)
StatusChanges(id) ==
    /\ \E s \in TransferStatus \cup {"deleted"} : transfers' = [transfers EXCEPT ![id].status = s]
    /\ UNCHANGED <<client, session, late>>

Verify ==
    /\ \E id \in Ids : StatusChanges(id) /\ (Registry(id)!Claim \/ Registry(id)!Requeue)
    /\ UNCHANGED bounds

Settle ==
    /\ \E id \in Ids : StatusChanges(id) /\ Registry(id)!Verdict
    /\ UNCHANGED bounds

AdminRetry ==
    /\ retries < MaxRetries
    /\ \E id \in Ids : StatusChanges(id) /\ Registry(id)!Retry
    /\ retries' = retries + 1
    /\ UNCHANGED <<crashes, faults, pauses, exchanges, deletes>>

AdminDelete ==
    /\ deletes < MaxDeletes
    /\ \E id \in Ids : Live(id) /\ StatusChanges(id) /\ Registry(id)!Delete
    /\ deletes' = deletes + 1
    /\ UNCHANGED <<crashes, faults, pauses, exchanges, retries>>

-----------------------------------------------------------------------------
TaskStep ==
    \/ inventory_begins \/ inventory_ends
    \/ register_transfer \/ manifest_snapshot \/ manifest_submission
    \/ upload_object \/ mark_uploaded \/ finalization \/ finalize_upload \/ finish_upload

Next ==
    \/ create_inventory \/ start_upload \/ TaskStep
    \/ pause_upload \/ exchange_invitation \/ renew_session \/ clear_transfer \/ Crash
    \/ \E p \in Pollers : fetch_status(p) \/ apply_status(p)
    \/ LateRequestArrives
    \/ Verify \/ Settle \/ AdminRetry \/ AdminDelete

Spec == Init /\ [][Next]_vars

(* A task runs, the user resumes what stopped, the interface polls every two seconds, and the
   worker, whose attempts are limited, does not requeue for ever.                           *)
FairSpec ==
    /\ Spec
    /\ WF_vars(TaskStep)
    /\ WF_vars(start_upload)
    /\ \A p \in Pollers : WF_vars(fetch_status(p)) /\ WF_vars(apply_status(p))
    /\ WF_vars(Verify)
    /\ SF_vars(Settle)

-----------------------------------------------------------------------------
(* Properties *)

Requests == [kind : {"register", "manifest", "finalize"}, session : Nat, id : Nat, value : 0..MaxVersion]

(* Every variable stays in its domain, and every id Courier has is one the Registry gave. *)
TypeOK ==
    /\ local \in [status : TransferStatus \cup Absent, server : 0..Len(transfers),
                  snapshot : 0..MaxVersion, uploaded : SUBSET Objects]
    /\ task \in [pc : {"idle", "inventory", "scan", "register", "snapshot", "manifest", "objects",
                       "mark", "finalize", "finish"},
                 session : Nat, server : 0..Len(transfers), snapshot : 0..MaxVersion,
                 todo : SUBSET Objects]
    /\ pausing \in BOOLEAN
    /\ version \in 1..MaxVersion
    /\ polls \in [Pollers -> TransferStatus \cup {"none"}]
    /\ session \in Nat \ {0}
    /\ transfers \in Seq([session : Nat, status : TransferStatus \cup {"deleted"}, version : 0..MaxVersion,
                          manifest : 0..MaxVersion, stored : SUBSET Objects, recorded : SUBSET Objects])
    /\ late \subseteq Requests

(* A registration whose answer was lost, or that
   arrives after Courier came back, is not a second transfer: a session has one that was not
   deleted.  And where another session has registered the transfer again, only one of the two
   is ever described and uploaded to; the other stays an empty draft.                        *)
RegisteredOnce ==
    \A i, j \in Ids : i # j =>
        /\ Live(i) /\ Live(j) => transfers[i].session # transfers[j].session
        /\ transfers[i].manifest = None \/ transfers[j].manifest = None

(* "so upgrading Courier does not change its immutable digest": whatever was lost, whichever
   release registered the transfer and whichever resumes it, the Registry never has cause to
   refuse the manifest of a session whose transfer it is.                                   *)
ManifestIsNeverRefused ==
    task.pc = "manifest" /\ Known(task.session, task.server) =>
        ManifestAccepted(task.session, task.server, task.snapshot)

(* What Courier shows is what the Registry found: a locally complete transfer is complete in
   the Registry (or was deleted there), and a failed one failed there and was at most retried. *)
ShownVerdictIsTheRegistrys ==
    Live(local.server) =>
        /\ local.status = "complete" => transfers[local.server].status = "complete"
        /\ local.status = "failed" => transfers[local.server].status = "failed" \/ retries > 0

(* "without allowing a delayed response to move a transfer backward from a terminal state":
   nothing but clearing leaves complete or failed, and a transfer that awaits its verdict is
   never put back into an earlier state.                                                     *)
Rank(s) == CASE s \in {"complete", "failed", "cancelled"} -> 3
             [] s = "verifying" -> 2
             [] s = "finalizing" -> 1
             [] OTHER -> 0

NeverMovesBackward ==
    [][local'.status # "cleared" =>
          /\ Rank(local'.status) >= Rank(local.status)
          /\ Rank(local.status) = 3 => local'.status = local.status]_vars

(* The administrator deleted the transfer Courier knows. *)
GoneFromRegistry == local.server # None /\ ~ Live(local.server)

(* Courier does not know of the failure: it was never told that the Registry had accepted
   its finalize request.                                                                 *)
FailureUnseen ==
    /\ local.status \in {"uploading", "paused", "interrupted"}
    /\ Live(local.server) /\ transfers[local.server].status = "failed"

(* An object reached storage and its record was lost. *)
ObjectUnrecorded ==
    Live(local.server) /\ transfers[local.server].stored # transfers[local.server].recorded

(* The transfer belongs to a session Courier no longer holds: "transfer belongs to another
   session" is all it is told.                                                            *)
OtherSessions == Live(local.server) /\ transfers[local.server].session # session

(* "polls until it reaches `complete` or `failed`": an upload is brought to its verdict,
   whatever was lost on the way, unless the transfer is cleared or deleted ...          *)
OutcomeIsShown ==
    local.status = "uploading" ~>
        local.status \in {"complete", "failed", "cleared"} \/ GoneFromRegistry

(* ... as long as no failure goes unseen, no object unrecorded, and the invitation is not
   exchanged again once the transfer is registered.                                      *)
OutcomeIsShownIfKnown ==
    local.status = "uploading" ~>
        \/ local.status \in {"complete", "failed", "cleared"} \/ GoneFromRegistry
        \/ FailureUnseen \/ ObjectUnrecorded \/ OtherSessions
=============================================================================
