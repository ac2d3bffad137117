------------------------------ MODULE PartPlan ------------------------------
(***************************************************************************)
(* Part boundaries: plan_parts, the revision of an older plan when an      *)
(* upload resumes (replan_large_unconfirmed_parts), and the comparison of  *)
(* the plan with what the object store lists (reconcile_file), through any *)
(* number of stops and resumptions.  The upload may have been planned and  *)
(* begun by an earlier release with another target size, so the plan SQLite*)
(* holds need not be one the current limits would give.                    *)
(*                                                                         *)
(* The Registry lists one page of the upload's parts, the lowest numbers.  *)
(* What storage holds beyond it is pending to Courier, is cut anew if its  *)
(* parts are large, and is sent again.                                     *)
(***************************************************************************)
EXTENDS Naturals, Sequences, FiniteSetsExt

CONSTANTS
    Limits,      \* MultipartLimits::default(): target, minimum, maximum, parts
    OldTargets,  \* target part sizes the first plan may have been made with
    MaxU64,      \* u64::MAX
    PageSize,    \* parts one ListParts answer can hold
    MaxLate      \* bound: abandoned PUTs that may still arrive

MultipartLimits == [target : Nat, minimum : Nat, maximum : Nat, parts : Nat]

ASSUME PartPlanAssumption ==
    /\ Limits \in MultipartLimits
    /\ Limits.minimum > 0 /\ Limits.parts > 0 /\ Limits.maximum >= Limits.minimum
    /\ OldTargets \subseteq Nat
    /\ MaxU64 \in Nat
    /\ PageSize \in Nat \ {0}
    /\ MaxLate \in Nat

VARIABLES
    size,    \* the source's size
    parts,   \* SQLite: the plan, indexed by part number less the gaps it never has
    remote,  \* the multipart upload: the ETags of the parts received
    late,    \* PUTs Courier no longer waits for
    lates,   \* how many there were
    phase,   \* "stopped", "uploading" or "done"
    error    \* why the last resumption was refused

planVars == <<size, parts, remote, late, lates, phase, error>>

-----------------------------------------------------------------------------
(* planner.rs *)

DivCeil(a, b) == (a + b - 1) \div b
AtMost(a, b)  == Min({a, b})

ValidLimits(limits) ==
    limits.minimum > 0 /\ limits.parts > 0 /\ limits.maximum >= limits.minimum

Capacity(limits) == AtMost(limits.maximum * limits.parts, MaxU64)

PartSize(file_size, limits) ==
    AtMost(Max({limits.target, limits.minimum, DivCeil(file_size, limits.parts)}), limits.maximum)

(* A part's ETag stands for the bytes it was given for: a range of the source. *)
Bytes(offset, length) == [offset |-> offset, length |-> length]
NoEtag == Bytes(MaxU64 + 1, 0)

Part(offset, length) ==
    [offset |-> offset, length |-> length, complete |-> FALSE, etag |-> NoEtag]

Plan(ps)      == [error |-> "none", parts |-> ps]
PlanError(e)  == [error |-> e, parts |-> <<>>]

plan_parts(file_size, limits) ==
    IF ~ ValidLimits(limits) THEN PlanError("InvalidLimits")
    ELSE IF file_size > Capacity(limits) THEN PlanError("FileTooLarge")
    ELSE IF file_size = 0 THEN Plan(<<Part(0, 0)>>)
    ELSE LET part_size == PartSize(file_size, limits)
         IN  Plan([n \in 1..DivCeil(file_size, part_size) |->
                    LET offset == (n - 1) * part_size
                    IN  Part(offset, AtMost(file_size - offset, part_size))])

-----------------------------------------------------------------------------
(* executor.rs *)

(* take_while(Complete).count() *)
ConfirmedPrefix(ps) == Max({k \in 0..Len(ps) : \A n \in 1..k : ps[n].complete})

(* The plan is the one-based partition of the file that the loop checks for. *)
Covers(ps, file_size) ==
    /\ Len(ps) > 0
    /\ ps[1].offset = 0
    /\ \A n \in 1..(Len(ps) - 1) : ps[n + 1].offset = ps[n].offset + ps[n].length
    /\ ps[Len(ps)].offset + ps[Len(ps)].length = file_size

(* The tail may use the part numbers the confirmed prefix left, ... *)
WholeLimits(k) == Limits   \* mutant
TailLimits(k) == [Limits EXCEPT !.parts = @ - k]

(* ... and starts where that prefix ends. *)
Unshifted(part, start) == part   \* mutant
Shifted(part, start) == [part EXCEPT !.offset = @ + start]

replan_large_unconfirmed_parts(file_size, ps) ==
    LET k == ConfirmedPrefix(ps)
        tail == SubSeq(ps, k + 1, Len(ps))
        start == tail[1].offset
        new == plan_parts(file_size - start, TailLimits(k))
    IN  IF \/ tail = <<>>
           \/ \E n \in 1..Len(tail) : tail[n].complete
           \/ \A n \in 1..Len(tail) : tail[n].length <= Limits.target
        THEN Plan(ps)
        ELSE IF ~ Covers(ps, file_size) \/ k > Limits.parts THEN PlanError("InvalidLimits")
        ELSE IF new.error # "none" THEN new
        ELSE Plan(SubSeq(ps, 1, k) \o
                  [n \in 1..Len(new.parts) |-> Shifted(new.parts[n], start)])

(* reconcile.rs: what the listing contradicts in the plan. *)
UnexpectedOnly(ps, listed) == \* mutant
    IF \E r \in listed : r.number > Len(ps) THEN "UnexpectedRemotePart" ELSE "none"

ReconcileError(ps, listed) ==
    IF \E r \in listed : r.number > Len(ps) THEN "UnexpectedRemotePart"
    ELSE IF \E r \in listed : r.etag.length # 0 /\ r.etag.length # ps[r.number].length
    THEN "RemotePartSizeMismatch" ELSE "none"

(* db.rs: the listed parts are complete with the listed ETag, all others pending again. *)
AllPendingAgain(ps, listed) == \* mutant
    [n \in 1..Len(ps) |-> Part(ps[n].offset, ps[n].length)]

reconcile_remote_parts(ps, listed) ==
    [n \in 1..Len(ps) |->
        IF \E r \in listed : r.number = n
        THEN [ps[n] EXCEPT !.complete = TRUE,
                           !.etag = (CHOOSE r \in listed : r.number = n).etag]
        ELSE Part(ps[n].offset, ps[n].length)]

-----------------------------------------------------------------------------
(* Part n of the plan, as storage lists it, and the first k of them. *)
Sent(n) == [number |-> n, etag |-> Bytes(parts[n].offset, parts[n].length)]
Prefix(k) == {Sent(n) : n \in 1..k}

(* list_parts asks for one page and takes it for the whole: the lowest part numbers. *)
Numbers(listed) == {r.number : r \in listed}
Page(listed) ==
    {r \in listed : Cardinality({n \in Numbers(listed) : n < r.number}) < PageSize}

(* An upload the earlier release planned, and may have begun. *)
InitPlan ==
    /\ \E target \in OldTargets :
         LET limits == [Limits EXCEPT !.target = target] IN
           /\ size \in 0..Capacity(limits)
           /\ parts = plan_parts(size, limits).parts
    /\ \E k \in 0..Len(parts) :
         /\ remote = Prefix(k)
         /\ \/ late = {} /\ lates = 0
            \/ k < Len(parts) /\ MaxLate > 0 /\ late = Prefix(k + 1) \ Prefix(k) /\ lates = 1
    /\ phase = "stopped"
    /\ error = "none"

(* The start of upload_missing_parts: reconcile with the page, then revise the plan. *)
upload_missing_parts ==
    /\ phase = "stopped"
    /\ LET mismatch == ReconcileError(parts, Page(remote))
           reconciled == reconcile_remote_parts(parts, Page(remote))
           revised == replan_large_unconfirmed_parts(size, reconciled)
       IN \/ /\ mismatch # "none"
             /\ error' = mismatch
             /\ UNCHANGED <<parts, phase>>
          \/ /\ mismatch = "none"
             /\ error' = revised.error
             /\ IF revised.error = "none"
                THEN parts' = revised.parts /\ phase' = "uploading"
                ELSE parts' = reconciled /\ UNCHANGED phase
    /\ UNCHANGED <<size, remote, late, lates>>

Pending == {n \in 1..Len(parts) : ~ parts[n].complete}

(* A PUT replaces what the upload held under that part number. *)
Put(sent) == remote' = {r \in remote : r.number # sent.number} \cup {sent}

upload_part ==
    /\ phase = "uploading"
    /\ Pending # {}
    /\ LET n == Min(Pending) IN
         /\ Put(Sent(n))
         /\ parts' = [parts EXCEPT ![n].complete = TRUE, ![n].etag = Sent(n).etag]
    /\ UNCHANGED <<size, late, lates, phase, error>>

(* Courier stops; the part it was sending is lost, or arrives later. *)
Stop ==
    /\ phase = "uploading"
    /\ Pending # {}
    /\ phase' = "stopped"
    /\ \/ UNCHANGED <<late, lates>>
       \/ /\ lates < MaxLate
          /\ lates' = lates + 1
          /\ late' = late \cup {Sent(Min(Pending))}
    /\ UNCHANGED <<size, parts, remote, error>>

LatePutArrives ==
    /\ phase # "done"
    /\ \E l \in late : Put(l) /\ late' = late \ {l}
    /\ UNCHANGED <<size, parts, lates, phase, error>>

(* complete_uploaded_file: storage assembles the parts the request names, and refuses if one
   of them no longer has the ETag the request gives.                                       *)
complete_uploaded_file ==
    /\ phase = "uploading"
    /\ Pending = {}
    /\ phase' = IF \A n \in 1..Len(parts) : [number |-> n, etag |-> parts[n].etag] \in remote
                THEN "done" ELSE "stopped"
    /\ UNCHANGED <<size, parts, remote, late, lates, error>>

NextPlan ==
    \/ upload_missing_parts
    \/ upload_part
    \/ Stop
    \/ LatePutArrives
    \/ complete_uploaded_file

PlanSpec == InitPlan /\ [][NextPlan]_planVars

-----------------------------------------------------------------------------
WithinLimits ==
    /\ Len(parts) <= Limits.parts
    /\ \A n \in 1..Len(parts) :
         /\ parts[n].length <= Limits.maximum
         /\ n < Len(parts) => parts[n].length >= Limits.minimum

(* However often the plan was revised and wherever the upload had stopped, every byte of the
   file is in exactly one part ("stable, one-based source ranges"), and no plan asks storage
   for what it refuses: too many parts, a part above the maximum size, or a part other than
   the last below the minimum.                                                             *)
PlanIsValid == Covers(parts, size) /\ WithinLimits

(* "Multipart part numbers and ETags in that prefix stay put": a revision never moves or
   resizes a part that the listing showed.                                               *)
StaysPut(r) ==
    r.number <= Len(parts) /\ error' = "none" =>
        /\ r.number <= Len(parts')
        /\ parts'[r.number].offset = parts[r.number].offset
        /\ parts'[r.number].length = parts[r.number].length

ConfirmedPartsStayPut ==
    [][upload_missing_parts => \A r \in Page(remote) : StaysPut(r)]_planVars

(* Stronger, and so only if every plan fits in one page: no part that storage holds. *)
AcceptedPartsStayPut ==
    [][upload_missing_parts => \A r \in remote : StaysPut(r)]_planVars

(* "reconciliation in which remote confirmed parts repair local state": a resumption is
   never refused, neither by the revision's arithmetic nor by what storage lists.       *)
ResumptionIsAccepted == error = "none"

(* ... as long as no request of an older plan is still on its way. *)
ResumptionAcceptedUnlessLate == lates = 0 => ResumptionIsAccepted

(* A finished object is the file: the bytes storage assembled under each part number are the
   range the plan gives it.  A request of an older plan that arrives late can spoil a part,
   but the object is then not assembled.                                                   *)
DoneIsWhole ==
    phase = "done" =>
        \A n \in 1..Len(parts) : Sent(n) \in remote
=============================================================================
