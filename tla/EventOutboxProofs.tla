-------------------------- MODULE EventOutboxProofs --------------------------
(***************************************************************************)
(* Proofs about EventOutbox, for any number of transfers and events, any   *)
(* limits of a pass and of a batch, and any amount of trouble.             *)
(*                                                                         *)
(* The log of a transfer is a beginning of its events because every batch  *)
(* that is on its way, late ones included, leaves out only events that are *)
(* in the log already: Fits.  What is new of it then follows the log's end *)
(* without a gap.                                                          *)
(***************************************************************************)
EXTENDS EventOutbox, FiniteSetTheorems, SequenceTheorems, WellFoundedInduction, TLAPS

(* The types the proofs need. *)
Shape ==
    /\ rows \in [Transfers -> {"local", "registered", "cleared"}]
    /\ events \in [Transfers -> Nat]
    /\ synced \in [Transfers -> SUBSET Nat]
    /\ log \in [Transfers -> Seq(Nat)]
    /\ pass \subseteq Transfers
    /\ pc \in {"send", "answered"} => pass # {}

(* The log of a transfer holds the first of its events, in their order. *)
Logged(t) == 1..Len(log[t])

LoggedInOrder ==
    \A t \in Transfers : Len(log[t]) <= events[t] /\ \A i \in Logged(t) : log[t][i] = i

(* What was sent is of recorded events, and leaves out none that the log does not have. *)
FitsIn(b, recorded, n) ==
    /\ b \subseteq 1..recorded
    /\ \A x \in b, y \in 1..recorded : y < x => y \in b \/ y \in 1..n

Fits(t, b) == FitsIn(b, events[t], Len(log[t]))

SendingFits ==
    /\ pc \in {"send", "answered"} => Fits(Visiting, batch)
    /\ pc = "answered" => batch \subseteq Logged(Visiting)

LateFits == \A m \in late : m.transfer \in Transfers /\ Fits(m.transfer, m.batch)

SyncedInLog == \A t \in Transfers : synced[t] \subseteq Logged(t)

IInv == Shape /\ LoggedInOrder /\ SendingFits /\ LateFits /\ SyncedInLog

-----------------------------------------------------------------------------
(* Least and greatest numbers *)

Below == {ss \in Nat \X Nat : ss[1] < ss[2]}

LEMMA BelowIsWellFounded == IsWellFoundedOn(Below, Nat)
  BY NatLessThanWellFounded DEF OpToRel, Below

(* A set of natural numbers that is not empty has a least element, which Min chooses. *)
LEMMA LeastExists ==
  ASSUME NEW S, S \subseteq Nat, S # {}
  PROVE  \E x \in S : \A y \in S : x <= y
<1>1. PICK x \in S : \A y \in S : ~ (<<y, x>> \in Below)
  BY BelowIsWellFounded, WFMin
<1>2. ASSUME NEW y \in S PROVE x <= y
  <2>1. <<y, x>> \in Below <=> y < x
    BY DEF Below
  <2> QED
    BY <1>1, <2>1
<1> QED
  BY <1>2

LEMMA MinIsLeast ==
  ASSUME NEW S, S \subseteq Nat, S # {}
  PROVE  Min(S) \in S /\ \A y \in S : Min(S) <= y
  BY LeastExists DEF Min

(* One with an upper bound has a greatest. *)
LEMMA GreatestExists ==
  ASSUME NEW S, S \subseteq Nat, S # {}, NEW n \in Nat, \A x \in S : x <= n
  PROVE  \E x \in S : \A y \in S : y <= x
<1> DEFINE U == {u \in Nat : \A x \in S : x <= u}
<1>1. PICK u \in U : \A v \in U : u <= v
  BY LeastExists
<1>2. u \in S
  <2> SUFFICES ASSUME u \notin S PROVE FALSE
    OBVIOUS
  <2>1. \A x \in S : x < u
    BY <1>1
  <2>2. u # 0
    <3>1. PICK x \in S : TRUE
      OBVIOUS
    <3> QED
      BY <2>1, <3>1
  <2>3. u - 1 \in U
    BY <1>1, <2>1, <2>2
  <2> QED
    BY <1>1, <2>3
<1> QED
  BY <1>1, <1>2

-----------------------------------------------------------------------------
(* The events n+1 to m in their order *)

Upward(s, k) == \A i, j \in 1..k : i < j => s[i] < s[j]

(* There is one way to put an interval in order. *)
LEMMA IntervalInOrder ==
  ASSUME NEW n \in Nat, NEW k \in Nat
  PROVE  InOrder((n + 1)..(n + k)) = [i \in 1..k |-> n + i]
<1> DEFINE S == (n + 1)..(n + k)
           s == InOrder(S)
<1>1. Cardinality(S) = k
  BY FS_Interval
<1>2. s \in [1..k -> S] /\ Upward(s, k)
  <2>1. [i \in 1..k |-> n + i] \in [1..k -> S] /\ Upward([i \in 1..k |-> n + i], k)
    BY DEF Upward
  <2>2. s = CHOOSE f \in [1..k -> S] : \A i, j \in DOMAIN f : i < j => f[i] < f[j]
    BY <1>1 DEF InOrder
  <2> QED
    BY <2>1, <2>2 DEF Upward
<1> HIDE DEF s
<1>3. \A i \in 1..k : s[i] \in Nat /\ n + 1 <= s[i] /\ s[i] <= n + k
  BY <1>2
<1>4. \A i \in 1..k : s[i] >= n + i
  <2> DEFINE Low == {i \in 1..k : s[i] < n + i}
  <2> SUFFICES ASSUME Low # {} PROVE FALSE
    BY <1>3
  <2>1. PICK i \in Low : \A j \in Low : i <= j
    <3>1. Low \subseteq Nat /\ \A j \in Low : j <= k
      OBVIOUS
    <3> HIDE DEF Low
    <3> QED
      BY <3>1, LeastExists
  <2>2. i # 1
    BY <1>3, <2>1
  <2>3. i - 1 \in 1..k /\ i - 1 \notin Low
    BY <2>1, <2>2
  <2>4. s[i - 1] < s[i]
    BY <1>2, <2>1, <2>3 DEF Upward
  <2> QED
    BY <1>3, <2>1, <2>3, <2>4
<1>5. \A i \in 1..k : s[i] <= n + i
  <2> DEFINE High == {i \in 1..k : s[i] > n + i}
  <2> SUFFICES ASSUME High # {} PROVE FALSE
    BY <1>3
  <2>1. PICK i \in High : \A j \in High : j <= i
    <3>1. High \subseteq Nat /\ \A j \in High : j <= k
      OBVIOUS
    <3> HIDE DEF High
    <3> QED
      BY <3>1, GreatestExists
  <2>2. i # k
    BY <1>3, <2>1
  <2>3. i + 1 \in 1..k /\ i + 1 \notin High
    BY <2>1, <2>2
  <2>4. s[i] < s[i + 1]
    BY <1>2, <2>1, <2>3 DEF Upward
  <2> QED
    BY <1>3, <2>1, <2>3, <2>4
<1>6. \A i \in 1..k : s[i] = n + i
  BY <1>3, <1>4, <1>5
<1>7. s = [i \in 1..k |-> n + i]
  BY <1>2, <1>6
<1> QED
  BY <1>7 DEF s

-----------------------------------------------------------------------------
(* The Registry's log *)

(* Recorded events and logged events only become more, and a batch fits as before. *)
LEMMA FitsStays ==
  ASSUME NEW b, NEW e \in Nat, NEW f \in Nat, e <= f, NEW m \in Nat, NEW n \in Nat, m <= n,
         FitsIn(b, e, m)
  PROVE  FitsIn(b, f, n)
<1>1. b \subseteq 1..e /\ \A x \in b, y \in 1..e : y < x => y \in b \/ y \in 1..m
  BY DEF FitsIn
<1>2. b \subseteq 1..f
  BY <1>1
<1>3. ASSUME NEW x \in b, NEW y \in 1..f, y < x PROVE y \in b \/ y \in 1..n
  BY <1>1, <1>3
<1> QED
  BY <1>2, <1>3 DEF FitsIn

(* What a batch that fits adds to a log of n events are the events n+1 to some n+k. *)
LEMMA NewIsInterval ==
  ASSUME NEW b, NEW e \in Nat, NEW n \in Nat, n <= e, FitsIn(b, e, n)
  PROVE  \E k \in Nat : n + k <= e /\ b \ (1..n) = (n + 1)..(n + k)
<1> DEFINE N == b \ (1..n)
<1>0. N \subseteq Nat /\ \A x \in N : x > n /\ x <= e
  BY DEF FitsIn
<1>1. CASE N = {}
  <2>1. n + 0 <= e /\ N = (n + 1)..(n + 0)
    BY <1>1
  <2> QED
    BY <2>1
<1>2. CASE N # {}
  <2>1. PICK x \in N : \A y \in N : y <= x
    <3> HIDE DEF N
    <3> QED
      BY <1>0, <1>2, GreatestExists
  <2>2. x - n \in Nat /\ n + (x - n) = x /\ x <= e
    BY <1>0
  <2>3. \A y \in (n + 1)..x : y \in N
    <3> SUFFICES ASSUME NEW y \in (n + 1)..x, y # x PROVE y \in N
      BY <2>1
    <3>1. y \in 1..e /\ y < x /\ y \notin 1..n /\ x \in b
      BY <1>0, <2>1
    <3> QED
      BY <3>1 DEF FitsIn
  <2>4. N = (n + 1)..x
    BY <1>0, <2>1, <2>3
  <2> QED
    BY <2>2, <2>4
<1> QED
  BY <1>1, <1>2

(* ingest_events keeps the log a beginning of the events, and leaves the batch in it. *)
LEMMA IngestedInOrder ==
  ASSUME Shape, LoggedInOrder, NEW t \in Transfers, NEW b, Fits(t, b), ingest_events(t, b)
  PROVE  /\ log' \in [Transfers -> Seq(Nat)]
         /\ \A u \in Transfers : u # t => log'[u] = log[u]
         /\ Len(log[t]) <= Len(log'[t]) /\ Len(log'[t]) <= events[t]
         /\ \A i \in 1..Len(log'[t]) : log'[t][i] = i
         /\ b \subseteq 1..Len(log'[t])
<1> DEFINE n == Len(log[t])
<1>0. log[t] \in Seq(Nat) /\ n \in Nat /\ events[t] \in Nat /\ n <= events[t]
  BY DEF Shape, LoggedInOrder
<1>1. ToSet(log[t]) = 1..n
  BY <1>0 DEF ToSet, LoggedInOrder, Logged
<1>2. FitsIn(b, events[t], n)
  BY DEF Fits
<1> HIDE DEF n
<1>3. PICK k \in Nat : n + k <= events[t] /\ b \ (1..n) = (n + 1)..(n + k)
  <2> DEFINE e == events[t]
  <2>1. e \in Nat /\ n \in Nat /\ n <= e /\ FitsIn(b, e, n)
    BY <1>0, <1>2
  <2> HIDE DEF e
  <2>2. \E k \in Nat : n + k <= e /\ b \ (1..n) = (n + 1)..(n + k)
    BY <2>1, NewIsInterval
  <2> QED
    BY <2>2 DEF e
<1> DEFINE s == [i \in 1..k |-> n + i]
<1>4. s \in Seq(Nat) /\ Len(s) = k /\ \A i \in 1..k : s[i] = n + i
  BY <1>0
<1>5. InOrder(New(t, b)) = s
  BY <1>0, <1>1, <1>3, IntervalInOrder DEF New
<1> HIDE DEF s
<1>6. log' = [log EXCEPT ![t] = log[t] \o s]
  BY <1>5 DEF ingest_events
<1>7. /\ log[t] \o s \in Seq(Nat) /\ Len(log[t] \o s) = n + k
      /\ \A i \in 1..(n + k) : (log[t] \o s)[i] = IF i <= n THEN log[t][i] ELSE s[i - n]
  BY <1>0, <1>4, ConcatProperties DEF n
<1>8. \A i \in 1..(n + k) : (log[t] \o s)[i] = i
  BY <1>0, <1>4, <1>7 DEF LoggedInOrder, Logged, n
<1>9. log'[t] = log[t] \o s
  BY <1>6 DEF Shape
<1>10. b \subseteq 1..(n + k)
  BY <1>0, <1>3
<1> QED
  BY <1>0, <1>3, <1>6, <1>7, <1>8, <1>9, <1>10 DEF Shape, n

-----------------------------------------------------------------------------
(* The steps *)

(* The loop visits a transfer of its pass. *)
LEMMA VisitingInPass ==
  ASSUME Shape, pass # {}
  PROVE  Visiting \in pass /\ Visiting \in Transfers
<1>1. pass \subseteq Nat /\ pass \subseteq Transfers
  BY OutboxAssumption DEF Shape, Transfers
<1>2. Min(pass) \in pass
  BY <1>1, MinIsLeast
<1> QED
  BY <1>1, <1>2 DEF Visiting

Grows ==
    /\ log' \in [Transfers -> Seq(Nat)] /\ events' \in [Transfers -> Nat]
    /\ LoggedInOrder'
    /\ \A u \in Transfers : events[u] <= events'[u] /\ Len(log[u]) <= Len(log'[u])

(* A delivery, of the loop or late, adds to one log; nothing else touches a log, and events
   are only added.                                                                        *)
LEMMA IngestGrows ==
  ASSUME Shape, LoggedInOrder, NEW t \in Transfers, NEW b, Fits(t, b), ingest_events(t, b),
         UNCHANGED events
  PROVE  Grows
<1>1. /\ log' \in [Transfers -> Seq(Nat)]
      /\ \A u \in Transfers : u # t => log'[u] = log[u]
      /\ Len(log[t]) <= Len(log'[t]) /\ Len(log'[t]) <= events[t]
      /\ \A i \in 1..Len(log'[t]) : log'[t][i] = i
  BY IngestedInOrder
<1>2. \A u \in Transfers : Len(log[u]) \in Nat /\ events[u] \in Nat
  BY DEF Shape
<1>3. LoggedInOrder'
  <2> SUFFICES ASSUME NEW u \in Transfers
               PROVE  /\ Len(log'[u]) <= events'[u]
                      /\ \A i \in 1..Len(log'[u]) : log'[u][i] = i
    BY DEF LoggedInOrder, Logged
  <2>1. CASE u = t
    BY <1>1, <2>1
  <2>2. CASE u # t
    BY <1>1, <2>2 DEF LoggedInOrder, Logged
  <2> QED
    BY <2>1, <2>2
<1>4. \A u \in Transfers : events[u] <= events'[u] /\ Len(log[u]) <= Len(log'[u])
  BY <1>1, <1>2
<1>5. events' \in [Transfers -> Nat]
  BY DEF Shape
<1> QED
  BY <1>1, <1>3, <1>4, <1>5 DEF Grows

LEMMA QuietGrows ==
  ASSUME Shape, LoggedInOrder, UNCHANGED log,
         UNCHANGED events \/ \E t \in Transfers : events' = [events EXCEPT ![t] = @ + 1]
  PROVE  Grows
<1>1. events' \in [Transfers -> Nat] /\ \A u \in Transfers : events[u] <= events'[u]
  <2>0. events \in [Transfers -> Nat]
    BY DEF Shape
  <2>1. CASE UNCHANGED events
    BY <2>0, <2>1
  <2>2. ASSUME NEW t \in Transfers, events' = [events EXCEPT ![t] = @ + 1]
        PROVE  events' \in [Transfers -> Nat] /\ \A u \in Transfers : events[u] <= events'[u]
    BY <2>0, <2>2
  <2> QED
    BY <2>1, <2>2
<1>2. \A u \in Transfers : Len(log[u]) \in Nat /\ events[u] \in Nat
  BY DEF Shape
<1> QED
  BY <1>1, <1>2 DEF Grows, Shape, LoggedInOrder, Logged

(* A batch is the first of what is pending: what it leaves out before its last event was
   acknowledged, so it is in the log.                                                   *)
LEMMA PendingFits ==
  ASSUME IInv, NEW t \in Transfers
  PROVE  Fits(t, pending_transfer_events(t))
<1> DEFINE S == Unsynced(t)
           b == First(BatchLimit, S)
           e == events[t]
<1>1. e \in Nat /\ S \subseteq 1..e /\ (S # {} => S = (1..e) \ synced[t])
  BY DEF IInv, Shape, Unsynced
<1>2. synced[t] \subseteq 1..Len(log[t])
  BY DEF IInv, SyncedInLog, Logged
<1> HIDE DEF S, e
<1>3. b \subseteq S
  BY DEF First
<1>4. ASSUME NEW x \in b, NEW y \in 1..e, y < x PROVE y \in b \/ y \in 1..Len(log[t])
  <2> SUFFICES ASSUME y \notin synced[t] PROVE y \in b
    BY <1>2
  <2>1. x \in S /\ y \in S /\ x \in Nat /\ y \in Nat
    BY <1>1, <1>3
  <2> DEFINE X == {z \in S : z < x}
             Y == {z \in S : z < y}
  <2>2. IsFiniteSet(X)
    <3>1. IsFiniteSet(1..e)
      BY <1>1, FS_Interval
    <3>2. X \subseteq 1..e
      BY <1>1
    <3> QED
      BY <3>1, <3>2, FS_Subset
  <2>3. Y \subseteq X
    BY <1>1, <1>4, <2>1
  <2>4. Cardinality(Y) <= Cardinality(X) /\ Cardinality(X) \in Nat /\ Cardinality(Y) \in Nat
    BY <2>2, <2>3, FS_Subset, FS_CardinalityType
  <2>5. Cardinality(X) < BatchLimit
    BY DEF First
  <2>6. Cardinality(Y) < BatchLimit
    BY <2>4, <2>5, OutboxAssumption
  <2> QED
    BY <2>1, <2>6 DEF First
<1>5. FitsIn(b, e, Len(log[t]))
  BY <1>1, <1>3, <1>4 DEF FitsIn
<1> QED
  BY <1>5 DEF Fits, pending_transfer_events, e, S

LEMMA FitsKept ==
  ASSUME IInv, Grows, NEW t \in Transfers, NEW b, Fits(t, b)
  PROVE  FitsIn(b, events'[t], Len(log'[t]))
<1> DEFINE e == events[t]
           f == events'[t]
           m == Len(log[t])
           n == Len(log'[t])
<1>1. e \in Nat /\ f \in Nat /\ e <= f /\ m \in Nat /\ n \in Nat /\ m <= n
  BY DEF IInv, Shape, Grows
<1>2. FitsIn(b, e, m)
  BY DEF Fits
<1> HIDE DEF e, f, m, n
<1>3. FitsIn(b, f, n)
  BY <1>1, <1>2, FitsStays
<1> QED
  BY <1>3 DEF f, n

LEMMA NextGrows ==
  ASSUME IInv, [Next]_vars
  PROVE  Grows
<1> USE DEF IInv
<1>1. CASE Send
  <2>1. Visiting \in Transfers /\ Fits(Visiting, batch)
    BY <1>1, VisitingInPass DEF Send, Shape, SendingFits
  <2>2. CASE ingest_events(Visiting, batch)
    BY <1>1, <2>1, <2>2, IngestGrows DEF Send, sqlite
  <2>3. CASE UNCHANGED log
    BY <1>1, <2>3, QuietGrows DEF Send, sqlite
  <2> QED
    BY <1>1, <2>2, <2>3 DEF Send
<1>2. CASE LateRequestArrives
  <2>1. PICK m \in late :
          IF m.transfer \in refused THEN UNCHANGED log ELSE ingest_events(m.transfer, m.batch)
    BY <1>2 DEF LateRequestArrives
  <2>2. m.transfer \in Transfers /\ Fits(m.transfer, m.batch)
    BY DEF LateFits
  <2>3. CASE m.transfer \in refused
    BY <1>2, <2>1, <2>3, QuietGrows DEF LateRequestArrives, sqlite
  <2>4. CASE m.transfer \notin refused
    BY <1>2, <2>1, <2>2, <2>4, IngestGrows DEF LateRequestArrives, sqlite
  <2> QED
    BY <2>3, <2>4
<1>3. CASE \E t \in Transfers : record_transfer_event(t)
  BY <1>3, QuietGrows DEF record_transfer_event, registry
<1>4. CASE UNCHANGED <<events, log>>
  BY <1>4, QuietGrows
<1> QED
  BY <1>1, <1>2, <1>3, <1>4
  DEF Next, LoopStep, vars, sqlite, registry, sync_pending_transfer_events, sync_transfer_events,
      pass_ends, pass_fails, acknowledge_transfer_events, bind_registry_transfer, clear_transfer,
      RegistryRefuses, Crash

(* The pass shrinks to what it has still to visit, or starts with transfers that are there. *)
LEMMA NextShape ==
  ASSUME IInv, [Next]_vars
  PROVE  Shape'
<1> USE DEF IInv
<1>1. log' \in [Transfers -> Seq(Nat)] /\ events' \in [Transfers -> Nat]
  BY NextGrows DEF Grows
<1>2. rows' \in [Transfers -> {"local", "registered", "cleared"}]
  <2>1. rows \in [Transfers -> {"local", "registered", "cleared"}]
    BY DEF Shape
  <2> QED
    BY <2>1
    DEF Next, LoopStep, vars, sqlite, sync_pending_transfer_events, sync_transfer_events, Send,
        pass_ends, pass_fails, acknowledge_transfer_events, bind_registry_transfer, clear_transfer,
        record_transfer_event, RegistryRefuses, LateRequestArrives, Crash
<1>3. synced' \in [Transfers -> SUBSET Nat]
  <2>1. CASE UNCHANGED synced
    BY <2>1 DEF Shape
  <2>2. CASE acknowledge_transfer_events
    <3>1. Fits(Visiting, batch)
      BY <2>2 DEF acknowledge_transfer_events, SendingFits
    <3>2. batch \subseteq Nat
      BY <3>1 DEF Fits, FitsIn
    <3> QED
      BY <2>2, <3>2 DEF acknowledge_transfer_events, Acknowledged, Shape
  <2> QED
    BY <2>1, <2>2
    DEF Next, LoopStep, vars, sqlite, sync_pending_transfer_events, sync_transfer_events, Send,
        pass_ends, pass_fails, bind_registry_transfer, clear_transfer,
        record_transfer_event, RegistryRefuses, LateRequestArrives, Crash
<1>4. pass' \subseteq Transfers /\ (pc' \in {"send", "answered"} => pass' # {})
  <2>1. CASE sync_pending_transfer_events
    <3>1. transfers_with_pending_events(cursor) \subseteq Transfers
          /\ transfers_with_pending_events(0) \subseteq Transfers
      BY DEF transfers_with_pending_events, First
    <3> QED
      BY <2>1, <3>1 DEF sync_pending_transfer_events
  <2>2. CASE sync_transfer_events
    BY <2>2 DEF sync_transfer_events, Visited, Shape
  <2>3. CASE Send
    BY <2>3 DEF Send, Visited, Shape
  <2>4. CASE acknowledge_transfer_events
    BY <2>4 DEF acknowledge_transfer_events, Visited, Shape
  <2>5. CASE UNCHANGED <<pass, pc>>
    BY <2>5 DEF Shape
  <2>6. CASE pass' \subseteq pass /\ pc' = "sleep"
    BY <2>6 DEF Shape
  <2> QED
    BY <2>1, <2>2, <2>3, <2>4, <2>5, <2>6
    DEF Next, LoopStep, vars, loop, pass_ends, pass_fails, bind_registry_transfer, clear_transfer,
        record_transfer_event, RegistryRefuses, LateRequestArrives, Crash
<1> QED
  BY <1>1, <1>2, <1>3, <1>4 DEF Shape

(* A batch is formed to fit, fits while it is sent and answered, and is answered when the log
   has it.                                                                                   *)
LEMMA NextSendingFits ==
  ASSUME IInv, [Next]_vars
  PROVE  SendingFits'
<1> USE DEF IInv
<1>0. Grows
  BY NextGrows
<1>1. CASE UNCHANGED <<pass, pc, batch>>
  <2>1. CASE pc \in {"send", "answered"}
    <3>1. Visiting \in Transfers /\ Fits(Visiting, batch)
      BY <2>1, VisitingInPass DEF Shape, SendingFits
    <3>2. FitsIn(batch, events'[Visiting], Len(log'[Visiting]))
      BY <1>0, <3>1, FitsKept
    <3>3. pc = "answered" => batch \subseteq 1..Len(log'[Visiting])
      <4>1. /\ Len(log[Visiting]) \in Nat /\ Len(log'[Visiting]) \in Nat
            /\ Len(log[Visiting]) <= Len(log'[Visiting])
        BY <1>0, <3>1 DEF Grows, Shape
      <4> QED
        BY <4>1 DEF SendingFits, Logged
    <3>4. Visiting' = Visiting
      BY <1>1 DEF Visiting
    <3> QED
      BY <1>1, <3>2, <3>3, <3>4 DEF SendingFits, Fits, Logged
  <2>2. CASE pc \notin {"send", "answered"}
    BY <1>1, <2>2 DEF SendingFits
  <2> QED
    BY <2>1, <2>2
<1>2. CASE pc' \in {"sleep", "visit"}
  BY <1>2 DEF SendingFits
<1>3. CASE sync_transfer_events /\ pc' = "send"
  <2>1. Visiting \in Transfers /\ Fits(Visiting, pending_transfer_events(Visiting))
    BY <1>3, VisitingInPass, PendingFits DEF sync_transfer_events
  <2>2. /\ batch' = pending_transfer_events(Visiting) /\ UNCHANGED <<pass, events, log>>
        /\ pc' = "send"
    BY <1>3 DEF sync_transfer_events, Visited, sqlite, registry
  <2>3. Visiting' = Visiting
    BY <2>2 DEF Visiting
  <2> QED
    BY <2>1, <2>2, <2>3 DEF SendingFits, Fits
<1>4. CASE Send /\ pc' = "answered"
  <2>1. Visiting \in Transfers /\ Fits(Visiting, batch)
    BY <1>4, VisitingInPass DEF Send, Shape, SendingFits
  <2>2. ingest_events(Visiting, batch) /\ UNCHANGED <<pass, batch>>
    BY <1>4 DEF Send, Visited
  <2>3. batch \subseteq 1..Len(log'[Visiting])
    BY <2>1, <2>2, IngestedInOrder
  <2>4. FitsIn(batch, events'[Visiting], Len(log'[Visiting]))
    BY <1>0, <2>1, FitsKept
  <2>5. Visiting' = Visiting
    BY <2>2 DEF Visiting
  <2> QED
    BY <2>2, <2>3, <2>4, <2>5 DEF SendingFits, Fits, Logged
<1> QED
  BY <1>1, <1>2, <1>3, <1>4
  DEF Next, LoopStep, vars, loop, sync_pending_transfer_events, sync_transfer_events, Visited, Send,
      pass_ends, pass_fails, acknowledge_transfer_events, bind_registry_transfer, clear_transfer,
      record_transfer_event, RegistryRefuses, LateRequestArrives, Crash

(* A request that is given up was a batch that fits. *)
LEMMA NextLateFits ==
  ASSUME IInv, [Next]_vars
  PROVE  LateFits'
<1> USE DEF IInv
<1>1. \/ late' \subseteq late
      \/ pc = "send" /\ late' \subseteq late \cup {[transfer |-> Visiting, batch |-> batch]}
  BY DEF Next, LoopStep, vars, sync_pending_transfer_events, sync_transfer_events, Send,
         pass_ends, pass_fails, acknowledge_transfer_events, bind_registry_transfer, clear_transfer,
         record_transfer_event, RegistryRefuses, LateRequestArrives, Crash
<1>2. ASSUME NEW m \in late' PROVE m.transfer \in Transfers /\ Fits(m.transfer, m.batch)
  <2>1. CASE m \in late
    BY <2>1 DEF LateFits
  <2>2. CASE pc = "send" /\ m = [transfer |-> Visiting, batch |-> batch]
    BY <2>2, VisitingInPass DEF Shape, SendingFits
  <2> QED
    BY <1>1, <2>1, <2>2
<1>3. ASSUME NEW m \in late' PROVE FitsIn(m.batch, events'[m.transfer], Len(log'[m.transfer]))
  BY <1>2, NextGrows, FitsKept
<1> QED
  BY <1>2, <1>3 DEF LateFits, Fits

(* acknowledge_transfer_events marks what the answer named. *)
LEMMA NextSyncedInLog ==
  ASSUME IInv, [Next]_vars
  PROVE  SyncedInLog'
<1> USE DEF IInv
<1>0. Grows
  BY NextGrows
<1> SUFFICES ASSUME NEW t \in Transfers PROVE synced'[t] \subseteq 1..Len(log'[t])
  BY DEF SyncedInLog, Logged
<1>1. Len(log[t]) \in Nat /\ Len(log'[t]) \in Nat /\ Len(log[t]) <= Len(log'[t])
  BY <1>0 DEF Grows, Shape
<1>2. synced[t] \subseteq 1..Len(log'[t])
  BY <1>1 DEF SyncedInLog, Logged
<1>3. CASE acknowledge_transfer_events
  <2>1. batch \subseteq 1..Len(log[Visiting])
    BY <1>3 DEF acknowledge_transfer_events, SendingFits, Logged
  <2>2. synced' = synced \/ synced' = [synced EXCEPT ![Visiting] = @ \cup batch]
    BY <1>3 DEF acknowledge_transfer_events, Acknowledged
  <2>3. CASE t = Visiting
    <3>1. batch \subseteq 1..Len(log'[t])
      BY <1>1, <2>1, <2>3
    <3>2. synced'[t] = synced[t] \/ synced'[t] = synced[t] \cup batch
      BY <2>2, <2>3 DEF Shape
    <3> QED
      BY <1>2, <3>1, <3>2
  <2>4. CASE t # Visiting
    <3>1. synced'[t] = synced[t]
      BY <2>2, <2>4 DEF Shape
    <3> QED
      BY <1>2, <3>1
  <2> QED
    BY <2>3, <2>4
<1>4. CASE UNCHANGED synced
  BY <1>2, <1>4
<1> QED
  BY <1>3, <1>4
  DEF Next, LoopStep, vars, sqlite, sync_pending_transfer_events, sync_transfer_events, Send,
      pass_ends, pass_fails, bind_registry_transfer, clear_transfer,
      record_transfer_event, RegistryRefuses, LateRequestArrives, Crash

LEMMA InitIInv == Init => IInv
<1> SUFFICES ASSUME Init PROVE IInv
  OBVIOUS
<1>1. Shape
  BY DEF Init, Shape
<1>2. LoggedInOrder /\ SyncedInLog
  BY DEF Init, LoggedInOrder, SyncedInLog, Logged
<1>3. SendingFits /\ LateFits
  BY DEF Init, SendingFits, LateFits
<1> QED
  BY <1>1, <1>2, <1>3 DEF IInv

(* The invariant holds in every reachable state. *)
LEMMA Invariance == Spec => []IInv
<1>1. IInv /\ [Next]_vars => IInv'
  BY NextGrows, NextShape, NextSendingFits, NextLateFits, NextSyncedInLog DEF IInv, Grows
<1> QED
  BY InitIInv, <1>1, PTL DEF Spec

-----------------------------------------------------------------------------
(* ingest_events never leaves a gap, a second copy or another order in the Registry's log,
   whatever is sent again, arrives late or overlaps.                                      *)
THEOREM LogsAreInOrder == Spec => []LogIsPrefix
<1>1. IInv => LogIsPrefix
  BY DEF IInv, LoggedInOrder, Logged, LogIsPrefix
<1> QED
  BY Invariance, <1>1, PTL

(* acknowledge_transfer_events marks an event as sent only when the Registry has it. *)
THEOREM SentIsInTheLog == Spec => []SyncedIsLogged
<1>1. ASSUME IInv PROVE SyncedIsLogged
  <2> SUFFICES ASSUME NEW t \in Transfers PROVE synced[t] \subseteq ToSet(log[t])
    BY DEF SyncedIsLogged
  <2>1. log[t] \in Seq(Nat)
    BY <1>1 DEF IInv, Shape
  <2>2. ToSet(log[t]) = 1..Len(log[t])
    BY <1>1, <2>1 DEF IInv, LoggedInOrder, Logged, ToSet
  <2> QED
    BY <1>1, <2>2 DEF IInv, SyncedInLog, Logged
<1> QED
  BY Invariance, <1>1, PTL
=============================================================================
