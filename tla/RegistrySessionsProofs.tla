----------------------- MODULE RegistrySessionsProofs -----------------------
(***************************************************************************)
(* Proofs about RegistrySessions, for any number of callers, people and    *)
(* uses of the invitation, and any number of failures: first the types and *)
(* the use limit of an invitation, then the tokens.                        *)
(*                                                                         *)
(* The use limit is not inductive: an exchange writes the number of uses   *)
(* it read when it took the invitation's row, so that number has to be     *)
(* still the one recorded, and below the limit, until it is written.       *)
(***************************************************************************)
EXTENDS RegistrySessions, SequenceTheorems, FiniteSetTheorems, TLAPS

Row  == [token : Tokens, revoked : BOOLEAN]
Proc == [pc : PCs, own : Tokens \cup {None}, got : Tokens \cup {None}, seen : Nat]

UsesCounted ==
    /\ Len(sessions) = invitation.uses
    /\ invitation.uses <= MaximumUses

(* Who is in an exchange holds the row, and what it read is still true. *)
ExchangesAlone ==
    \A p \in People : procs[p].pc = "exchange" =>
        rowlock = p /\ procs[p].seen = invitation.uses /\ invitation.uses < MaximumUses

IInv == TypeOK /\ UsesCounted /\ ExchangesAlone

-----------------------------------------------------------------------------
(* Sequences of rows *)

(* A row added, a token rotated and all rows revoked: rows again, of which only the first
   has one more.                                                                          *)
LEMMA AddedRow ==
  ASSUME NEW s \in Seq(Row), NEW t \in Tokens
  PROVE  /\ Append(s, [token |-> t, revoked |-> FALSE]) \in Seq(Row)
         /\ Len(Append(s, [token |-> t, revoked |-> FALSE])) = Len(s) + 1
<1>1. [token |-> t, revoked |-> FALSE] \in Row
  BY DEF Row
<1> QED
  BY <1>1, AppendProperties

LEMMA RotatedRow ==
  ASSUME NEW s \in Seq(Row), NEW r \in DOMAIN s, NEW t \in Tokens
  PROVE  /\ [s EXCEPT ![r].token = t] \in Seq(Row)
         /\ Len([s EXCEPT ![r].token = t]) = Len(s)
<1>1. r \in 1..Len(s) /\ s[r] \in Row
  BY LenProperties
<1>2. [s[r] EXCEPT !.token = t] \in Row
  BY <1>1 DEF Row
<1>3. /\ [s EXCEPT ![r] = [s[r] EXCEPT !.token = t]] \in Seq(Row)
      /\ Len([s EXCEPT ![r] = [s[r] EXCEPT !.token = t]]) = Len(s)
  <2> DEFINE e == [s[r] EXCEPT !.token = t]
  <2> HIDE DEF e
  <2>1. e \in Row
    BY <1>2 DEF e
  <2>2. [s EXCEPT ![r] = e] \in Seq(Row) /\ Len([s EXCEPT ![r] = e]) = Len(s)
    BY <1>1, <2>1, ExceptSeq
  <2> QED
    BY <2>2 DEF e
<1>4. [s EXCEPT ![r].token = t] = [s EXCEPT ![r] = [s[r] EXCEPT !.token = t]]
  OBVIOUS
<1> QED
  BY <1>3, <1>4, Zenon

LEMMA RevokedRows ==
  ASSUME NEW s \in Seq(Row)
  PROVE  LET z == [r \in DOMAIN s |-> [s[r] EXCEPT !.revoked = TRUE]] IN
         z \in Seq(Row) /\ Len(z) = Len(s)
<1> DEFINE z == [r \in DOMAIN s |-> [s[r] EXCEPT !.revoked = TRUE]]
<1>1. DOMAIN s = 1..Len(s) /\ Len(s) \in Nat
  BY LenProperties
<1>2. ASSUME NEW r \in DOMAIN s PROVE [s[r] EXCEPT !.revoked = TRUE] \in Row
  <2>1. s[r] \in Row
    BY <1>1, ElementOfSeq
  <2> QED
    BY <2>1 DEF Row
<1>3. z \in [1..Len(s) -> Row]
  BY <1>1, <1>2
<1>4. z \in Seq(Row)
  BY <1>1, <1>3, SeqDef
<1>5. DOMAIN z = 1..Len(s) /\ DOMAIN z = 1..Len(z) /\ Len(z) \in Nat
  BY <1>1, <1>4, LenProperties
<1>6. Len(z) = Len(s)
  <2> HIDE DEF z
  <2> QED
    BY <1>1, <1>5
<1> QED
  BY <1>4, <1>6

-----------------------------------------------------------------------------
(* The turn of one actor: what it may do to the gate and to its own state *)

Turn(a) ==
    /\ procs' = [procs EXCEPT ![a] = procs'[a]]
    /\ procs'[a] \in Proc
    /\ procs'[a].pc = "load" => gate' = a
    /\ \/ gate' = gate
       \/ gate = a /\ gate' = Nobody
       \/ gate = Nobody /\ gate' = a /\ a \in Callers

(* The others keep their state and the gate. *)
LEMMA TurnKeepsActors ==
  ASSUME TypeOK, NEW a \in Actors, Turn(a)
  PROVE  /\ procs' \in [Actors -> Proc]
         /\ gate' \in Callers \cup {Nobody}
         /\ \A c \in Callers : procs'[c].pc = "load" => gate' = c
         /\ \A p \in Actors : p # a => procs'[p] = procs[p]
<1>1. procs \in [Actors -> Proc] /\ gate \in Callers \cup {Nobody}
  BY DEF TypeOK, Proc
<1>2. procs' \in [Actors -> Proc] /\ \A p \in Actors : p # a => procs'[p] = procs[p]
  BY <1>1 DEF Turn
<1>3. gate' \in Callers \cup {Nobody}
  BY <1>1 DEF Turn
<1>4. ASSUME NEW c \in Callers, procs'[c].pc = "load" PROVE gate' = c
  <2>1. c \in Actors /\ c # Nobody
    BY SessionsAssumption DEF Actors
  <2>2. CASE c = a
    BY <2>2, <1>4 DEF Turn
  <2>3. CASE c # a
    <3>1. gate = c
      BY <2>1, <2>3, <1>2, <1>4 DEF TypeOK
    <3> QED
      BY <3>1, <2>1, <2>3 DEF Turn
  <2> QED
    BY <2>2, <2>3
<1> QED
  BY <1>2, <1>3, <1>4

(* The end of a call is a turn, and so is a step to another place that is not the lookup. *)
LEMMA TurnsOfACall ==
  ASSUME TypeOK, NEW a \in Actors
  PROVE  /\ Returns(a) => Turn(a) /\ procs'[a].pc = "idle"
         /\ Stops(a) /\ gate' = gate => Turn(a) /\ procs'[a].pc = "idle"
         /\ \A pc \in PCs \ {"load", "exchange"} :
              Goto(a, pc) /\ (gate' = gate \/ Release(a)) => Turn(a) /\ procs'[a].pc = pc
<1>1. procs \in [Actors -> Proc] /\ gate \in Callers \cup {Nobody}
  BY DEF TypeOK, Proc
<1>2. Idle \in Proc /\ Idle.pc = "idle"
  BY DEF Idle, Proc, PCs, None
<1>3. Release(a) => gate' = gate \/ (gate = a /\ gate' = Nobody)
  BY DEF Release
<1>4. Stops(a) => /\ procs' = [procs EXCEPT ![a] = procs'[a]]
                  /\ procs'[a] = Idle
  BY <1>1 DEF Stops
<1>5. ASSUME NEW pc \in PCs, Goto(a, pc)
      PROVE  /\ procs' = [procs EXCEPT ![a] = procs'[a]]
             /\ procs'[a] \in Proc /\ procs'[a].pc = pc
  BY <1>1, <1>5 DEF Goto, Proc
<1> QED
  BY <1>2, <1>3, <1>4, <1>5 DEF Turn, Returns

-----------------------------------------------------------------------------
(* A turn that leaves the invitation alone *)

Values ==
    /\ born \in [Tokens -> Nat] /\ clock \in Nat /\ trouble \in Nat
    /\ vault \in Tokens \cup {None} /\ fallback \in Tokens \cup {None}
    /\ cache \in Tokens \cup {None} /\ meta \in Tokens \cup {None}
    /\ active \in BOOLEAN /\ unlocked \in BOOLEAN
    /\ forfeited \in BOOLEAN /\ crossed \in BOOLEAN

(* It may make tokens and rotate them, as long as the number of sessions stays. *)
LEMMA TurnKeepsInvariant ==
  ASSUME IInv, NEW a \in Actors, Turn(a), procs'[a].pc # "exchange",
         UNCHANGED <<invitation, rowlock>>,
         sessions' \in Seq(Row), Len(sessions') = Len(sessions), Values'
  PROVE  IInv'
<1>1. TypeOK'
  BY TurnKeepsActors DEF IInv, TypeOK, Values, Row, Proc
<1>2. UsesCounted'
  BY DEF IInv, UsesCounted
<1>3. ExchangesAlone'
  BY TurnKeepsActors DEF IInv, ExchangesAlone, Actors
<1> QED
  BY <1>1, <1>2, <1>3 DEF IInv

LEMMA RowsAndValues ==
  ASSUME TypeOK
  PROVE  sessions \in Seq(Row) /\ Values /\ procs \in [Actors -> Proc]
  BY DEF TypeOK, Values, Row, Proc

LEMMA TroubleIsCounted ==
  ASSUME TypeOK
  PROVE  Trouble => trouble' \in Nat
  BY DEF TypeOK, Trouble

-----------------------------------------------------------------------------
(* Saving a session *)

LEMMA SaveVault ==
  ASSUME IInv, NEW a \in Callers \cup {User}, save_vault(a)
  PROVE  IInv'
<1>1. a \in Actors /\ TypeOK
  BY DEF Actors, People, IInv
<1>2. Turn(a) /\ procs'[a].pc # "exchange"
  BY <1>1, TurnsOfACall DEF save_vault, PCs
<1>3. procs[a].got \in Tokens \cup {None}
  BY <1>1, RowsAndValues DEF Proc
<1>4. Forfeits(a) => forfeited' \in BOOLEAN
  BY <1>1 DEF Forfeits, TypeOK
<1>5. Values'
  BY <1>1, <1>3, <1>4, RowsAndValues, TroubleIsCounted DEF save_vault, Values, history, registry
<1> QED
  BY <1>1, <1>2, <1>5, RowsAndValues, TurnKeepsInvariant DEF save_vault, registry

LEMMA SaveCache ==
  ASSUME IInv, NEW a \in Callers \cup {User}, save_cache(a)
  PROVE  IInv'
<1>1. a \in Actors /\ TypeOK
  BY DEF Actors, People, IInv
<1>2. Turn(a) /\ procs'[a].pc # "exchange"
  BY <1>1, TurnsOfACall DEF save_cache, PCs
<1>3. Values'
  BY <1>1, RowsAndValues DEF save_cache, Values, history, registry, Proc
<1> QED
  BY <1>1, <1>2, <1>3, RowsAndValues, TurnKeepsInvariant DEF save_cache, registry

LEMMA SaveMeta ==
  ASSUME IInv, NEW a \in Callers \cup {User}, save_meta(a)
  PROVE  IInv'
<1>1. a \in Actors /\ TypeOK
  BY DEF Actors, People, IInv
<1>2. procs[a].got \in Tokens \cup {None}
  BY <1>1, RowsAndValues DEF Proc
<1>3. Turn(a) /\ procs'[a].pc # "exchange"
  <2>1. CASE Returns(a)
    BY <2>1, <1>1, TurnsOfACall
  <2>2. CASE ~Returns(a)
    <3> DEFINE next == [Idle EXCEPT
                  !.own = procs[a].got,
                  !.pc = IF a = User THEN "activate" ELSE IF gate = a THEN "client" ELSE "retry"]
    <3>1. procs' = [procs EXCEPT ![a] = next] /\ Release(a)
      BY <2>2 DEF save_meta
    <3>2. next \in Proc /\ next.pc \notin {"load", "exchange"}
      BY <1>2 DEF Idle, Proc, PCs, None
    <3> HIDE DEF next
    <3>3. procs'[a] = next
      BY <3>1, <1>1, RowsAndValues
    <3> QED
      BY <3>1, <3>2, <3>3 DEF Turn, Release
  <2> QED
    BY <2>1, <2>2
<1>4. Values'
  BY <1>1, <1>2, RowsAndValues, TroubleIsCounted DEF save_meta, Values, history, registry
<1> QED
  BY <1>1, <1>3, <1>4, RowsAndValues, TurnKeepsInvariant DEF save_meta, registry

LEMMA Activate ==
  ASSUME IInv, set_active_registry_session(User)
  PROVE  IInv'
<1>1. User \in Actors /\ TypeOK
  BY DEF Actors, People, IInv
<1>2. Turn(User) /\ procs'[User].pc # "exchange"
  BY <1>1, TurnsOfACall DEF set_active_registry_session
<1>3. Values'
  BY <1>1, RowsAndValues DEF set_active_registry_session, Values, history, registry
<1> QED
  BY <1>1, <1>2, <1>3, RowsAndValues, TurnKeepsInvariant DEF set_active_registry_session, registry

-----------------------------------------------------------------------------
(* The lookup *)

LEMMA LoadedTypes ==
  ASSUME TypeOK
  PROVE  Loaded \in Proc
<1>1. Credentials \in Tokens \cup {None} /\ Persisted \in Tokens \cup {None}
  BY DEF TypeOK, Credentials, Persisted
<1> QED
  BY <1>1 DEF Loaded, Idle, Proc, PCs, None

LEMMA Unlock ==
  ASSUME IInv, authenticate_device \/ authenticate_device_loaded
  PROVE  IInv'
<1>1. User \in Actors /\ TypeOK /\ procs \in [Actors -> Proc]
  BY RowsAndValues DEF Actors, People, IInv
<1>2. CASE authenticate_device /\ active
  <2> DEFINE next == [Loaded EXCEPT !.pc = "unlock"]
  <2>1. procs' = [procs EXCEPT ![User] = next] /\ gate' = gate
    BY <1>2 DEF authenticate_device
  <2>2. next \in Proc /\ next.pc \notin {"load", "exchange"}
    BY <1>1, LoadedTypes DEF Proc, PCs
  <2> HIDE DEF next
  <2>3. Turn(User) /\ procs'[User].pc # "exchange"
    BY <1>1, <2>1, <2>2 DEF Turn
  <2>4. Values'
    BY <1>1, <1>2, RowsAndValues DEF authenticate_device, Values, history, registry
  <2> QED
    BY <1>1, <1>2, <2>3, <2>4, RowsAndValues, TurnKeepsInvariant DEF authenticate_device, registry
<1>3. CASE authenticate_device /\ ~active
  <2>1. Turn(User) /\ procs'[User].pc # "exchange"
    BY <1>1, <1>3 DEF authenticate_device, Turn, Proc
  <2>2. Values'
    BY <1>1, <1>3, RowsAndValues DEF authenticate_device, Values, history, registry
  <2> QED
    BY <1>1, <1>3, <2>1, <2>2, RowsAndValues, TurnKeepsInvariant DEF authenticate_device, registry
<1>4. CASE authenticate_device_loaded
  <2>1. Turn(User) /\ procs'[User].pc # "exchange"
    BY <1>1, <1>4, TurnsOfACall DEF authenticate_device_loaded
  <2>2. Values'
    BY <1>1, <1>4, RowsAndValues DEF authenticate_device_loaded, Caches, Values, history, registry, Proc
  <2> QED
    BY <1>1, <1>4, <2>1, <2>2, RowsAndValues, TurnKeepsInvariant DEF authenticate_device_loaded, registry
<1> QED
  BY <1>2, <1>3, <1>4

LEMMA Lookup ==
  ASSUME IInv, NEW c \in Callers, active_registry_session(c)
  PROVE  IInv'
<1>1. c \in Actors /\ TypeOK /\ procs \in [Actors -> Proc]
  BY RowsAndValues DEF Actors, IInv
<1> DEFINE next == [Loaded EXCEPT !.pc = "load", !.seen = registry_session]
<1>2. procs' = [procs EXCEPT ![c] = next] /\ gate = Nobody /\ gate' = c
  BY DEF active_registry_session, GateOpen
<1>3. meta \in Nat
  BY <1>1 DEF TypeOK, None, Tokens
<1>4. next \in Proc /\ next.pc # "exchange"
  BY <1>1, <1>3, LoadedTypes DEF Proc, PCs, registry_session
<1> HIDE DEF next
<1>5. Turn(c) /\ procs'[c].pc # "exchange"
  BY <1>1, <1>2, <1>4 DEF Turn
<1>6. Values'
  BY <1>1, RowsAndValues DEF active_registry_session, Values, history, registry, storage
<1> QED
  BY <1>1, <1>5, <1>6, RowsAndValues, TurnKeepsInvariant DEF active_registry_session, registry

LEMMA Client ==
  ASSUME IInv, NEW c \in Callers, registry_client(c)
  PROVE  IInv'
<1>1. c \in Actors /\ TypeOK /\ procs \in [Actors -> Proc]
  BY RowsAndValues DEF Actors, IInv
<1>2. Turn(c) /\ procs'[c].pc # "exchange"
  BY <1>1, TurnsOfACall DEF registry_client, PCs
<1>3. Values'
  BY <1>1, RowsAndValues DEF registry_client, Caches, Values, history, registry, Proc
<1> QED
  BY <1>1, <1>2, <1>3, RowsAndValues, TurnKeepsInvariant DEF registry_client, registry

-----------------------------------------------------------------------------
(* Requests and renewal *)

LEMMA Request ==
  ASSUME IInv, NEW c \in Callers, send_json(c) \/ send_json_again(c)
  PROVE  IInv'
<1>1. c \in Actors /\ TypeOK /\ procs \in [Actors -> Proc]
  BY RowsAndValues DEF Actors, IInv
<1>2. /\ UNCHANGED <<registry, clock, storage, gate, history, trouble>>
      /\ Stops(c) \/ Goto(c, "refresh") \/ Goto(c, "client")
  BY DEF send_json, send_json_again
<1>3. Turn(c) /\ procs'[c].pc # "exchange"
  BY <1>1, <1>2, TurnsOfACall DEF PCs
<1>4. Values'
  BY <1>1, <1>2, RowsAndValues DEF Values, history, registry, storage
<1> QED
  BY <1>1, <1>2, <1>3, <1>4, RowsAndValues, TurnKeepsInvariant DEF registry

(* The Registry answers with a new token, or refuses, or nothing comes back. *)
LEMMA Refresh ==
  ASSUME IInv, NEW c \in Callers, refresh_session(c)
  PROVE  IInv'
<1>1. c \in Actors /\ TypeOK /\ procs \in [Actors -> Proc]
  BY RowsAndValues DEF Actors, IInv
<1>2. Turn(c) /\ procs'[c].pc # "exchange"
  <2>1. GivesUp(c) \/ Returns(c) => Turn(c) /\ procs'[c].pc # "exchange"
    BY <1>1, TurnsOfACall DEF GivesUp, PCs
  <2>2. CASE /\ procs' = [procs EXCEPT ![c].pc = "save_vault", ![c].got = Fresh]
             /\ UNCHANGED gate
             /\ Fresh \in Tokens
    BY <1>1, <2>2 DEF Turn, Proc, PCs
  <2> QED
    BY <2>1, <2>2 DEF refresh_session, Rotate
<1>3. /\ UNCHANGED <<invitation, rowlock, clock, storage, crossed>>
      /\ \/ UNCHANGED <<sessions, born>>
         \/ \E r \in Rows : Rotate(r)
      /\ forfeited' = forfeited \/ Forfeits(c)
      /\ trouble' = trouble \/ Trouble
  <2>1. Renewable(procs[c].own) \subseteq Rows
    BY DEF Renewable
  <2> QED
    BY <2>1 DEF refresh_session, Rotate, registry
<1>4. sessions' \in Seq(Row) /\ Len(sessions') = Len(sessions)
  BY <1>1, <1>3, RowsAndValues, RotatedRow DEF Rotate, Rows
<1>5. born' \in [Tokens -> Nat]
  BY <1>1, <1>3, RowsAndValues DEF Rotate, MakeToken, Values, history
<1>6. forfeited' \in BOOLEAN /\ trouble' \in Nat
  BY <1>1, <1>3, TroubleIsCounted DEF Forfeits, TypeOK
<1>7. Values'
  BY <1>1, <1>3, <1>5, <1>6, RowsAndValues DEF Values, history, storage
<1> QED
  BY <1>1, <1>2, <1>3, <1>4, <1>7, TurnKeepsInvariant

-----------------------------------------------------------------------------
(* Exchanges of the invitation *)

(* The row is free, so nobody else is in an exchange, and the uses read are below the limit. *)
LEMMA ExchangeBegins ==
  ASSUME IInv, NEW p \in People, exchange_invitation_check(p)
  PROVE  IInv'
<1>1. p \in Actors /\ p # Nobody /\ TypeOK /\ procs \in [Actors -> Proc]
  BY RowsAndValues, SessionsAssumption DEF Actors, People, IInv
<1>2. /\ procs' = [procs EXCEPT ![p].pc = "exchange", ![p].seen = invitation.uses]
      /\ rowlock = Nobody /\ rowlock' = p /\ invitation.uses < MaximumUses
      /\ UNCHANGED <<invitation, sessions, born, clock, storage, gate, history, trouble>>
  BY DEF exchange_invitation_check, RowUnlocked
<1>3. /\ procs'[p].pc = "exchange" /\ procs'[p].seen = invitation.uses
      /\ procs'[p] \in Proc /\ procs' = [procs EXCEPT ![p] = procs'[p]]
  <2> DEFINE next == [procs[p] EXCEPT !.pc = "exchange", !.seen = invitation.uses]
  <2>1. procs[p] \in Proc /\ invitation.uses \in Nat
    BY <1>1 DEF TypeOK
  <2>2. next \in Proc /\ next.pc = "exchange" /\ next.seen = invitation.uses
    BY <2>1 DEF Proc, PCs
  <2>3. procs' = [procs EXCEPT ![p] = next]
    BY <1>1, <1>2, <2>1 DEF Proc
  <2> HIDE DEF next
  <2> QED
    BY <1>1, <2>2, <2>3
<1>4. Turn(p)
  BY <1>2, <1>3 DEF Turn
<1>5. TypeOK'
  BY <1>1, <1>2, <1>4, TurnKeepsActors DEF TypeOK, storage, history, Proc
<1>6. UsesCounted'
  BY <1>2 DEF IInv, UsesCounted
<1>7. ASSUME NEW q \in People, q # p PROVE procs'[q].pc # "exchange"
  <2>1. q # Nobody /\ q \in Actors
    BY SessionsAssumption DEF People, Actors
  <2>2. procs'[q] = procs[q]
    BY <1>1, <1>4, <1>7, <2>1, TurnKeepsActors
  <2> QED
    BY <1>2, <2>1, <2>2 DEF IInv, ExchangesAlone
<1>8. ExchangesAlone'
  BY <1>2, <1>3, <1>7 DEF ExchangesAlone
<1> QED
  BY <1>5, <1>6, <1>8 DEF IInv

(* One session more, one use more: the number read was the number recorded. *)
LEMMA ExchangeEnds ==
  ASSUME IInv, NEW p \in People, exchange_invitation_commit(p)
  PROVE  IInv'
<1>1. p \in Actors /\ TypeOK /\ procs \in [Actors -> Proc]
  BY RowsAndValues DEF Actors, People, IInv
<1>2. /\ rowlock = p /\ procs[p].seen = invitation.uses
      /\ invitation.uses < MaximumUses /\ invitation.uses \in Nat
  BY <1>1 DEF exchange_invitation_commit, IInv, ExchangesAlone, TypeOK
<1>3. /\ invitation' = [invitation EXCEPT !.uses = procs[p].seen + 1]
      /\ rowlock' = Nobody /\ Fresh \in Tokens
      /\ sessions' = Append(sessions, [token |-> Fresh, revoked |-> FALSE])
      /\ born' = [born EXCEPT ![Fresh] = clock]
      /\ trouble' = trouble \/ Trouble
      /\ UNCHANGED <<clock, storage, gate, history>>
  BY DEF exchange_invitation_commit, MakeToken
<1>4. Turn(p) /\ procs'[p].pc # "exchange"
  <2>1. CASE Stops(p)
    BY <1>1, <1>3, <2>1, TurnsOfACall
  <2>2. CASE procs' = [procs EXCEPT ![p] = [Idle EXCEPT !.pc = "save_vault", !.got = Fresh]]
    <3> DEFINE next == [Idle EXCEPT !.pc = "save_vault", !.got = Fresh]
    <3>1. next \in Proc /\ next.pc \notin {"load", "exchange"}
      BY <1>3 DEF Idle, Proc, PCs, None
    <3>2. procs' = [procs EXCEPT ![p] = next]
      BY <2>2
    <3> HIDE DEF next
    <3> QED
      BY <1>1, <1>3, <3>1, <3>2 DEF Turn
  <2> QED
    BY <2>1, <2>2 DEF exchange_invitation_commit
<1>5. sessions' \in Seq(Row) /\ Len(sessions') = Len(sessions) + 1
  BY <1>1, <1>3, RowsAndValues, AddedRow
<1>6. /\ invitation' \in [uses : Nat, revoked : BOOLEAN]
      /\ invitation'.uses = invitation.uses + 1
  <2>1. invitation \in [uses : Nat, revoked : BOOLEAN]
    BY <1>1 DEF TypeOK
  <2> QED
    BY <1>2, <1>3, <2>1
<1>7. Values'
  BY <1>1, <1>3, RowsAndValues, TroubleIsCounted DEF Values, history, storage
<1>8. TypeOK'
  BY <1>1, <1>3, <1>4, <1>5, <1>6, <1>7, TurnKeepsActors DEF TypeOK, Values, Row, Proc
<1>9. UsesCounted'
  BY <1>2, <1>5, <1>6, SessionsAssumption DEF IInv, UsesCounted
<1>10. ExchangesAlone'
  <2>1. \A q \in People : q # p => procs'[q].pc # "exchange"
    <3>1. \A q \in People : q # p => procs'[q] = procs[q]
      BY <1>1, <1>4, TurnKeepsActors DEF Actors
    <3> QED
      BY <1>2, <3>1 DEF IInv, ExchangesAlone
  <2> QED
    BY <1>4, <2>1 DEF ExchangesAlone
<1> QED
  BY <1>8, <1>9, <1>10 DEF IInv

-----------------------------------------------------------------------------
(* The administrator, time and crashes *)

LEMMA Administration ==
  ASSUME IInv, revoke_invitation \/ update_invitation
  PROVE  IInv'
<1>1. TypeOK /\ sessions \in Seq(Row)
  BY RowsAndValues DEF IInv
<1>2. /\ rowlock = Nobody /\ trouble' \in Nat
      /\ UNCHANGED <<rowlock, born, clock, storage, gate, procs, history>>
  BY <1>1, TroubleIsCounted DEF revoke_invitation, update_invitation, RowUnlocked
<1>3. /\ invitation' \in [uses : Nat, revoked : BOOLEAN]
      /\ invitation'.uses = invitation.uses
  BY <1>1 DEF revoke_invitation, update_invitation, TypeOK
<1>4. sessions' \in Seq(Row) /\ Len(sessions') = Len(sessions)
  BY <1>1, RevokedRows DEF revoke_invitation, update_invitation, Rows
<1>5. TypeOK'
  BY <1>1, <1>2, <1>3, <1>4 DEF TypeOK, storage, history, Row
<1>6. UsesCounted'
  BY <1>3, <1>4 DEF IInv, UsesCounted
<1>7. ExchangesAlone'
  BY <1>2, <1>3 DEF IInv, ExchangesAlone
<1> QED
  BY <1>5, <1>6, <1>7 DEF IInv

(* The person's exchange ends with Courier, and its lock on the row with it. *)
LEMMA CourierDies ==
  ASSUME IInv, Crash
  PROVE  IInv'
<1>1. TypeOK /\ procs \in [Actors -> Proc]
  BY RowsAndValues DEF IInv
<1>2. Idle \in Proc /\ Idle.pc = "idle"
  BY DEF Idle, Proc, PCs, None
<1>3. procs' = [a \in Actors |-> IF a \in Others THEN procs[a] ELSE Idle]
  BY DEF Crash
<1> HIDE DEF Idle
<1>4. procs' \in [Actors -> Proc]
  BY <1>1, <1>2, <1>3
<1>5. \A c \in Callers : procs'[c].pc = "idle"
  BY <1>2, <1>3, SessionsAssumption DEF Actors
<1>6. trouble' \in Nat /\ forfeited' \in BOOLEAN
  BY <1>1, TroubleIsCounted DEF Crash, TypeOK
<1>7. rowlock' \in People \cup {Nobody}
  BY <1>1 DEF Crash, TypeOK
<1>8. TypeOK'
  <2>1. cache' = None /\ unlocked' = ~DeviceLock /\ gate' = Nobody /\ crossed' = FALSE
        /\ UNCHANGED <<invitation, sessions, born, clock, vault, fallback, meta, active>>
    BY DEF Crash
  <2> QED
    BY <1>1, <1>4, <1>5, <1>6, <1>7, <2>1 DEF TypeOK, Proc
<1>9. UsesCounted'
  BY DEF Crash, IInv, UsesCounted
<1>10. ExchangesAlone'
  <2>1. ASSUME NEW p \in People, procs'[p].pc = "exchange" PROVE p \in Others /\ procs'[p] = procs[p]
    BY <1>2, <1>3, <2>1 DEF Actors
  <2>2. \A p \in Others : p # User
    BY SessionsAssumption
  <2>3. rowlock' = IF rowlock = User THEN Nobody ELSE rowlock
    BY DEF Crash
  <2>4. invitation' = invitation
    BY DEF Crash
  <2> QED
    BY <2>1, <2>2, <2>3, <2>4 DEF IInv, ExchangesAlone
<1> QED
  BY <1>8, <1>9, <1>10 DEF IInv

-----------------------------------------------------------------------------
LEMMA OtherInvitation ==
  ASSUME IInv, exchange_other_invitation
  PROVE  IInv'
<1>1. /\ UNCHANGED <<registry, clock, vault, fallback, cache, meta, gate, procs, history>>
      /\ active' = FALSE /\ unlocked' = TRUE /\ trouble' \in Nat
  BY TroubleIsCounted DEF IInv, exchange_other_invitation
<1> QED
  BY <1>1 DEF IInv, TypeOK, UsesCounted, ExchangesAlone, registry, history

LEMMA Initially ==
  ASSUME Init
  PROVE  IInv
<1>1. Idle \in Proc /\ Idle.pc = "idle"
  BY DEF Idle, Proc, PCs, None
<1> HIDE DEF Idle
<1>2. procs \in [Actors -> Proc] /\ \A a \in Actors : procs[a].pc = "idle"
  BY <1>1 DEF Init
<1>3. sessions \in Seq(Row) /\ Len(sessions) = 0
  BY EmptySeq DEF Init
<1>4. TypeOK
  BY <1>2, <1>3, SessionsAssumption DEF Init, TypeOK, Actors, Row, Proc, None
<1>5. UsesCounted
  BY <1>3, SessionsAssumption DEF Init, UsesCounted
<1>6. ExchangesAlone
  BY <1>2 DEF ExchangesAlone, Actors
<1> QED
  BY <1>4, <1>5, <1>6 DEF IInv

LEMMA EveryStep ==
  ASSUME IInv, [Next]_vars
  PROVE  IInv'
<1>1. CASE \E p \in People : exchange_invitation_check(p)
  BY <1>1, ExchangeBegins
<1>2. CASE \E p \in Others : exchange_invitation_commit(p)
  BY <1>2, ExchangeEnds DEF People
<1>3. CASE UserStep
  BY <1>3, ExchangeEnds, SaveVault, SaveCache, SaveMeta, Activate, Unlock DEF UserStep, People
<1>4. CASE \E c \in Callers : Step(c)
  BY <1>4, Lookup, Client, Request, Refresh, SaveVault, SaveCache, SaveMeta DEF Step
<1>5. CASE revoke_invitation \/ update_invitation
  BY <1>5, Administration
<1>8. CASE exchange_other_invitation
  BY <1>8, OtherInvitation
<1>6. CASE Tick \/ UNCHANGED vars
  <2>1. /\ UNCHANGED <<registry, storage, gate, procs, history, trouble>>
        /\ clock' \in Nat
    BY <1>6 DEF Tick, IInv, TypeOK, vars
  <2> QED
    BY <2>1 DEF IInv, TypeOK, UsesCounted, ExchangesAlone, registry, storage, history
<1>7. CASE Crash
  BY <1>7, CourierDies
<1> QED
  BY <1>1, <1>2, <1>3, <1>4, <1>5, <1>6, <1>7, <1>8 DEF Next

LEMMA Invariant == Spec => []IInv
<1>1. Init => IInv
  BY Initially
<1>2. IInv /\ [Next]_vars => IInv'
  BY EveryStep
<1> QED
  BY <1>1, <1>2, PTL DEF Spec

(* Every state has its types, and a caller in the lookup (active_registry_session) holds
   session_gate: two lookups never run at once.                                          *)
THEOREM SessionTypes == Spec => []TypeOK
<1>1. IInv => TypeOK
  BY DEF IInv
<1> QED
  BY <1>1, Invariant, PTL

(* exchange_invitation: exchanges of one invitation, at the same time and with failures in
   between, never make more sessions than maximum_uses allows.                            *)
THEOREM InvitationUsesAreLimited == Spec => []UseLimitKept
<1>1. IInv => UseLimitKept
  BY DEF IInv, UsesCounted, UseLimitKept
<1> QED
  BY <1>1, Invariant, PTL

-----------------------------------------------------------------------------
(* No token pair is lost except by a lost answer, a failed write or a death of Courier, whatever
   renewals, exchanges and unlockings overlap; in the cache an older pair may come back when a
   lookup crosses a command of the person, until Courier is restarted.

   Two facts carry the proof.  A pair on its way to the vault is known to nobody else, so that
   nobody can rotate it under way; on its way from there to the cache this is true until a
   lookup crosses the command.  And whoever reads the vault is alone: the cache is only empty
   from a start of Courier to the first lookup, and a lookup that fills it has the gate.      *)

Savers == Callers \cup {User}

InForce == {sessions[r].token : r \in Rows}

Saving(a) == procs[a].pc \in {"save_vault", "save_cache"}

(* Tokens are made in their order, and what is anywhere was made. *)
MadeInOrder ==
    /\ Made \in Nat /\ clock > 0
    /\ \A t \in Tokens : born[t] # None <=> t <= Made

KnownWereMade ==
    /\ vault <= Made /\ fallback <= Made /\ cache <= Made
    /\ \A a \in Savers : procs[a].own <= Made /\ procs[a].got <= Made
    /\ \A t \in InForce : t <= Made

(* A pair in hand is in force, and nobody else has it. *)
IsSecret(a) ==
    /\ procs[a].got \in InForce /\ cache # procs[a].got
    /\ procs[a].pc = "save_vault" => vault # procs[a].got /\ fallback # procs[a].got
    /\ \A b \in Savers : procs[b].own # procs[a].got
    /\ \A b \in Savers \ {a} : procs[b].got # procs[a].got

InHand(a) == procs[a].pc = "save_vault" \/ (procs[a].pc = "save_cache" /\ ~crossed)

SavedAreSecret ==
    /\ \A a \in Savers : Saving(a) => procs[a].got # None
    /\ \A a \in Savers : InHand(a) => IsSecret(a)

Rests(c) == procs[c].pc = "idle"
FromVault(c) == procs[c].pc = "load" /\ procs[c].got # None

(* Who has read the vault is the only one at work, and what it read is in force. *)
VaultReadAlone ==
    /\ cache = None => \A c \in Callers : Rests(c) \/ FromVault(c)
    /\ ~unlocked => \A c \in Callers : Rests(c)
    /\ \A c \in Callers : FromVault(c) =>
         /\ ~forfeited => procs[c].got \in InForce
         /\ \A d \in Callers \ {c} : Rests(d)
    /\ procs[User].pc = "unlock" /\ ~crossed =>
         IF procs[User].got = None THEN cache # None
         ELSE procs[User].got = Persisted /\ cache = None /\ \A c \in Callers : Rests(c)

(* NoTokenIsLost, of the tokens in force. *)
Kept ==
    ~forfeited =>
        /\ Persisted # None => \/ Persisted \in InForce
                               \/ \E c \in Callers : procs[c].pc = "save_vault"
        /\ ~crossed /\ cache # None => cache \in InForce \/ \E c \in Callers : Saving(c)

TInv == MadeInOrder /\ KnownWereMade /\ SavedAreSecret /\ VaultReadAlone /\ Kept

-----------------------------------------------------------------------------
(* Tokens and the rows of the Registry *)

LEMMA TokensAreNumbers == Tokens \subseteq Nat \ {None}
  BY SessionsAssumption DEF Tokens, None

LEMMA ValuesAreNumbers ==
  ASSUME TypeOK
  PROVE  /\ vault \in Nat /\ fallback \in Nat /\ cache \in Nat
         /\ procs \in [Actors -> Proc]
         /\ \A a \in Savers : a \in Actors /\ procs[a].own \in Nat /\ procs[a].got \in Nat
         /\ InForce \subseteq Tokens
<1>1. procs \in [Actors -> Proc] /\ Savers \subseteq Actors
  BY DEF TypeOK, Proc, Savers, Actors, People
<1>2. sessions \in Seq(Row) /\ DOMAIN sessions = 1..Len(sessions)
  BY LenProperties DEF TypeOK, Row
<1>3. \A r \in Rows : sessions[r] \in Row
  BY <1>2, ElementOfSeq DEF Rows
<1>4. InForce \subseteq Tokens
  BY <1>3 DEF InForce, Row
<1>5. Tokens \cup {None} \subseteq Nat
  BY TokensAreNumbers DEF None
<1>6. \A a \in Savers : procs[a].own \in Nat /\ procs[a].got \in Nat
  BY <1>1, <1>5 DEF Proc
<1>7. vault \in Nat /\ fallback \in Nat /\ cache \in Nat
  BY <1>5 DEF TypeOK
<1> QED
  BY <1>1, <1>4, <1>6, <1>7

(* The next token is one that is nowhere yet. *)
LEMMA TokenMade ==
  ASSUME TypeOK, MadeInOrder, Fresh \in Tokens, MakeToken, clock' = clock
  PROVE  Made' = Fresh /\ MadeInOrder'
<1> DEFINE S == {t \in Tokens : born[t] # None}
           X == {t \in Tokens : born'[t] # None}
<1>1. IsFiniteSet(S)
  <2>1. IsFiniteSet(1..MaxTokens)
    BY FS_Interval, SessionsAssumption
  <2> QED
    BY <2>1, FS_Subset DEF Tokens
<1>2. born \in [Tokens -> Nat] /\ born' = [born EXCEPT ![Fresh] = clock]
  BY DEF TypeOK, MakeToken
<1>3. ~(Fresh <= Made) /\ clock # None
  BY DEF MadeInOrder, Fresh, None
<1>4. Fresh \notin S
  BY <1>3 DEF MadeInOrder
<1>5. X = S \cup {Fresh}
  BY <1>2, <1>3
<1>6. Cardinality(X) = Cardinality(S) + 1
  BY <1>1, <1>4, <1>5, FS_AddElement
<1>7. Made' = Fresh
  BY <1>6 DEF Made, Fresh
<1>8. ASSUME NEW t \in Tokens PROVE born'[t] # None <=> t <= Fresh
  <2>1. CASE t = Fresh
    BY <1>2, <1>3, <2>1, TokensAreNumbers
  <2>2. CASE t # Fresh
    <3>1. t <= Fresh <=> t <= Made
      BY <2>2, TokensAreNumbers DEF MadeInOrder, Fresh
    <3> QED
      BY <1>2, <2>2, <3>1 DEF MadeInOrder
  <2> QED
    BY <2>1, <2>2
<1> QED
  BY <1>7, <1>8 DEF MadeInOrder, Fresh

LEMMA FreshIsNowhere ==
  ASSUME TypeOK, MadeInOrder, KnownWereMade
  PROVE  /\ vault # Fresh /\ fallback # Fresh /\ cache # Fresh
         /\ \A a \in Savers : procs[a].own # Fresh /\ procs[a].got # Fresh
         /\ \A x \in Nat : x <= Made => x <= Fresh
  BY ValuesAreNumbers DEF MadeInOrder, KnownWereMade, Fresh

(* What the changes of the rows do to the tokens in force. *)
LEMMA SessionAdded ==
  ASSUME TypeOK, sessions' = Append(sessions, [token |-> Fresh, revoked |-> FALSE])
  PROVE  InForce' = InForce \cup {Fresh}
<1> DEFINE row == [token |-> Fresh, revoked |-> FALSE]
<1>1. sessions \in Seq(Row) /\ DOMAIN sessions = 1..Len(sessions) /\ Len(sessions) \in Nat
  BY LenProperties DEF TypeOK, Row
<1>2. /\ DOMAIN Append(sessions, row) = 1..(Len(sessions) + 1)
      /\ \A r \in 1..Len(sessions) : Append(sessions, row)[r] = sessions[r]
      /\ Append(sessions, row)[Len(sessions) + 1] = row
  BY <1>1
<1> HIDE DEF row
<1>3. row.token = Fresh
  BY DEF row
<1> QED
  BY <1>1, <1>2, <1>3 DEF InForce, Rows, row

LEMMA SessionRotated ==
  ASSUME TypeOK, NEW r \in Rows, sessions' = [sessions EXCEPT ![r].token = Fresh]
  PROVE  /\ Fresh \in InForce' /\ InForce' \subseteq InForce \cup {Fresh}
         /\ \A t \in InForce : t # sessions[r].token => t \in InForce'
<1>1. sessions \in Seq(Row) /\ DOMAIN sessions = 1..Len(sessions)
  BY LenProperties DEF TypeOK, Row
<1>2. sessions[r] \in Row
  BY <1>1, ElementOfSeq DEF Rows
<1>3. DOMAIN sessions' = DOMAIN sessions
  OBVIOUS
<1>4. sessions'[r].token = Fresh /\ \A q \in Rows : q # r => sessions'[q] = sessions[q]
  BY <1>2 DEF Rows, Row
<1> QED
  BY <1>3, <1>4 DEF InForce, Rows

LEMMA SessionsRevoked ==
  ASSUME sessions' = [r \in Rows |-> [sessions[r] EXCEPT !.revoked = TRUE]], TypeOK
  PROVE  InForce' = InForce
<1>1. sessions \in Seq(Row) /\ DOMAIN sessions = 1..Len(sessions)
  BY LenProperties DEF TypeOK, Row
<1>2. ASSUME NEW r \in Rows PROVE sessions'[r].token = sessions[r].token
  <2>1. sessions[r] \in Row
    BY <1>1, ElementOfSeq DEF Rows
  <2> QED
    BY <2>1 DEF Row
<1>3. DOMAIN sessions' = DOMAIN sessions
  BY DEF Rows
<1> QED
  BY <1>2, <1>3 DEF InForce, Rows

-----------------------------------------------------------------------------
(* Turns that move no token *)

(* An actor goes on or gives up: no pair is made or stored, and a rotated one that is given
   up before the vault has it is forfeited.                                                *)
QuietTurn(a) ==
    /\ Turn(a)
    /\ UNCHANGED <<sessions, born, clock, vault, fallback, cache, unlocked, crossed>>
    /\ forfeited => forfeited'
    /\ procs'[a].own \in {procs[a].own, None} /\ procs'[a].got \in {procs[a].got, None}
    /\ procs'[a].pc \notin {"save_vault", "save_cache", "unlock", "load"}
    /\ procs[a].pc # "save_cache"
    /\ a \in Callers =>
         procs[a].pc \notin {"idle", "load"} /\ (procs[a].pc = "save_vault" => forfeited')

LEMMA OthersStay ==
  ASSUME TypeOK, NEW a \in Actors, Turn(a)
  PROVE  \A b \in Savers : b # a => procs'[b] = procs[b]
  BY TurnKeepsActors DEF Savers, Actors, People

(* A caller at work has filled the cache, and nobody has just read the vault. *)
LEMMA AtWork ==
  ASSUME TInv, NEW a \in Callers, ~Rests(a), ~FromVault(a)
  PROVE  /\ cache # None /\ unlocked
         /\ \A c \in Callers : ~FromVault(c)
         /\ procs[User].pc = "unlock" /\ ~crossed => procs[User].got = None
  BY DEF TInv, VaultReadAlone

LEMMA QuietTurnKeepsTokens ==
  ASSUME TypeOK, TInv, NEW a \in Actors, QuietTurn(a)
  PROVE  TInv'
<1>1. \A b \in Savers : b # a => procs'[b] = procs[b]
  BY OthersStay DEF QuietTurn
<1>2. /\ InForce' = InForce /\ Made' = Made /\ Persisted' = Persisted
      /\ UNCHANGED <<cache, unlocked, crossed>>
  BY DEF QuietTurn, InForce, Rows, Made, Persisted
<1>3. MadeInOrder'
  BY <1>2 DEF TInv, MadeInOrder, QuietTurn
<1>4. KnownWereMade'
  <2>1. 0 <= Made
    BY DEF TInv, MadeInOrder
  <2>2. ASSUME NEW b \in Savers PROVE procs'[b].own <= Made /\ procs'[b].got <= Made
    BY <1>1, <2>1 DEF TInv, KnownWereMade, QuietTurn, None
  <2> QED
    BY <1>2, <2>2 DEF TInv, KnownWereMade, QuietTurn
<1>5. ASSUME NEW b \in Savers, Saving(b)' PROVE procs'[b] = procs[b] /\ b # a
  BY <1>1, <1>5 DEF QuietTurn, Saving
<1>6. ASSUME NEW b \in Savers, InHand(b)' PROVE IsSecret(b)'
  <2>1. b # a /\ procs'[b] = procs[b]
    BY <1>5, <1>6 DEF InHand, Saving
  <2>2. IsSecret(b) /\ procs[b].got # None
    BY <1>2, <1>6, <2>1 DEF TInv, SavedAreSecret, InHand, Saving
  <2>3. ASSUME NEW c \in Savers
        PROVE  procs'[c].own # procs[b].got /\ (c # b => procs'[c].got # procs[b].got)
    BY <1>1, <2>2 DEF IsSecret, QuietTurn
  <2> QED
    BY <1>2, <2>1, <2>2, <2>3 DEF IsSecret, QuietTurn
<1>7. SavedAreSecret'
  BY <1>5, <1>6 DEF TInv, SavedAreSecret, Saving
<1>8. VaultReadAlone'
  <2>1. User \in Savers /\ User \notin Callers /\ Callers \subseteq Savers
    BY SessionsAssumption DEF Savers
  <2>2. CASE a \in Callers
    <3>1. /\ cache # None /\ unlocked /\ \A c \in Callers : ~FromVault(c)
          /\ procs[User].pc = "unlock" /\ ~crossed => procs[User].got = None
      BY <2>2, AtWork DEF QuietTurn, Rests, FromVault
    <3>2. \A c \in Callers : ~FromVault(c)'
      BY <1>1, <2>1, <3>1 DEF FromVault, QuietTurn
    <3>3. procs'[User] = procs[User]
      BY <1>1, <2>1, <2>2
    <3> QED
      BY <1>2, <3>1, <3>2, <3>3 DEF VaultReadAlone
  <2>3. CASE a \notin Callers
    <3>1. \A c \in Callers : procs'[c] = procs[c]
      BY <1>1, <2>1, <2>3
    <3>2. procs'[User].pc = "unlock" => procs'[User] = procs[User]
      BY <1>1, <2>1 DEF QuietTurn
    <3> QED
      BY <1>2, <3>1, <3>2 DEF TInv, VaultReadAlone, Rests, FromVault, QuietTurn
  <2> QED
    BY <2>2, <2>3
<1>9. Kept'
  <2>1. ASSUME NEW c \in Callers, ~forfeited', Saving(c)
        PROVE  procs'[c] = procs[c]
    BY <1>1, <2>1 DEF QuietTurn, Saving, Savers
  <2> QED
    BY <1>2, <2>1 DEF TInv, Kept, QuietTurn, Saving
<1> QED
  BY <1>3, <1>4, <1>7, <1>8, <1>9 DEF TInv

-----------------------------------------------------------------------------
(* Turns in which the Registry makes a token *)

(* A session is added, or the session of a caller's own token has another one now. *)
TokenTurn(a) ==
    /\ Turn(a)
    /\ Fresh \in Tokens /\ MakeToken
    /\ UNCHANGED <<clock, vault, fallback, cache, unlocked, crossed>>
    /\ Fresh \in InForce' /\ InForce' \subseteq InForce \cup {Fresh}
    /\ \A t \in InForce : t # procs[a].own \/ a \notin Callers => t \in InForce'
    /\ forfeited => forfeited'
    /\ ~Saving(a)
    /\ procs'[a].own \in {procs[a].own, None}
    /\ \/ procs'[a].pc = "save_vault" /\ procs'[a].got = Fresh
       \/ /\ procs'[a].pc \in {"idle", "client"} /\ procs'[a].got \in {procs[a].got, None}
          /\ a \in Callers => forfeited'
    /\ a \in Callers => procs[a].pc \notin {"idle", "load"}

LEMMA TokenTurnKeepsTokens ==
  ASSUME TypeOK, TInv, NEW a \in Actors, TokenTurn(a)
  PROVE  TInv'
<1>1. \A b \in Savers : b # a => procs'[b] = procs[b]
  BY OthersStay DEF TokenTurn
<1>2. /\ UNCHANGED <<vault, fallback, cache, unlocked, crossed, Persisted>>
      /\ InForce \subseteq Tokens
  BY ValuesAreNumbers DEF TokenTurn, Persisted
<1>3. Made' = Fresh /\ MadeInOrder'
  BY TokenMade DEF TInv, TokenTurn
<1>4. /\ vault # Fresh /\ fallback # Fresh /\ cache # Fresh
      /\ \A b \in Savers : procs[b].own # Fresh /\ procs[b].got # Fresh
      /\ \A x \in Nat : x <= Made => x <= Fresh
  BY FreshIsNowhere DEF TInv
<1>5. KnownWereMade'
  <2>1. Fresh \in Nat /\ Fresh <= Fresh /\ None <= Fresh
    BY DEF TInv, MadeInOrder, Fresh, None
  <2>2. ASSUME NEW b \in Savers PROVE procs[b].own <= Fresh /\ procs[b].got <= Fresh
    BY <1>4, ValuesAreNumbers DEF TInv, KnownWereMade
  <2>3. ASSUME NEW b \in Savers PROVE procs'[b].own <= Fresh /\ procs'[b].got <= Fresh
    BY <1>1, <2>1, <2>2 DEF TokenTurn
  <2>4. vault <= Fresh /\ fallback <= Fresh /\ cache <= Fresh
    BY <1>4, ValuesAreNumbers DEF TInv, KnownWereMade
  <2>5. \A t \in InForce : t <= Fresh
    BY <1>4, ValuesAreNumbers, TokensAreNumbers DEF TInv, KnownWereMade
  <2>6. \A t \in InForce' : t <= Fresh
    BY <2>1, <2>5 DEF TokenTurn
  <2> QED
    BY <1>2, <1>3, <2>3, <2>4, <2>6 DEF KnownWereMade
<1>6. ASSUME NEW b \in Savers, InHand(b)' PROVE IsSecret(b)'
  <2>1. CASE b = a
    <3>1. procs'[a].got = Fresh
      BY <1>6, <2>1 DEF TokenTurn, InHand
    <3>2. Fresh # None
      BY TokensAreNumbers DEF TokenTurn
    <3>3. ASSUME NEW c \in Savers
          PROVE  procs'[c].own # Fresh /\ (c # a => procs'[c].got # Fresh)
      BY <1>1, <1>4, <3>2 DEF TokenTurn
    <3>4. Fresh \in InForce' /\ cache' # Fresh /\ vault' # Fresh /\ fallback' # Fresh
      BY <1>2, <1>4 DEF TokenTurn
    <3> QED
      BY <2>1, <3>1, <3>3, <3>4 DEF IsSecret
  <2>2. CASE b # a
    <3>1. procs'[b] = procs[b]
      BY <1>1, <2>2
    <3>2. IsSecret(b) /\ procs[b].got # Fresh /\ procs[b].got # None
      <4>1. IsSecret(b)
        BY <1>2, <1>6, <3>1 DEF TInv, SavedAreSecret, InHand
      <4> QED
        BY <4>1, <1>2, <1>4, TokensAreNumbers DEF IsSecret
    <3>3. procs[b].got \in InForce'
      <4>1. a \in Callers => procs[b].got # procs[a].own
        BY <3>2 DEF IsSecret, Savers
      <4> QED
        BY <3>2, <4>1 DEF IsSecret, TokenTurn
    <3>4. ASSUME NEW c \in Savers
          PROVE  procs'[c].own # procs[b].got /\ (c # b => procs'[c].got # procs[b].got)
      BY <1>1, <3>2 DEF IsSecret, TokenTurn
    <3> QED
      BY <1>2, <3>1, <3>2, <3>3, <3>4 DEF IsSecret
  <2> QED
    BY <2>1, <2>2
<1>7. SavedAreSecret'
  <2>1. ASSUME NEW b \in Savers, Saving(b)' PROVE procs'[b].got # None
    <3>1. CASE b = a
      <4>1. procs'[a].got = Fresh
        BY <2>1, <3>1 DEF TokenTurn, Saving
      <4> QED
        BY <3>1, <4>1, TokensAreNumbers DEF TokenTurn
    <3>2. CASE b # a
      BY <1>1, <2>1, <3>2 DEF TInv, SavedAreSecret, Saving
    <3> QED
      BY <3>1, <3>2
  <2> QED
    BY <1>6, <2>1 DEF SavedAreSecret
<1>8. VaultReadAlone'
  <2>1. User \in Savers /\ User \notin Callers /\ Callers \subseteq Savers
    BY SessionsAssumption DEF Savers
  <2>2. CASE a \in Callers
    <3>1. /\ cache # None /\ unlocked /\ \A c \in Callers : ~FromVault(c)
          /\ procs[User].pc = "unlock" /\ ~crossed => procs[User].got = None
      BY <2>2, AtWork DEF TokenTurn, Rests, FromVault
    <3>2. \A c \in Callers : ~FromVault(c)'
      BY <1>1, <2>1, <3>1 DEF FromVault, TokenTurn
    <3>3. procs'[User] = procs[User]
      BY <1>1, <2>1, <2>2
    <3> QED
      BY <1>2, <3>1, <3>2, <3>3 DEF VaultReadAlone
  <2>3. CASE a \notin Callers
    <3>1. \A c \in Callers : procs'[c] = procs[c]
      BY <1>1, <2>1, <2>3
    <3>2. procs'[User].pc = "unlock" => procs'[User] = procs[User]
      BY <1>1, <2>1 DEF TokenTurn
    <3>3. InForce \subseteq InForce' /\ (forfeited => forfeited')
      BY <2>3 DEF TokenTurn
    <3> QED
      BY <1>2, <3>1, <3>2, <3>3 DEF TInv, VaultReadAlone, Rests, FromVault
  <2> QED
    BY <2>2, <2>3
<1>9. Kept'
  <2>1. CASE a \in Callers
    <3>1. CASE forfeited'
      BY <3>1 DEF Kept
    <3>2. CASE ~forfeited'
      <4>1. procs'[a].pc = "save_vault"
        BY <2>1, <3>2 DEF TokenTurn
      <4> QED
        BY <2>1, <4>1 DEF Kept, Saving
    <3> QED
      BY <3>1, <3>2
  <2>2. CASE a \notin Callers
    <3>1. InForce \subseteq InForce' /\ \A c \in Callers : procs'[c] = procs[c]
      BY <1>1, <2>2 DEF TokenTurn, Savers
    <3> QED
      BY <1>2, <3>1 DEF TInv, Kept, TokenTurn, Saving
  <2> QED
    BY <2>1, <2>2
<1> QED
  BY <1>3, <1>5, <1>7, <1>8, <1>9 DEF TInv

-----------------------------------------------------------------------------
(* Turns that store a pair *)

(* The turn moves one pair on: what stays secret, whoever has it in hand. *)
LEMMA StoringKeepsSecrets ==
  ASSUME TypeOK, TInv, NEW a \in Savers, Turn(a), UNCHANGED <<sessions, born, crossed>>,
         Saving(a) \/ procs[a].pc = "save_meta",
         procs'[a].got \in {procs[a].got, None},
         Saving(a)' => procs'[a].pc = "save_cache" /\ procs[a].pc = "save_vault"
                       /\ procs'[a].got = procs[a].got,
         procs'[a].own = procs[a].own \/ (procs[a].pc = "save_meta" /\ procs'[a].own = procs[a].got),
         vault' \in {vault, procs[a].got}, fallback' \in {fallback, procs[a].got},
         cache' = cache \/ (procs[a].pc = "save_cache" /\ cache' = procs[a].got)
  PROVE  SavedAreSecret'
<1>1. a \in Actors /\ \A b \in Savers : b # a => procs'[b] = procs[b]
  BY OthersStay, ValuesAreNumbers
<1>2. InForce' = InForce
  BY DEF InForce, Rows
<1>3. ASSUME NEW b \in Savers, Saving(b)'
      PROVE  Saving(b) /\ procs'[b].got = procs[b].got /\ procs[b].got # None
  BY <1>1, <1>3 DEF TInv, SavedAreSecret, Saving
<1>4. ASSUME NEW b \in Savers, InHand(b)' PROVE IsSecret(b)'
  <2>1. Saving(b)' /\ InHand(b)
    <3>1. Saving(b)'
      BY <1>4 DEF InHand, Saving
    <3> QED
      BY <1>1, <1>4, <3>1 DEF InHand, Saving
  <2>2. IsSecret(b) /\ procs'[b].got = procs[b].got /\ procs[b].got # None
    BY <1>3, <2>1 DEF TInv, SavedAreSecret
  <2>3. CASE b = a
    <3>1. /\ procs'[a].pc = "save_cache" /\ procs[a].pc = "save_vault"
          /\ procs'[a].own = procs[a].own /\ cache' = cache
      BY <2>1, <2>3
    <3> QED
      BY <1>1, <1>2, <2>2, <2>3, <3>1 DEF IsSecret
  <2>4. CASE b # a
    <3>1. procs'[b] = procs[b] /\ procs[a].got # procs[b].got /\ procs[a].own # procs[b].got
      BY <1>1, <2>2, <2>4 DEF IsSecret
    <3>2. cache' # procs[b].got
      BY <2>2, <3>1 DEF IsSecret
    <3>3. procs[b].pc = "save_vault" => vault' # procs[b].got /\ fallback' # procs[b].got
      BY <2>2, <3>1 DEF IsSecret
    <3>4. ASSUME NEW c \in Savers
          PROVE  procs'[c].own # procs[b].got /\ (c # b => procs'[c].got # procs[b].got)
      BY <1>1, <2>2, <3>1 DEF IsSecret
    <3> QED
      BY <1>2, <2>2, <3>1, <3>2, <3>3, <3>4 DEF IsSecret
  <2> QED
    BY <2>3, <2>4
<1> QED
  BY <1>3, <1>4 DEF SavedAreSecret

(* While a caller or the person stores a pair, whoever has read the vault stays alone. *)
LEMMA StoringKeepsReaders ==
  ASSUME TypeOK, TInv, NEW a \in Savers, Turn(a), UNCHANGED <<sessions, unlocked, crossed>>,
         Saving(a) \/ procs[a].pc = "save_meta",
         forfeited => forfeited',
         procs'[a].pc \notin {"load", "unlock"},
         cache' = cache \/ cache' # None,
         a = User \/ UNCHANGED <<vault, fallback>> \/ procs[a].pc = "save_vault"
  PROVE  VaultReadAlone'
<1>1. /\ a \in Actors /\ \A b \in Savers : b # a => procs'[b] = procs[b]
      /\ User \in Savers /\ User \notin Callers /\ Callers \subseteq Savers
  BY OthersStay, ValuesAreNumbers, SessionsAssumption DEF Savers
<1>2. InForce' = InForce
  BY DEF InForce, Rows
<1>3. CASE a \in Callers
  <2>1. /\ cache # None /\ unlocked /\ \A c \in Callers : ~FromVault(c)
        /\ procs[User].pc = "unlock" /\ ~crossed => procs[User].got = None
    BY <1>3, AtWork DEF Rests, FromVault, Saving
  <2>2. \A c \in Callers : ~FromVault(c)'
    BY <1>1, <2>1 DEF FromVault
  <2>3. procs'[User] = procs[User]
    BY <1>1, <1>3
  <2> QED
    BY <2>1, <2>2, <2>3 DEF VaultReadAlone
<1>4. CASE a = User
  <2>1. \A c \in Callers : procs'[c] = procs[c]
    BY <1>1, <1>4
  <2> QED
    BY <1>2, <1>4, <2>1 DEF TInv, VaultReadAlone, Rests, FromVault
<1> QED
  BY <1>3, <1>4 DEF Savers

(* What holds of a and of everyone else when a stores a pair. *)
LEMMA StoredKeepsOrder ==
  ASSUME TypeOK, TInv, NEW a \in Savers, Turn(a), UNCHANGED <<sessions, born, clock>>,
         procs'[a].own \in {procs[a].own, procs[a].got, None},
         procs'[a].got \in {procs[a].got, None},
         vault' \in {vault, procs[a].got}, fallback' \in {fallback, procs[a].got},
         cache' \in {cache, procs[a].got}
  PROVE  MadeInOrder' /\ KnownWereMade'
<1>1. a \in Actors /\ \A b \in Savers : b # a => procs'[b] = procs[b]
  BY OthersStay, ValuesAreNumbers
<1>2. InForce' = InForce /\ Made' = Made
  BY DEF InForce, Rows, Made
<1>3. MadeInOrder'
  BY <1>2 DEF TInv, MadeInOrder
<1>4. None <= Made
  BY DEF TInv, MadeInOrder, None
<1>5. procs[a].own <= Made /\ procs[a].got <= Made
  BY DEF TInv, KnownWereMade
<1>6. ASSUME NEW b \in Savers PROVE procs'[b].own <= Made /\ procs'[b].got <= Made
  BY <1>1, <1>4, <1>5 DEF TInv, KnownWereMade
<1>7. vault' <= Made /\ fallback' <= Made /\ cache' <= Made
  BY <1>5 DEF TInv, KnownWereMade
<1> QED
  BY <1>2, <1>3, <1>6, <1>7 DEF TInv, KnownWereMade

LEMMA VaultSaved ==
  ASSUME TypeOK, TInv, NEW a \in Savers, save_vault(a), ~Returns(a)
  PROVE  TInv'
<1>1. a \in Actors /\ procs \in [Actors -> Proc]
  BY ValuesAreNumbers
<1>2. /\ procs[a].pc = "save_vault" /\ Goto(a, "save_cache") /\ UNCHANGED gate
      /\ UNCHANGED <<registry, clock, cache, meta, active, unlocked, crossed>>
      /\ \/ vault' = procs[a].got /\ UNCHANGED <<fallback, forfeited>>
         \/ /\ fallback' = procs[a].got /\ UNCHANGED vault
            /\ IF vault = None THEN UNCHANGED forfeited ELSE Forfeits(a)
  BY DEF save_vault
<1>3. Turn(a) /\ procs'[a].pc = "save_cache"
  BY <1>1, <1>2, TurnsOfACall DEF PCs
<1>4. procs'[a].own = procs[a].own /\ procs'[a].got = procs[a].got
  BY <1>1, <1>2 DEF Goto, Proc
<1>5. MadeInOrder' /\ KnownWereMade'
  BY <1>2, <1>3, <1>4, StoredKeepsOrder DEF registry
<1>6. SavedAreSecret'
  BY <1>2, <1>3, <1>4, StoringKeepsSecrets DEF registry, Saving
<1>7. /\ \A b \in Savers : b # a => procs'[b] = procs[b]
      /\ User \in Savers /\ User \notin Callers /\ Callers \subseteq Savers
  BY <1>1, <1>3, OthersStay, SessionsAssumption DEF Savers
<1>8. forfeited => forfeited'
  BY <1>2 DEF Forfeits
<1>9. VaultReadAlone'
  BY <1>2, <1>3, <1>8, StoringKeepsReaders DEF registry, Saving
<1>10. Kept'
  <2>1. procs[a].got \in InForce /\ InForce' = InForce
    BY <1>2 DEF TInv, SavedAreSecret, IsSecret, InHand, InForce, Rows, registry
  <2>2. ASSUME NEW c \in Callers PROVE Saving(c) => Saving(c)'
    BY <1>2, <1>3, <1>7 DEF Saving
  <2>3. ASSUME ~forfeited'
        PROVE  \/ Persisted' \in InForce
               \/ Persisted' = Persisted /\ a \notin Callers
    <3>1. procs[a].got # None
      BY <2>1, ValuesAreNumbers, TokensAreNumbers
    <3> QED
      BY <1>2, <2>1, <2>3, <3>1 DEF Persisted, Forfeits
  <2>4. a \notin Callers =>
          \A c \in Callers : procs[c].pc = "save_vault" => procs'[c].pc = "save_vault"
    BY <1>7
  <2> QED
    BY <1>2, <1>8, <2>1, <2>2, <2>3, <2>4 DEF TInv, Kept
<1> QED
  BY <1>5, <1>6, <1>9, <1>10 DEF TInv

LEMMA CacheSaved ==
  ASSUME TypeOK, TInv, NEW a \in Savers, save_cache(a)
  PROVE  TInv'
<1>1. a \in Actors /\ procs \in [Actors -> Proc]
  BY ValuesAreNumbers
<1>2. /\ procs[a].pc = "save_cache" /\ Goto(a, "save_meta") /\ cache' = procs[a].got
      /\ UNCHANGED <<registry, clock, vault, fallback, active, unlocked, gate, history>>
  BY DEF save_cache
<1>3. Turn(a) /\ procs'[a].pc = "save_meta"
  BY <1>1, <1>2, TurnsOfACall DEF PCs
<1>4. procs'[a].own = procs[a].own /\ procs'[a].got = procs[a].got
  BY <1>1, <1>2 DEF Goto, Proc
<1>5. MadeInOrder' /\ KnownWereMade'
  BY <1>2, <1>3, <1>4, StoredKeepsOrder DEF registry
<1>6. SavedAreSecret'
  BY <1>2, <1>3, <1>4, StoringKeepsSecrets DEF registry, history, Saving
<1>7. /\ \A b \in Savers : b # a => procs'[b] = procs[b]
      /\ Callers \subseteq Savers
  BY <1>1, <1>3, OthersStay DEF Savers
<1>8. cache' # None /\ InForce' = InForce /\ (~crossed => cache' \in InForce)
  <2>1. procs[a].got # None /\ (~crossed => procs[a].got \in InForce)
    BY <1>2 DEF TInv, SavedAreSecret, IsSecret, InHand, Saving
  <2>2. InForce' = InForce
    BY <1>2 DEF InForce, Rows, registry
  <2> QED
    BY <1>2, <2>1, <2>2
<1>9. VaultReadAlone'
  BY <1>2, <1>3, <1>8, StoringKeepsReaders DEF registry, history, Saving
<1>10. Kept'
  <2>1. Persisted' = Persisted /\ UNCHANGED <<forfeited, crossed>>
    BY <1>2 DEF Persisted, history
  <2>2. \A c \in Callers : procs[c].pc = "save_vault" => procs'[c].pc = "save_vault"
    BY <1>2, <1>7
  <2> QED
    BY <1>8, <2>1, <2>2 DEF TInv, Kept
<1> QED
  BY <1>5, <1>6, <1>9, <1>10 DEF TInv

LEMMA MetaSaved ==
  ASSUME TypeOK, TInv, NEW a \in Savers, save_meta(a), ~Returns(a)
  PROVE  TInv'
<1>1. a \in Actors /\ procs \in [Actors -> Proc] /\ gate \in Callers \cup {Nobody}
  BY ValuesAreNumbers DEF TypeOK
<1> DEFINE next == [Idle EXCEPT
              !.own = procs[a].got,
              !.pc = IF a = User THEN "activate" ELSE IF gate = a THEN "client" ELSE "retry"]
<1>2. /\ procs[a].pc = "save_meta" /\ procs' = [procs EXCEPT ![a] = next] /\ Release(a)
      /\ UNCHANGED <<registry, clock, vault, fallback, cache, active, unlocked, history>>
  BY DEF save_meta
<1>3. /\ next \in Proc /\ next.own = procs[a].got /\ next.got = None
      /\ next.pc \in {"activate", "client", "retry"}
  BY <1>1 DEF Idle, Proc, PCs, None
<1> HIDE DEF next
<1>4. procs'[a] = next /\ Turn(a)
  BY <1>1, <1>2, <1>3 DEF Turn, Release
<1>5. MadeInOrder' /\ KnownWereMade'
  BY <1>2, <1>3, <1>4, StoredKeepsOrder DEF registry
<1>6. SavedAreSecret'
  BY <1>2, <1>3, <1>4, StoringKeepsSecrets DEF registry, history, Saving
<1>7. /\ \A b \in Savers : b # a => procs'[b] = procs[b]
      /\ Callers \subseteq Savers
  BY <1>1, <1>4, OthersStay DEF Savers
<1>8. VaultReadAlone'
  BY <1>2, <1>3, <1>4, StoringKeepsReaders DEF registry, history
<1>9. Kept'
  <2>1. Persisted' = Persisted /\ InForce' = InForce /\ UNCHANGED <<cache, forfeited, crossed>>
    BY <1>2 DEF Persisted, InForce, Rows, registry, history
  <2>2. \A c \in Callers : Saving(c) => procs'[c] = procs[c]
    BY <1>2, <1>7 DEF Saving
  <2> QED
    BY <2>1, <2>2 DEF TInv, Kept, Saving
<1> QED
  BY <1>5, <1>6, <1>8, <1>9 DEF TInv

-----------------------------------------------------------------------------
(* Turns that read what is stored *)

(* No pair moves and nobody takes a turn; the device may have been unlocked. *)
LEMMA NothingMoves ==
  ASSUME TInv, InForce' = InForce, clock' >= clock, clock' \in Nat, clock \in Nat,
         UNCHANGED <<born, vault, fallback, cache, procs, history>>,
         unlocked' = unlocked \/ unlocked'
  PROVE  TInv'
<1>1. Made' = Made /\ Persisted' = Persisted /\ UNCHANGED <<forfeited, crossed>>
  BY DEF Made, Persisted, history
<1>2. MadeInOrder' /\ KnownWereMade'
  BY <1>1 DEF TInv, MadeInOrder, KnownWereMade
<1>3. SavedAreSecret'
  BY <1>1 DEF TInv, SavedAreSecret, IsSecret, InHand, Saving
<1>4. VaultReadAlone' /\ Kept'
  BY <1>1 DEF TInv, VaultReadAlone, Rests, FromVault, Kept, Saving
<1> QED
  BY <1>2, <1>3, <1>4 DEF TInv

(* The actor takes or caches the pair t, which nobody has in hand. *)
LEMMA ReadingKeepsTokens ==
  ASSUME TypeOK, TInv, NEW a \in Savers, NEW t \in Nat, t <= Made, Turn(a),
         UNCHANGED <<sessions, born, clock, vault, fallback, forfeited>>,
         crossed => crossed',
         ~Saving(a), procs'[a].pc \notin {"save_vault", "save_cache"},
         procs'[a].own \in {procs[a].own, None, t},
         procs'[a].got \in {procs[a].got, None, t},
         \A b \in Savers : procs[b].pc = "save_vault" \/ (procs[b].pc = "save_cache" /\ ~crossed')
            => procs[b].got # t,
         \/ cache' = cache
         \/ cache' = t /\ (~forfeited /\ ~crossed' => t = None \/ t \in InForce)
  PROVE  MadeInOrder' /\ KnownWereMade' /\ SavedAreSecret' /\ Kept'
<1>1. a \in Actors /\ \A b \in Savers : b # a => procs'[b] = procs[b]
  BY OthersStay, ValuesAreNumbers
<1>2. InForce' = InForce /\ Made' = Made /\ Persisted' = Persisted
  BY DEF InForce, Rows, Made, Persisted
<1>3. MadeInOrder'
  BY <1>2 DEF TInv, MadeInOrder
<1>4. KnownWereMade'
  <2>1. None <= Made /\ cache <= Made
    BY DEF TInv, MadeInOrder, KnownWereMade, None
  <2>2. ASSUME NEW b \in Savers PROVE procs'[b].own <= Made /\ procs'[b].got <= Made
    BY <1>1, <2>1 DEF TInv, KnownWereMade
  <2> QED
    BY <1>2, <2>1, <2>2 DEF TInv, KnownWereMade
<1>5. ASSUME NEW b \in Savers, Saving(b)' PROVE b # a /\ procs'[b] = procs[b] /\ Saving(b)
  BY <1>1, <1>5 DEF Saving
<1>6. ASSUME NEW b \in Savers, InHand(b)' PROVE IsSecret(b)'
  <2>1. b # a /\ procs'[b] = procs[b] /\ InHand(b)
    <3>1. Saving(b)'
      BY <1>6 DEF InHand, Saving
    <3> QED
      BY <1>5, <1>6, <3>1 DEF InHand
  <2>2. IsSecret(b) /\ procs[b].got # None /\ procs[b].got # t
    <3>1. Saving(b)
      BY <2>1 DEF InHand, Saving
    <3> QED
      BY <1>6, <2>1, <3>1 DEF TInv, SavedAreSecret, InHand
  <2>3. ASSUME NEW c \in Savers
        PROVE  procs'[c].own # procs[b].got /\ (c # b => procs'[c].got # procs[b].got)
    BY <1>1, <2>1, <2>2 DEF IsSecret
  <2>4. cache' # procs[b].got
    BY <2>2 DEF IsSecret
  <2> QED
    BY <1>2, <2>1, <2>2, <2>3, <2>4 DEF IsSecret
<1>7. SavedAreSecret'
  BY <1>5, <1>6 DEF TInv, SavedAreSecret
<1>8. Kept'
  <2>1. \A c \in Callers : Saving(c) => procs'[c] = procs[c]
    BY <1>1 DEF Savers
  <2> QED
    BY <1>2, <2>1 DEF TInv, Kept, Saving
<1> QED
  BY <1>3, <1>4, <1>7, <1>8

LEMMA Activated ==
  ASSUME TypeOK, TInv, set_active_registry_session(User)
  PROVE  TInv'
<1>1. User \in Savers /\ User \in Actors /\ User \notin Callers /\ Callers \subseteq Savers
  BY SessionsAssumption DEF Savers, Actors, People
<1>2. /\ procs[User].pc = "activate" /\ procs' = [procs EXCEPT ![User] = Idle]
      /\ active' /\ unlocked'
      /\ UNCHANGED <<registry, clock, vault, fallback, cache, gate, history>>
  BY DEF set_active_registry_session, Stops
<1>3. Turn(User)
  BY <1>1, <1>2, TurnsOfACall DEF set_active_registry_session
<1>4. procs'[User] = Idle
  BY <1>1, <1>2, ValuesAreNumbers
<1>5. MadeInOrder' /\ KnownWereMade' /\ SavedAreSecret' /\ Kept'
  <2>1. None \in Nat /\ None <= Made
    BY DEF TInv, MadeInOrder, None
  <2>2. \A b \in Savers : Saving(b) => procs[b].got # None
    BY DEF TInv, SavedAreSecret
  <2> QED
    BY <1>1, <1>2, <1>3, <1>4, <2>1, <2>2, ReadingKeepsTokens DEF Idle, Saving, registry, history
<1>6. \A c \in Callers : procs'[c] = procs[c]
  BY <1>1, <1>3, OthersStay
<1>7. InForce' = InForce
  BY <1>2 DEF InForce, Rows, registry
<1>8. VaultReadAlone'
  BY <1>2, <1>4, <1>6, <1>7 DEF TInv, VaultReadAlone, Rests, FromVault, Idle, history
<1> QED
  BY <1>5, <1>8 DEF TInv

LEMMA CredentialsWereMade ==
  ASSUME TypeOK, TInv
  PROVE  Credentials \in Nat /\ Credentials <= Made
  BY ValuesAreNumbers DEF TInv, KnownWereMade, Credentials, Persisted

(* While the device is locked, nobody has a pair in hand when its owner unlocks it. *)
LEMMA Authenticated ==
  ASSUME TypeOK, TInv, authenticate_device
  PROVE  TInv'
<1>1. /\ User \in Savers /\ User \in Actors /\ User \notin Callers /\ Callers \subseteq Savers
      /\ procs \in [Actors -> Proc]
  BY ValuesAreNumbers, SessionsAssumption DEF Savers, Actors, People
<1>2. /\ ~unlocked /\ procs[User].pc = "idle"
      /\ UNCHANGED <<registry, clock, vault, fallback, cache, active, gate, history>>
  BY DEF authenticate_device
<1>3. (\A c \in Callers : Rests(c)) /\ \A b \in Savers : ~Saving(b)
  BY <1>2 DEF TInv, VaultReadAlone, Rests, Saving, Savers
<1>4. InForce' = InForce /\ Persisted' = Persisted
  BY <1>2 DEF InForce, Rows, registry, Persisted
<1>5. CASE active
  <2> DEFINE next == [Loaded EXCEPT !.pc = "unlock"]
  <2>1. procs' = [procs EXCEPT ![User] = next] /\ UNCHANGED unlocked /\ Credentials # None
    BY <1>5 DEF authenticate_device
  <2>2. /\ next \in Proc /\ next.pc = "unlock" /\ next.own = Credentials
        /\ next.got = IF cache # None THEN None ELSE Persisted
    <3>1. Loaded \in Proc
      BY LoadedTypes
    <3> QED
      BY <3>1 DEF Loaded, Idle, Proc, PCs
  <2> HIDE DEF next
  <2>3. procs'[User] = next /\ Turn(User)
    BY <1>1, <1>2, <2>1, <2>2 DEF Turn
  <2>4. MadeInOrder' /\ KnownWereMade' /\ SavedAreSecret' /\ Kept'
    <3>1. next.got \in {None, Credentials}
      BY <2>2 DEF Credentials
    <3> QED
      BY <1>1, <1>2, <1>3, <2>2, <2>3, <3>1, CredentialsWereMade, ReadingKeepsTokens
         DEF Saving, registry, history
  <2>5. \A c \in Callers : procs'[c] = procs[c]
    BY <1>1, <2>3, OthersStay
  <2>6. VaultReadAlone'
    <3>1. next.got = None => cache # None
      BY <2>1, <2>2 DEF Credentials
    <3>2. next.got # None => cache = None /\ next.got = Persisted
      BY <2>2
    <3> QED
      BY <1>2, <1>3, <1>4, <2>1, <2>3, <2>5, <3>1, <3>2
         DEF TInv, VaultReadAlone, Rests, FromVault, history
  <2> QED
    BY <2>4, <2>6 DEF TInv
<1>6. CASE ~active
  <2>1. unlocked' /\ procs' = procs
    BY <1>6 DEF authenticate_device
  <2>2. clock \in Nat /\ clock' = clock /\ clock' >= clock
    BY <1>2 DEF TypeOK
  <2>3. UNCHANGED <<born, vault, fallback, cache, procs>> /\ UNCHANGED history
    BY <1>2, <2>1 DEF registry
  <2>4. unlocked' = unlocked \/ unlocked'
    BY <2>1
  <2> QED
    BY <1>4, <2>1, <2>2, <2>3, <2>4, NothingMoves DEF history
<1> QED
  BY <1>5, <1>6

LEMMA Unlocked ==
  ASSUME TypeOK, TInv, authenticate_device_loaded
  PROVE  TInv'
<1>1. /\ User \in Savers /\ User \in Actors /\ User \notin Callers /\ Callers \subseteq Savers
      /\ procs \in [Actors -> Proc]
  BY ValuesAreNumbers, SessionsAssumption DEF Savers, Actors, People
<1>2. /\ procs[User].pc = "unlock" /\ procs' = [procs EXCEPT ![User] = Idle] /\ unlocked'
      /\ cache' = IF procs[User].got # None THEN procs[User].got ELSE cache
      /\ UNCHANGED <<registry, clock, vault, fallback, active, gate, history>>
  BY DEF authenticate_device_loaded, Stops, Caches
<1>3. Turn(User) /\ procs'[User] = Idle
  BY <1>1, <1>2, TurnsOfACall DEF authenticate_device_loaded
<1>4. InForce' = InForce /\ \A c \in Callers : procs'[c] = procs[c]
  BY <1>1, <1>2, <1>3, OthersStay DEF InForce, Rows, registry
<1>5. MadeInOrder' /\ KnownWereMade' /\ SavedAreSecret' /\ Kept'
  <2> DEFINE t == procs[User].got
  <2>1. t \in Nat /\ t <= Made
    BY <1>1, ValuesAreNumbers DEF TInv, KnownWereMade
  <2>2. \A b \in Savers : InHand(b) => procs[b].got # t
    BY <1>1, <1>2 DEF TInv, SavedAreSecret, IsSecret, InHand
  <2>3. t # None /\ ~forfeited /\ ~crossed => t \in InForce
    BY <1>2 DEF TInv, VaultReadAlone, Kept, Rests
  <2>4. cache' = cache \/ (cache' = t /\ (~forfeited /\ ~crossed' => t = None \/ t \in InForce))
    BY <1>2, <2>3 DEF history
  <2>5. \A b \in Savers : procs[b].pc = "save_vault" \/ (procs[b].pc = "save_cache" /\ ~crossed')
           => procs[b].got # t
    BY <1>2, <2>2 DEF InHand, history
  <2>6. ~Saving(User) /\ Idle.pc = "idle" /\ Idle.own = None /\ Idle.got = None
    BY <1>2 DEF Saving, Idle
  <2>7. UNCHANGED <<sessions, born, clock, vault, fallback, forfeited, crossed>>
    BY <1>2 DEF registry, history
  <2> HIDE DEF t
  <2> QED
    BY <1>1, <1>3, <2>1, <2>4, <2>5, <2>6, <2>7, ReadingKeepsTokens
<1>6. VaultReadAlone'
  BY <1>2, <1>3, <1>4 DEF TInv, VaultReadAlone, Rests, FromVault, Idle, history
<1> QED
  BY <1>5, <1>6 DEF TInv

(* With the cache filled a lookup takes its pair; else it is alone with the vault's, or it
   crosses a command of the person.                                                         *)
LEMMA LookedUp ==
  ASSUME TypeOK, TInv, NEW c \in Callers, active_registry_session(c)
  PROVE  TInv'
<1>1. /\ c \in Savers /\ c \in Actors /\ c # User /\ User \in Savers /\ Callers \subseteq Savers
      /\ procs \in [Actors -> Proc] /\ meta \in Nat
  BY ValuesAreNumbers, SessionsAssumption DEF Savers, Actors, People, TypeOK, Tokens, None
<1> DEFINE next == [Loaded EXCEPT !.pc = "load", !.seen = registry_session]
<1>2. /\ procs[c].pc = "idle" /\ procs' = [procs EXCEPT ![c] = next]
      /\ unlocked /\ Credentials # None /\ gate = Nobody /\ gate' = c
      /\ crossed' = (crossed \/ Crosses)
      /\ UNCHANGED <<registry, clock, storage, forfeited>>
  BY DEF active_registry_session, GateOpen
<1>3. /\ next \in Proc /\ next.pc = "load" /\ next.own = Credentials
      /\ next.got = IF cache # None THEN None ELSE Persisted
  <2>1. Loaded \in Proc
    BY LoadedTypes
  <2> QED
    BY <1>1, <2>1 DEF Loaded, Idle, Proc, PCs, registry_session
<1> HIDE DEF next
<1>4. procs'[c] = next /\ Turn(c)
  BY <1>1, <1>2, <1>3 DEF Turn
<1>5. /\ \A d \in Callers : ~FromVault(d)
      /\ cache = None => \A d \in Callers : Rests(d)
  <2>1. \A d \in Callers : procs[d].pc # "load"
    BY <1>2, SessionsAssumption DEF TypeOK
  <2> QED
    BY <2>1 DEF TInv, VaultReadAlone, FromVault
<1>6. MadeInOrder' /\ KnownWereMade' /\ SavedAreSecret' /\ Kept'
  <2>1. \A b \in Savers : procs[b].pc = "save_vault" \/ (procs[b].pc = "save_cache" /\ ~crossed')
           => procs[b].got # Credentials
    <3>1. CASE cache # None
      BY <1>2, <3>1 DEF TInv, SavedAreSecret, IsSecret, InHand, Credentials
    <3>2. CASE cache = None
      BY <1>2, <1>5, <3>2
         DEF TInv, SavedAreSecret, IsSecret, InHand, Credentials, Persisted, Rests, Crosses, Savers
    <3> QED
      BY <3>1, <3>2
  <2>2. next.got \in {None, Credentials}
    BY <1>3 DEF Credentials
  <2>3. UNCHANGED <<sessions, born, clock, vault, fallback, cache, forfeited>> /\ ~Saving(c)
    BY <1>2 DEF registry, storage, Saving
  <2> QED
    BY <1>1, <1>2, <1>3, <1>4, <2>1, <2>2, <2>3, CredentialsWereMade, ReadingKeepsTokens
<1>7. \A b \in Savers : b # c => procs'[b] = procs[b]
  BY <1>1, <1>4, OthersStay
<1>8. /\ Persisted' = Persisted /\ InForce' = InForce
      /\ UNCHANGED <<cache, unlocked, forfeited>>
  BY <1>2 DEF storage, registry, Persisted, InForce, Rows
<1>9. VaultReadAlone'
  <2>1. CASE cache # None
    <3>1. \A d \in Callers : ~FromVault(d)'
      BY <1>1, <1>3, <1>4, <1>5, <1>7, <2>1 DEF FromVault
    <3> QED
      BY <1>1, <1>2, <1>7, <1>8, <2>1, <3>1 DEF TInv, VaultReadAlone
  <2>2. CASE cache = None
    <3>1. FromVault(c)' /\ procs'[c].got = Persisted
      BY <1>2, <1>3, <1>4, <2>2 DEF FromVault, Credentials
    <3>2. \A d \in Callers \ {c} : Rests(d)' /\ ~FromVault(d)'
      BY <1>1, <1>5, <1>7, <2>2 DEF Rests, FromVault
    <3>3. ~forfeited => Persisted \in InForce
      BY <1>2, <1>5, <2>2 DEF TInv, Kept, Rests, Credentials
    <3>4. procs'[User].pc = "unlock" => crossed'
      BY <1>1, <1>2, <1>7, <2>2 DEF Crosses
    <3> QED
      BY <1>2, <1>8, <3>1, <3>2, <3>3, <3>4 DEF VaultReadAlone
  <2> QED
    BY <2>1, <2>2
<1> QED
  BY <1>6, <1>9 DEF TInv

(* What the lookup has read from the vault goes to the cache; it has been alone with it. *)
LEMMA Cached ==
  ASSUME TypeOK, TInv, NEW c \in Callers, registry_client(c)
  PROVE  TInv'
<1>1. /\ c \in Savers /\ c \in Actors /\ c # User /\ User \in Savers /\ Callers \subseteq Savers
      /\ procs \in [Actors -> Proc]
  BY ValuesAreNumbers, SessionsAssumption DEF Savers, Actors, People
<1>2. /\ procs[c].pc = "load" /\ Caches(c)
      /\ Returns(c) \/ (Goto(c, "client") /\ Release(c)) \/ (Goto(c, "refresh") /\ UNCHANGED gate)
      /\ UNCHANGED <<registry, clock, vault, fallback, active, unlocked, history>>
  BY DEF registry_client
<1>3. /\ Turn(c) /\ procs'[c].pc \in {"idle", "client", "refresh"}
      /\ procs'[c].own \in {procs[c].own, None} /\ procs'[c].got \in {procs[c].got, None}
  <2>1. Turn(c) /\ procs'[c].pc \in {"idle", "client", "refresh"}
    BY <1>1, <1>2, TurnsOfACall DEF PCs
  <2>2. Stops(c) => procs'[c] = Idle
    BY <1>1 DEF Stops
  <2>3. ASSUME NEW pc \in PCs, Goto(c, pc)
        PROVE  procs'[c].own = procs[c].own /\ procs'[c].got = procs[c].got
    BY <1>1, <2>3 DEF Goto, Proc
  <2> QED
    BY <1>2, <2>1, <2>2, <2>3 DEF Returns, Idle, PCs
<1> DEFINE t == procs[c].got
<1>4. cache' = IF t # None THEN t ELSE cache
  BY <1>2 DEF Caches
<1>5. t # None => (~forfeited => t \in InForce) /\ \A d \in Callers \ {c} : Rests(d)
  BY <1>2 DEF TInv, VaultReadAlone, FromVault
<1>6. cache' # None /\ unlocked
  BY <1>2, <1>4 DEF TInv, VaultReadAlone, Rests, FromVault
<1>7. MadeInOrder' /\ KnownWereMade' /\ SavedAreSecret' /\ Kept'
  <2>1. t \in Nat /\ t <= Made
    BY <1>1, ValuesAreNumbers DEF TInv, KnownWereMade
  <2>2. \A b \in Savers : procs[b].pc = "save_vault" \/ (procs[b].pc = "save_cache" /\ ~crossed')
           => procs[b].got # t
    BY <1>1, <1>2 DEF TInv, SavedAreSecret, IsSecret, InHand, history
  <2>3. cache' = cache \/ (cache' = t /\ (~forfeited /\ ~crossed' => t = None \/ t \in InForce))
    BY <1>4, <1>5
  <2>4. UNCHANGED <<sessions, born, clock, vault, fallback, forfeited, crossed>> /\ ~Saving(c)
    BY <1>2 DEF registry, history, Saving
  <2>5. procs'[c].got \in {procs[c].got, None, t}
    BY <1>3
  <2> HIDE DEF t
  <2> QED
    BY <1>1, <1>3, <2>1, <2>2, <2>3, <2>4, <2>5, ReadingKeepsTokens
<1>8. VaultReadAlone'
  <2>1. \A b \in Savers : b # c => procs'[b] = procs[b]
    BY <1>1, <1>3, OthersStay
  <2>2. \A d \in Callers : ~FromVault(d)'
    <3>1. ASSUME NEW d \in Callers \ {c}, FromVault(d) PROVE FALSE
      BY <1>2, <3>1 DEF TInv, VaultReadAlone, Rests
    <3> QED
      BY <1>1, <1>3, <2>1, <3>1 DEF FromVault
  <2>3. procs[User].pc = "unlock" /\ ~crossed => procs[User].got = None
    BY <1>2 DEF TInv, VaultReadAlone, Rests
  <2> QED
    BY <1>1, <1>2, <1>6, <2>1, <2>2, <2>3 DEF VaultReadAlone, history
<1> QED
  BY <1>7, <1>8 DEF TInv

-----------------------------------------------------------------------------
(* Each action's turn *)

LEMMA QuietActions ==
  ASSUME TypeOK, TInv, NEW a \in Actors,
         \/ exchange_invitation_check(a) /\ a \in People
         \/ (send_json(a) \/ send_json_again(a)) /\ a \in Callers
         \/ (save_vault(a) \/ save_meta(a)) /\ Returns(a)
  PROVE  QuietTurn(a)
<1>1. procs \in [Actors -> Proc]
  BY ValuesAreNumbers
<1>2. Idle.pc = "idle" /\ Idle.own = None /\ Idle.got = None
  BY DEF Idle
<1>3. \A pc \in PCs : Goto(a, pc) =>
        procs'[a].pc = pc /\ procs'[a].own = procs[a].own /\ procs'[a].got = procs[a].got
  BY <1>1 DEF Goto, Proc
<1>4. Stops(a) => procs'[a] = Idle
  BY <1>1 DEF Stops
<1>5. Returns(a) => Stops(a)
  BY DEF Returns
<1>6. CASE exchange_invitation_check(a) /\ a \in People
  <2> DEFINE next == [procs[a] EXCEPT !.pc = "exchange", !.seen = invitation.uses]
  <2>1. procs[a] \in Proc /\ invitation.uses \in Nat
    BY <1>1 DEF TypeOK
  <2>2. /\ next \in Proc /\ next.pc = "exchange"
        /\ next.own = procs[a].own /\ next.got = procs[a].got
    BY <2>1 DEF Proc, PCs
  <2>3. procs' = [procs EXCEPT ![a] = next]
    BY <1>1, <1>6, <2>1 DEF exchange_invitation_check, Proc
  <2>4. /\ procs[a].pc = "idle"
        /\ UNCHANGED <<sessions, born, clock, storage, gate, history>>
    BY <1>6 DEF exchange_invitation_check
  <2> HIDE DEF next
  <2>5. procs'[a] = next
    BY <1>1, <2>3
  <2>6. Turn(a)
    BY <2>2, <2>3, <2>4, <2>5 DEF Turn
  <2>7. a \notin Callers
    BY <1>6, SessionsAssumption DEF People
  <2> QED
    BY <2>2, <2>4, <2>5, <2>6, <2>7 DEF QuietTurn, storage, history
<1>7. CASE (send_json(a) \/ send_json_again(a)) /\ a \in Callers
  <2>1. /\ UNCHANGED <<registry, clock, storage, gate, history>>
        /\ procs[a].pc \in {"client", "retry"}
        /\ Stops(a) \/ Goto(a, "refresh") \/ Goto(a, "client")
    BY <1>7 DEF send_json, send_json_again
  <2>2. Turn(a)
    BY <2>1, TurnsOfACall DEF PCs
  <2> QED
    BY <1>2, <1>3, <1>4, <2>1, <2>2 DEF QuietTurn, registry, storage, history, PCs
<1>8. CASE save_vault(a) /\ Returns(a)
  <2>1. ~Goto(a, "save_cache")
    BY <1>2, <1>3, <1>4, <1>5, <1>8 DEF PCs
  <2>2. /\ procs[a].pc = "save_vault" /\ Forfeits(a)
        /\ UNCHANGED <<registry, clock, vault, fallback, cache, active, unlocked, crossed>>
    BY <1>8, <2>1 DEF save_vault
  <2>3. Turn(a)
    BY <1>8, TurnsOfACall
  <2> QED
    BY <1>2, <1>4, <1>5, <1>8, <2>2, <2>3 DEF QuietTurn, registry, Forfeits
<1>9. CASE save_meta(a) /\ Returns(a)
  <2>1. /\ procs[a].pc = "save_meta"
        /\ UNCHANGED <<registry, clock, vault, fallback, cache, active, unlocked, history>>
    BY <1>9 DEF save_meta
  <2>2. Turn(a)
    BY <1>9, TurnsOfACall
  <2> QED
    BY <1>2, <1>4, <1>5, <1>9, <2>1, <2>2 DEF QuietTurn, registry, history
<1> QED
  BY <1>6, <1>7, <1>8, <1>9

LEMMA Exchanged ==
  ASSUME TypeOK, TInv, NEW p \in People, exchange_invitation_commit(p)
  PROVE  TInv'
<1>1. p \in Actors /\ p \notin Callers /\ procs \in [Actors -> Proc]
  BY ValuesAreNumbers, SessionsAssumption DEF Actors, People
<1>2. /\ procs[p].pc = "exchange" /\ Fresh \in Tokens /\ MakeToken
      /\ sessions' = Append(sessions, [token |-> Fresh, revoked |-> FALSE])
      /\ UNCHANGED <<clock, storage, gate, history>>
  BY DEF exchange_invitation_commit
<1>3. InForce' = InForce \cup {Fresh}
  BY <1>2, SessionAdded
<1>4. CASE Stops(p)
  <2>1. Turn(p)
    BY <1>1, <1>2, <1>4, TurnsOfACall
  <2>2. procs'[p] = Idle
    BY <1>1, <1>4 DEF Stops
  <2> QED
    BY <1>1, <1>2, <1>3, <2>1, <2>2, TokenTurnKeepsTokens DEF TokenTurn, storage, history, Idle, Saving
<1>5. CASE procs' = [procs EXCEPT ![p] = [Idle EXCEPT !.pc = "save_vault", !.got = Fresh]]
  <2> DEFINE next == [Idle EXCEPT !.pc = "save_vault", !.got = Fresh]
  <2>1. next \in Proc /\ next.pc = "save_vault" /\ next.got = Fresh /\ next.own = None
    BY <1>2 DEF Idle, Proc, PCs, None
  <2>2. procs' = [procs EXCEPT ![p] = next]
    BY <1>5
  <2> HIDE DEF next
  <2>3. procs'[p] = next
    BY <1>1, <2>2
  <2>4. Turn(p)
    BY <1>2, <2>1, <2>2, <2>3 DEF Turn
  <2> QED
    BY <1>1, <1>2, <1>3, <2>1, <2>3, <2>4, TokenTurnKeepsTokens DEF TokenTurn, storage, history, Saving
<1> QED
  BY <1>4, <1>5 DEF exchange_invitation_commit

LEMMA Refreshed ==
  ASSUME TypeOK, TInv, NEW c \in Callers, refresh_session(c)
  PROVE  TInv'
<1>1. c \in Actors /\ procs \in [Actors -> Proc]
  BY ValuesAreNumbers DEF Actors
<1>2. procs[c].pc = "refresh" /\ UNCHANGED <<clock, storage, crossed>>
  BY DEF refresh_session
<1>3. GivesUp(c) \/ Returns(c) =>
        /\ Turn(c) /\ procs'[c].pc \in {"idle", "client"}
        /\ procs'[c].own \in {procs[c].own, None} /\ procs'[c].got \in {procs[c].got, None}
  <2>1. Stops(c) => procs'[c] = Idle
    BY <1>1 DEF Stops
  <2>2. Goto(c, "client") => procs'[c].own = procs[c].own /\ procs'[c].got = procs[c].got
    BY <1>1 DEF Goto, Proc
  <2>3. GivesUp(c) \/ Returns(c) => Turn(c) /\ procs'[c].pc \in {"idle", "client"}
    BY <1>1, TurnsOfACall DEF GivesUp, PCs
  <2> QED
    BY <2>1, <2>2, <2>3 DEF GivesUp, Returns, Idle
<1>4. CASE UNCHANGED <<registry, forfeited>> /\ (GivesUp(c) \/ Returns(c))
  BY <1>1, <1>2, <1>3, <1>4, QuietTurnKeepsTokens DEF QuietTurn, registry, storage
<1>5. CASE /\ \E r \in Renewable(procs[c].own) : Rotate(r)
           /\ \/ /\ procs' = [procs EXCEPT ![c].pc = "save_vault", ![c].got = Fresh]
                 /\ UNCHANGED <<gate, forfeited>>
              \/ GivesUp(c) /\ Forfeits(c)
  <2>1. PICK r \in Renewable(procs[c].own) : Rotate(r)
    BY <1>5
  <2>2. r \in Rows /\ sessions[r].token = procs[c].own
    BY DEF Renewable
  <2>3. /\ Fresh \in InForce' /\ InForce' \subseteq InForce \cup {Fresh}
        /\ \A t \in InForce : t # procs[c].own => t \in InForce'
    BY <2>1, <2>2, SessionRotated DEF Rotate
  <2>4. Fresh \in Tokens /\ MakeToken
    BY <2>1 DEF Rotate
  <2>5. CASE /\ procs' = [procs EXCEPT ![c].pc = "save_vault", ![c].got = Fresh]
             /\ UNCHANGED <<gate, forfeited>>
    <3>1. /\ procs'[c].pc = "save_vault" /\ procs'[c].got = Fresh /\ procs'[c].own = procs[c].own
          /\ procs'[c] \in Proc /\ procs' = [procs EXCEPT ![c] = procs'[c]]
      BY <1>1, <2>4, <2>5 DEF Proc, PCs
    <3>2. Turn(c)
      BY <2>5, <3>1 DEF Turn
    <3> QED
      BY <1>1, <1>2, <2>3, <2>4, <2>5, <3>1, <3>2, TokenTurnKeepsTokens DEF TokenTurn, storage, Saving
  <2>6. CASE GivesUp(c) /\ Forfeits(c)
    <3>1. forfeited'
      BY <2>6 DEF Forfeits
    <3> QED
      BY <1>1, <1>2, <1>3, <2>3, <2>4, <2>6, <3>1, TokenTurnKeepsTokens DEF TokenTurn, storage, Saving
  <2> QED
    BY <1>5, <2>5, <2>6
<1> QED
  BY <1>4, <1>5 DEF refresh_session

LEMMA Died ==
  ASSUME TypeOK, TInv, Crash
  PROVE  TInv'
<1>1. /\ cache' = None /\ crossed' = FALSE
      /\ procs' = [a \in Actors |-> IF a \in Others THEN procs[a] ELSE Idle]
      /\ forfeited' = (forfeited \/ \E a \in Callers : procs[a].pc = "save_vault")
      /\ UNCHANGED <<sessions, born, clock, vault, fallback>>
  BY DEF Crash
<1>2. /\ \A a \in Savers : procs'[a] = Idle
      /\ User \in Savers /\ Callers \subseteq Savers
  BY <1>1, SessionsAssumption DEF Savers, Actors, People
<1>3. InForce' = InForce /\ Made' = Made /\ Persisted' = Persisted
  BY <1>1 DEF InForce, Rows, Made, Persisted
<1>4. MadeInOrder'
  BY <1>1, <1>3 DEF TInv, MadeInOrder
<1>5. KnownWereMade'
  BY <1>1, <1>2, <1>3 DEF TInv, MadeInOrder, KnownWereMade, Idle, None
<1>6. SavedAreSecret' /\ VaultReadAlone'
  BY <1>1, <1>2 DEF SavedAreSecret, VaultReadAlone, Saving, InHand, Rests, FromVault, Idle
<1>7. Kept'
  BY <1>1, <1>3 DEF TInv, Kept
<1> QED
  BY <1>4, <1>5, <1>6, <1>7 DEF TInv

-----------------------------------------------------------------------------
LEMMA TokensInitially ==
  ASSUME Init
  PROVE  TInv
<1>1. /\ \A a \in Savers : procs[a] = Idle
      /\ User \in Savers /\ Callers \subseteq Savers
  BY DEF Init, Savers, Actors, People
<1>2. {t \in Tokens : born[t] # None} = {}
  BY DEF Init
<1>3. Made = 0
  BY <1>2, FS_EmptySet DEF Made
<1>4. InForce = {}
  BY DEF Init, InForce, Rows
<1>5. MadeInOrder
  BY <1>3, TokensAreNumbers DEF Init, MadeInOrder, None
<1>6. KnownWereMade
  BY <1>1, <1>3, <1>4 DEF Init, KnownWereMade, Idle, None
<1>7. SavedAreSecret /\ VaultReadAlone
  BY <1>1 DEF Init, SavedAreSecret, VaultReadAlone, Saving, InHand, Rests, FromVault, Idle
<1>8. Kept
  BY DEF Init, Kept, Persisted
<1> QED
  BY <1>5, <1>6, <1>7, <1>8 DEF TInv

LEMMA EveryStepKeepsTokens ==
  ASSUME TypeOK, TInv, [Next]_vars
  PROVE  TInv'
<1>1. User \in Savers /\ User \in Actors /\ Callers \subseteq Savers /\ Savers \subseteq Actors
      /\ People \subseteq Actors /\ Others \subseteq People
  BY DEF Savers, Actors, People
<1>2. ASSUME NEW a \in Savers, save_vault(a) \/ save_cache(a) \/ save_meta(a) PROVE TInv'
  BY <1>1, <1>2, VaultSaved, CacheSaved, MetaSaved, QuietActions, QuietTurnKeepsTokens
<1>3. CASE \E p \in People : exchange_invitation_check(p)
  BY <1>1, <1>3, QuietActions, QuietTurnKeepsTokens
<1>4. CASE \E p \in Others : exchange_invitation_commit(p)
  BY <1>1, <1>4, Exchanged
<1>5. CASE UserStep
  BY <1>1, <1>2, <1>5, Exchanged, Activated, Authenticated, Unlocked DEF UserStep, People
<1>6. CASE \E c \in Callers : Step(c)
  BY <1>1, <1>2, <1>6, LookedUp, Cached, Refreshed, QuietActions, QuietTurnKeepsTokens DEF Step
<1>7. CASE \/ exchange_other_invitation \/ revoke_invitation \/ update_invitation
           \/ Tick \/ UNCHANGED vars
  <2>1. clock \in Nat
    BY DEF TypeOK
  <2>2. /\ UNCHANGED <<born, vault, fallback, cache, procs, history>>
        /\ clock' \in {clock, clock + 1}
        /\ unlocked' = unlocked \/ unlocked'
    BY <1>7 DEF exchange_other_invitation, revoke_invitation, update_invitation, Tick, vars,
                registry, storage
  <2>3. InForce' = InForce
    <3>1. CASE update_invitation
      BY <3>1, SessionsRevoked DEF update_invitation
    <3>2. CASE exchange_other_invitation \/ revoke_invitation \/ Tick \/ UNCHANGED vars
      BY <3>2 DEF exchange_other_invitation, revoke_invitation, Tick, vars, registry, InForce, Rows
    <3> QED
      BY <1>7, <3>1, <3>2
  <2> QED
    BY <2>1, <2>2, <2>3, NothingMoves
<1>8. CASE Crash
  BY <1>8, Died
<1> QED
  BY <1>3, <1>4, <1>5, <1>6, <1>7, <1>8 DEF Next

LEMMA KeptIsNotLost ==
  ASSUME TInv
  PROVE  NoTokenIsLost
<1>1. \A t : t \in InForce <=> Current(t)
  BY DEF InForce, Current
<1> QED
  BY <1>1 DEF TInv, Kept, NoTokenIsLost, VaultIsCurrent, CacheIsCurrent, Saving

(* With the device lock or without it, for any number of callers: the vault loses the newest
   tokens of a session only by a lost answer, a failed write or a death of Courier, never
   because renewals in and outside the session gate, saves, unlockings and new exchanges
   overlap; and the cache only if, besides, a lookup read the vault between a command's use
   of the vault and its write of the cache (load_credentials, persist_registry_session).     *)
THEOREM TokensAreKept == Spec => []NoTokenIsLost
<1>1. Init => TInv
  BY TokensInitially
<1>2. TypeOK /\ TInv /\ [Next]_vars => TInv'
  BY EveryStepKeepsTokens
<1>3. TInv => NoTokenIsLost
  BY KeptIsNotLost
<1>4. Spec => []TypeOK
  BY SessionTypes
<1> QED
  BY <1>1, <1>2, <1>3, <1>4, PTL DEF Spec
=============================================================================
