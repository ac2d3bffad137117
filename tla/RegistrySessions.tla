--------------------------- MODULE RegistrySessions ---------------------------
(***************************************************************************)
(* The authorization of one device: an invitation exchanged for a session  *)
(* at the Registry, the session's rotating tokens kept by Courier in the   *)
(* credential vault, in a cache of the process and, with their expiry, in  *)
(* SQLite, and the callers (polls, uploads, downloads, the event loop)     *)
(* that look the session up, renew it and send requests with it.           *)
(*                                                                         *)
(* The lookup runs under session_gate; a client made by it renews its own  *)
(* copy of the tokens outside the gate when a request is answered 401.     *)
(* Requests and answers are lost, the vault refuses a write, Courier dies  *)
(* between any two steps, several people use the same invitation, and the  *)
(* administrator revokes the invitation or changes what it gives access to.*)
(*                                                                         *)
(* An access token and its refresh token are made and replaced together:   *)
(* the pair is one number, the order in which the Registry made it.  The   *)
(* module follows one invitation code, which invitation_scope turns into   *)
(* one session id: its entries of the vault, the cache and SQLite, and the *)
(* callers of the transfers bound to it.  The device may know other codes: *)
(* they have entries of their own, but session_gate, device_unlocked and   *)
(* the choice of the active session are shared with them.  A client has    *)
(* one request at a time (its refresh_lock covers the refresh and the      *)
(* repetition of the request).                                             *)
(***************************************************************************)
EXTENDS Naturals, FiniteSets, Sequences

CONSTANTS
    Callers,      \* what looks the session up on this device
    User,         \* the person at this device, entering the invitation code
    Others,       \* people at other devices with the same code
    MaximumUses,  \* the invitation's use limit
    DeviceLock,   \* TRUE where saved credentials need the owner's authentication (macOS)
    Due,          \* ticks after which a token is within five minutes of its expiry
    AccessLife,   \* ticks after which the access token is refused
    RefreshLife,  \* ticks after which the refresh token is refused
    MaxClock,     \* bound: ticks
    MaxTokens,    \* bound: token pairs made by the Registry
    MaxTrouble    \* bound: lost requests and answers, refused writes, deaths of Courier,
                  \* exchanges of another invitation, and the administrator's changes of
                  \* this one, together

Nobody == "nobody"

ASSUME SessionsAssumption ==
    /\ User \notin Callers /\ User \notin Others /\ Callers \cap Others = {}
    /\ Nobody \notin Callers \cup Others \cup {User}
    /\ MaximumUses \in Nat /\ DeviceLock \in BOOLEAN
    /\ Due \in Nat /\ AccessLife \in Nat /\ RefreshLife \in Nat
    /\ Due <= AccessLife /\ AccessLife <= RefreshLife
    /\ MaxClock \in Nat /\ MaxTokens \in Nat /\ MaxTrouble \in Nat

VARIABLES
    invitation, \* Registry: [uses, revoked]
    rowlock,    \* Registry: who holds the invitation's row FOR UPDATE
    sessions,   \* Registry: per session its current token and whether it is revoked
    born,       \* the tick at which each token was made
    clock,
    vault,      \* the credential vault's token
    fallback,   \* the token in registry-credentials.development.json (macOS)
    cache,      \* RuntimeState.credentials
    meta,       \* SQLite registry_sessions: the token whose expiry it records
    active,     \* SQLite: active_registry_session_id is this session
    unlocked,   \* RuntimeState.device_unlocked
    gate,       \* RuntimeState.session_gate
    procs,      \* what every actor is doing
    forfeited,  \* history: a new token was made and never reached the vault
    crossed,    \* history: since Courier started, a lookup read the vault while the person's
                \* command had read or written it and not yet filled the cache
    trouble     \* how much of that there was so far

registry == <<invitation, rowlock, sessions, born>>
storage  == <<vault, fallback, cache, meta, active, unlocked>>
history  == <<forfeited, crossed>>
vars     == <<registry, clock, storage, gate, procs, history, trouble>>

People == Others \cup {User}
Actors == Callers \cup People
None   == 0
Tokens == 1..MaxTokens

Made == Cardinality({t \in Tokens : born[t] # None})
Fresh == Made + 1                       \* the token the Registry makes next
Age(t) == clock - born[t]

PCs == {"idle", "load", "refresh", "exchange", "save_vault", "save_cache",
        "save_meta", "activate", "client", "retry", "unlock"}

(* own: the tokens an actor works with; got: the ones just received; seen: the expiry
   an actor read from SQLite, by the token it belongs to.                             *)
Idle == [pc |-> "idle", own |-> None, got |-> None, seen |-> None]

Goto(a, pc) == procs' = [procs EXCEPT ![a].pc = pc]
Stops(a)    == procs' = [procs EXCEPT ![a] = Idle]
Release(a)  == gate' = IF gate = a THEN Nobody ELSE gate

KeepsGate(a) == Stops(a) /\ UNCHANGED gate   \* mutant

(* The end of a call with an error or its result. *)
Returns(a) == Stops(a) /\ Release(a)

Trouble == trouble < MaxTrouble /\ trouble' = trouble + 1

Init ==
    /\ invitation = [uses |-> 0, revoked |-> FALSE] /\ rowlock = Nobody
    /\ sessions = <<>> /\ born = [t \in Tokens |-> None]
    /\ clock = 1
    /\ vault = None /\ fallback = None /\ cache = None /\ meta = None /\ active = FALSE
    /\ unlocked = ~DeviceLock
    /\ gate = Nobody /\ procs = [a \in Actors |-> Idle]
    /\ forfeited = FALSE /\ crossed = FALSE
    /\ trouble = 0

-----------------------------------------------------------------------------
(* The Registry *)

MakeToken == born' = [born EXCEPT ![Fresh] = clock]

Rows == DOMAIN sessions

(* require_courier_session: the access token is the current one of a session in force. *)
Accepts(t) ==
    /\ ~invitation.revoked
    /\ Age(t) < AccessLife
    /\ \E r \in Rows : sessions[r].token = t /\ ~sessions[r].revoked

(* refresh_session finds a session in force by its refresh token. *)
AnyTokenOfTheSession(t) == {r \in Rows : ~sessions[r].revoked /\ t # None}   \* mutant
Renewable(t) ==
    {r \in Rows : /\ sessions[r].token = t /\ ~sessions[r].revoked
                  /\ ~invitation.revoked /\ Age(t) < RefreshLife}

Rotate(r) ==
    /\ Fresh \in Tokens
    /\ MakeToken
    /\ sessions' = [sessions EXCEPT ![r].token = Fresh]
    /\ UNCHANGED <<invitation, rowlock>>

RowNeverLocked == TRUE   \* mutant
RowUnlocked == rowlock = Nobody

(* exchange_invitation's checks, holding the invitation's row from here to the commit. *)
exchange_invitation_check(a) ==
    /\ procs[a].pc = "idle"
    /\ RowUnlocked
    /\ ~invitation.revoked /\ invitation.uses < MaximumUses
    /\ rowlock' = a
    /\ procs' = [procs EXCEPT ![a].pc = "exchange", ![a].seen = invitation.uses]
    /\ UNCHANGED <<invitation, sessions, born, clock, storage, gate, history, trouble>>

(* The session is added and the use counted.  The person at another device is done;
   here the answer is used, or lost, or a request Courier makes before it saves the
   session (the datasets, the Registry's configuration) fails.                      *)
exchange_invitation_commit(a) ==
    /\ procs[a].pc = "exchange"
    /\ Fresh \in Tokens
    /\ MakeToken
    /\ sessions' = Append(sessions, [token |-> Fresh, revoked |-> FALSE])
    /\ invitation' = [invitation EXCEPT !.uses = procs[a].seen + 1]
    /\ rowlock' = Nobody
    /\ \/ /\ a \in Others /\ Stops(a) /\ UNCHANGED trouble
       \/ /\ a = User
          /\ procs' = [procs EXCEPT ![a] = [Idle EXCEPT !.pc = "save_vault", !.got = Fresh]]
          /\ UNCHANGED trouble
       \/ a = User /\ Trouble /\ Stops(a)
    /\ UNCHANGED <<clock, storage, gate, history>>

revoke_invitation ==
    /\ RowUnlocked /\ ~invitation.revoked
    /\ Trouble
    /\ invitation' = [invitation EXCEPT !.revoked = TRUE]
    /\ UNCHANGED <<rowlock, sessions, born, clock, storage, gate, procs, history>>

(* update_invitation with other projects or another purpose ends the sessions. *)
update_invitation ==
    /\ RowUnlocked /\ ~invitation.revoked
    /\ Trouble
    /\ sessions' = [r \in Rows |-> [sessions[r] EXCEPT !.revoked = TRUE]]
    /\ UNCHANGED <<invitation, rowlock, born, clock, storage, gate, procs, history>>

Tick ==
    /\ clock < MaxClock /\ clock' = clock + 1
    /\ UNCHANGED <<registry, storage, gate, procs, history, trouble>>

-----------------------------------------------------------------------------
(* Saving a session: vault, cache, SQLite *)

(* A rotated token that Courier does not save: the one in the vault is no longer valid. *)
Forfeits(a) == forfeited' = (forfeited \/ a \in Callers)

(* On macOS a refused write goes to a file instead, which is read only while the keychain has
   nothing: an older token there keeps hiding the new one.                                   *)
save_vault(a) ==
    /\ procs[a].pc = "save_vault"
    /\ \/ /\ vault' = procs[a].got /\ Goto(a, "save_cache")
          /\ UNCHANGED <<fallback, gate, forfeited, trouble>>
       \/ /\ DeviceLock /\ Trouble
          /\ fallback' = procs[a].got /\ Goto(a, "save_cache")
          /\ IF vault = None THEN UNCHANGED forfeited ELSE Forfeits(a)
          /\ UNCHANGED <<vault, gate>>
       \/ Trouble /\ Returns(a) /\ Forfeits(a) /\ UNCHANGED <<vault, fallback>>
    /\ UNCHANGED <<registry, clock, cache, meta, active, unlocked, crossed>>

save_cache(a) ==
    /\ procs[a].pc = "save_cache"
    /\ cache' = procs[a].got /\ Goto(a, "save_meta")
    /\ UNCHANGED <<registry, clock, vault, fallback, meta, active, unlocked, gate, history, trouble>>

(* save_registry_session; then the caller has a client with the new tokens, or repeats
   the request that was refused, or the session becomes the active one.               *)
save_meta(a) ==
    /\ procs[a].pc = "save_meta"
    /\ \/ /\ meta' = procs[a].got
          /\ procs' = [procs EXCEPT
               ![a] = [Idle EXCEPT
                  !.own = procs[a].got,
                  !.pc = IF a = User THEN "activate" ELSE IF gate = a THEN "client" ELSE "retry"]]
          /\ Release(a)
          /\ UNCHANGED trouble
       \/ Trouble /\ Returns(a) /\ UNCHANGED meta
    /\ UNCHANGED <<registry, clock, vault, fallback, cache, active, unlocked, history>>

set_active_registry_session(a) ==
    /\ procs[a].pc = "activate"
    /\ active' = TRUE /\ unlocked' = TRUE
    /\ Stops(a)
    /\ UNCHANGED <<registry, clock, vault, fallback, cache, meta, gate, history, trouble>>

(* An exchange of another invitation has come to its end: it saved a session of its own,
   made that one the active one, and unlocked the device for all.                        *)
exchange_other_invitation ==
    /\ active \/ ~unlocked
    /\ Trouble
    /\ active' = FALSE /\ unlocked' = TRUE
    /\ UNCHANGED <<registry, clock, vault, fallback, cache, meta, gate, procs, history>>

-----------------------------------------------------------------------------
(* The lookup *)

(* load_persisted_credentials; older keychains and the legacy account names are left out. *)
Persisted == IF vault # None THEN vault ELSE fallback

(* load_credentials reads the vault only when the cache is empty.  What it read there it puts
   into the cache in a step of its own, over whatever is there by then.                      *)
Credentials == IF cache # None THEN cache ELSE Persisted
Loaded == [Idle EXCEPT !.own = Credentials, !.got = IF cache # None THEN None ELSE Persisted]
Caches(a) == cache' = IF procs[a].got # None THEN procs[a].got ELSE cache

(* authenticate_device, once the owner was recognised: the active session is loaded.  When it
   is another one, nothing of this one changes but the lock.                                *)
authenticate_device ==
    /\ DeviceLock /\ ~unlocked
    /\ procs[User].pc = "idle"
    /\ IF active
       THEN /\ Credentials # None
            /\ procs' = [procs EXCEPT ![User] = [Loaded EXCEPT !.pc = "unlock"]]
            /\ UNCHANGED unlocked
       ELSE unlocked' = TRUE /\ UNCHANGED procs
    /\ UNCHANGED <<registry, clock, vault, fallback, cache, meta, active, gate, history, trouble>>

authenticate_device_loaded ==
    /\ procs[User].pc = "unlock"
    /\ Caches(User)
    /\ unlocked' = TRUE
    /\ Stops(User)
    /\ UNCHANGED <<registry, clock, vault, fallback, meta, active, gate, history, trouble>>

(* The session's row in SQLite, without its tokens: the pair whose expiry it records. *)
registry_session == meta

GateAlwaysOpen == TRUE   \* mutant
GateOpen == gate = Nobody

(* The vault is read beside a command of the person that has yet to fill the cache. *)
Crosses == cache = None /\ procs[User].pc \in {"save_cache", "unlock"}

(* active_registry_session up to the credentials, of a transfer bound to the session, which
   need not be the active one.  Without a session, locked, or without credentials it ends in
   an error and nothing has changed: those calls are left out.                              *)
active_registry_session(c) ==
    /\ procs[c].pc = "idle"
    /\ GateOpen
    /\ registry_session # None /\ unlocked /\ Credentials # None
    /\ gate' = c
    /\ procs' = [procs EXCEPT ![c] = [Loaded EXCEPT !.pc = "load", !.seen = registry_session]]
    /\ crossed' = (crossed \/ Crosses)
    /\ UNCHANGED <<registry, clock, storage, forfeited, trouble>>

(* The rest of it: the credentials are cached; the recorded expiry decides between an
   error, a client with the tokens at hand, and a refresh under the gate.             *)
registry_client(c) ==
    /\ procs[c].pc = "load"
    /\ Caches(c)
    /\ \/ /\ Age(procs[c].seen) >= RefreshLife
          /\ Returns(c)
       \/ /\ Age(procs[c].seen) < Due
          /\ Goto(c, "client") /\ Release(c)
       \/ /\ Age(procs[c].seen) \in Due..(RefreshLife - 1)
          /\ Goto(c, "refresh") /\ UNCHANGED gate
    /\ UNCHANGED <<registry, clock, vault, fallback, meta, active, unlocked, history, trouble>>

-----------------------------------------------------------------------------
(* Requests and renewal *)

(* send_json: a request accepted, or answered 401 and the tokens renewed. *)
send_json(c) ==
    /\ procs[c].pc = "client"
    /\ \/ Accepts(procs[c].own) /\ Stops(c)
       \/ ~Accepts(procs[c].own) /\ Goto(c, "refresh")
    /\ UNCHANGED <<registry, clock, storage, gate, history, trouble>>

(* The repetition of the request after a renewal is the last. *)
send_json_again(c) ==
    /\ procs[c].pc = "retry"
    /\ \/ Accepts(procs[c].own) /\ Goto(c, "client")
       \/ ~Accepts(procs[c].own) /\ Stops(c)
    /\ UNCHANGED <<registry, clock, storage, gate, history, trouble>>

(* The request rotates the tokens and its answer arrives or is lost, or it is refused,
   or never arrives.  A caller in the gate gives up; send_upload_json may repeat the
   request with the tokens it had when the failure was one of transport.              *)
GivesUp(c) ==
    \/ Returns(c)
    \/ gate # c /\ Goto(c, "client") /\ UNCHANGED gate

refresh_session(c) ==
    /\ procs[c].pc = "refresh"
    /\ \/ /\ \E r \in Renewable(procs[c].own) : Rotate(r)
          /\ \/ /\ procs' = [procs EXCEPT ![c].pc = "save_vault", ![c].got = Fresh]
                /\ UNCHANGED <<gate, forfeited, trouble>>
             \/ Trouble /\ GivesUp(c) /\ Forfeits(c)
       \/ /\ Renewable(procs[c].own) = {}
          /\ Returns(c)
          /\ UNCHANGED <<registry, forfeited, trouble>>
       \/ Trouble /\ GivesUp(c) /\ UNCHANGED <<registry, forfeited>>
    /\ UNCHANGED <<clock, storage, crossed>>

(* Courier dies: the cache, the gate, every call and what it had not saved are gone.
   The exchange it was waiting for has no effect, or is one whose answer was lost.   *)
Crash ==
    /\ Trouble
    /\ cache' = None /\ unlocked' = ~DeviceLock /\ gate' = Nobody
    /\ procs' = [a \in Actors |-> IF a \in Others THEN procs[a] ELSE Idle]
    /\ rowlock' = IF rowlock = User THEN Nobody ELSE rowlock
    /\ forfeited' = (forfeited \/ \E a \in Callers : procs[a].pc = "save_vault")
    /\ crossed' = FALSE
    /\ UNCHANGED <<invitation, sessions, born, clock, vault, fallback, meta, active>>

Step(c) ==
    \/ active_registry_session(c) \/ registry_client(c) \/ send_json(c) \/ send_json_again(c)
    \/ refresh_session(c) \/ save_vault(c) \/ save_cache(c) \/ save_meta(c)

UserStep ==
    \/ exchange_invitation_commit(User) \/ save_vault(User) \/ save_cache(User) \/ save_meta(User)
    \/ set_active_registry_session(User) \/ authenticate_device \/ authenticate_device_loaded

Next ==
    \/ \E p \in People : exchange_invitation_check(p)
    \/ \E p \in Others : exchange_invitation_commit(p)
    \/ UserStep
    \/ \E c \in Callers : Step(c)
    \/ exchange_other_invitation \/ revoke_invitation \/ update_invitation \/ Tick \/ Crash

Spec == Init /\ [][Next]_vars

(* The event loop, the polls and the resumed uploads call again and again, and a task that
   was started runs on, the person's included.  Nobody has to enter an invitation, unlock
   the device or administer anything.                                                     *)
Fairness ==
    /\ \A c \in Callers : WF_vars(Step(c))
    /\ WF_vars(UserStep /\ procs[User].pc # "idle")

FairSpec == Spec /\ Fairness

-----------------------------------------------------------------------------
(* Types, and that a lookup has the gate for itself. *)
TypeOK ==
    /\ invitation \in [uses : Nat, revoked : BOOLEAN]
    /\ rowlock \in People \cup {Nobody}
    /\ sessions \in Seq([token : Tokens, revoked : BOOLEAN])
    /\ born \in [Tokens -> Nat] /\ clock \in Nat /\ trouble \in Nat
    /\ vault \in Tokens \cup {None} /\ fallback \in Tokens \cup {None} /\ cache \in Tokens \cup {None}
    /\ meta \in Tokens \cup {None}
    /\ active \in BOOLEAN /\ unlocked \in BOOLEAN
    /\ forfeited \in BOOLEAN /\ crossed \in BOOLEAN
    /\ gate \in Callers \cup {Nobody}
    /\ procs \in [Actors -> [pc : PCs, own : Tokens \cup {None}, got : Tokens \cup {None}, seen : Nat]]
    /\ \A c \in Callers : procs[c].pc = "load" => gate = c

Current(t) == \E r \in Rows : sessions[r].token = t

VaultIsCurrent ==
    Persisted # None => Current(Persisted) \/ \E c \in Callers : procs[c].pc = "save_vault"

CacheIsCurrent ==
    cache # None => Current(cache) \/ \E c \in Callers : procs[c].pc \in {"save_vault", "save_cache"}

(* However lookups, renewals outside the gate, unlocking and new exchanges interleave, the
   tokens in the vault are the newest of a session, or a caller is about to replace them, as
   long as the answer to every rotation came and the vault took its tokens.  The same holds of
   the cache, unless a lookup read the vault beside a command that had yet to fill the cache;
   and then only until Courier is restarted.                                                  *)
NoTokenIsLost == ~forfeited => VaultIsCurrent /\ (~crossed => CacheIsCurrent)

(* Without that exception it fails, with the device lock and without it: the command's older
   tokens end in the cache, over those of the lookup, and every later lookup is refused.     *)
CacheIsNeverSetBack == ~forfeited => CacheIsCurrent

(* Exchanges of one invitation at the same time give no more sessions than its limit. *)
UseLimitKept == Len(sessions) <= MaximumUses

(* The device can use its session, by what it recorded and by what the Registry knows. *)
Authorized ==
    /\ unlocked /\ meta # None
    /\ Renewable(Credentials) # {} /\ Age(meta) < RefreshLife

(* An authorized device whose access token runs out gets a new one, whatever fails on the
   way, unless that ended the authorization; no caller keeps the others from the gate.    *)
AccessIsRenewed ==
    Authorized ~> (~Authorized \/ Accepts(Credentials) \/ Made = MaxTokens)

(* What active_registry_session's comment says of the gate: no refresh token is used again
   after it was rotated.  The clients it returns refresh outside the gate.                *)
RefreshTokensAreNotReused ==
    \A c \in Callers : procs[c].pc = "refresh" => Current(procs[c].own)
=============================================================================
