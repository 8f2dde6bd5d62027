------------------------------ MODULE Identity ------------------------------
(***************************************************************************)
(* Accounts and their sessions.  An account is a row of Postgres; a        *)
(* session is a record of Valkey, under the id its cookie carries.  What   *)
(* ends sessions (deactivation, a reset, a change of team) commits in the  *)
(* one store and then revokes in the other, while requests that have read  *)
(* either are still running.                                               *)
(*                                                                         *)
(* Each transaction and each round trip to Valkey is a step; the reads     *)
(* that only precede a write which is checked again after it are one step. *)
(***************************************************************************)
EXTENDS Integers, FiniteSets

CONSTANTS
    Managers, Reps,  \* accounts that are, or may be, provisioned
    Users,           \* bound: the accounts that sign in or reset a password
    Cookies,         \* session ids: a bound on those minted
    Requests,        \* requests of the API that run at a time
    NoOne,
    MaxVersion,      \* bound: versions published of a legal document
    MaxSecret,       \* bound: resets of an account's password
    MaxLinks,        \* bound: reset links of an account at a time
    MaxEpoch         \* bound: revocations of an account's sessions

ASSUME IdentityAssumption ==
    /\ Managers \cap Reps = {} /\ Managers # {} /\ Users \subseteq Managers \cup Reps
    /\ NoOne \notin Managers \cup Reps \cup Cookies
    /\ MaxVersion \in Nat /\ MaxSecret \in Nat /\ MaxLinks \in Nat /\ MaxEpoch \in Nat

VARIABLES
    account,    \* the account rows
    owns,       \* managers with a position that is not closed
    published,  \* the version in effect of each legal document, 0 for none
    accepted,   \* what each account has accepted
    links,      \* unused reset links of each account
    record,     \* session:<id>
    revoked,    \* session-revoked:<id>
    index,      \* account-sessions:<account>
    epoch,      \* account-revocation:<account>
    minted,     \* ids ever minted
    held,       \* ids a browser was given
    req         \* the requests that run

store == <<record, revoked, index, epoch, minted>>
rows == <<account, owns, published, accepted, links>>
vars == <<rows, store, held, req>>

Accounts == Managers \cup Reps
Kinds == {"consent", "terms"}
Gates == {"none", "first_sign_in", "consent", "terms"}

(* A password is named by the credential's state and the resets before it. *)
Credentials == {"initial", "set"}
Account == [status : {"absent", "active", "deactivated"}, credential : Credentials,
            secret : 0..MaxSecret, team : Managers \cup {NoOne}]
Password(row) == <<row.credential, row.secret>>

(* credential and secret are not in the code's record: they name the       *)
(* password the session was opened under, or set.                          *)
Session == [account : Accounts, gate : Gates, epoch : 0..MaxEpoch,
            credential : Credentials, secret : 0..MaxSecret]
NoSession == [account |-> NoOne, gate |-> "none", epoch |-> 0,
              credential |-> "initial", secret |-> 0]

Request == [at : {"idle", "verified", "captured", "loaded", "written",
                  "read", "slid", "resolved", "drop", "admitted",
                  "exited", "rotating", "rotated",
                  "due", "bumped", "listed", "checked"},
            account : Accounts \cup {NoOne}, cookie : Cookies \cup {NoOne},
            gate : Gates, epoch : 0..MaxEpoch, credential : Credentials, secret : 0..MaxSecret,
            seen : Session \cup {NoSession}, keys : SUBSET Cookies, team : Managers \cup {NoOne}]
Idle == [at |-> "idle", account |-> NoOne, cookie |-> NoOne, gate |-> "none", epoch |-> 0,
         credential |-> "initial", secret |-> 0, seen |-> NoSession, keys |-> {}, team |-> NoOne]

(* Types of the rows, the store and the requests. *)
IdentityTypeOK ==
    /\ account \in [Accounts -> Account]
    /\ owns \subseteq Managers
    /\ published \in [Kinds -> 0..MaxVersion]
    /\ accepted \in [Accounts -> SUBSET (Kinds \X (1..MaxVersion))]
    /\ links \in [Accounts -> 0..MaxLinks]
    /\ record \in [Cookies -> Session \cup {NoSession}]
    /\ revoked \subseteq Cookies
    /\ index \in [Accounts -> SUBSET Cookies]
    /\ epoch \in [Accounts -> 0..MaxEpoch]
    /\ minted \subseteq Cookies /\ held \subseteq minted
    /\ req \in [Requests -> Request]

Init ==
    /\ account = [a \in Accounts |->
                    [status |-> IF a \in Managers THEN "active" ELSE "absent",
                     credential |-> "initial", secret |-> 0,
                     team |-> IF a \in Managers THEN a ELSE NoOne]]
    /\ owns = {}
    /\ published = [k \in Kinds |-> 0]
    /\ accepted = [a \in Accounts |-> {}]
    /\ links = [a \in Accounts |-> 0]
    /\ record = [c \in Cookies |-> NoSession]
    /\ revoked = {} /\ minted = {} /\ held = {}
    /\ index = [a \in Accounts |-> {}]
    /\ epoch = [a \in Accounts |-> 0]
    /\ req = [p \in Requests |-> Idle]

Active(a) == account[a].status = "active"

(* The gates that block an account on the evidence of now, most urgent first. *)
HasAccepted(has, k) == <<k, published[k]>> \in has
Outstanding(has, k) == published[k] = 0 \/ ~HasAccepted(has, k)
PendingOf(credential, has) ==
    IF credential = "initial" THEN {"first_sign_in"} ELSE {k \in Kinds : Outstanding(has, k)}
Pending(a) == PendingOf(account[a].credential, accepted[a])
First(gates) == IF "first_sign_in" \in gates THEN "first_sign_in"
                ELSE IF "consent" \in gates THEN "consent"
                ELSE IF "terms" \in gates THEN "terms" ELSE "none"
FirstGate(a) == First(Pending(a))

Become(p, at) == req' = [req EXCEPT ![p].at = at]
Done(p) == req' = [req EXCEPT ![p] = Idle]
Is(p, at) == req[p].at = at

Removed(c) == /\ record' = [record EXCEPT ![c] = NoSession]
              /\ index' = [index EXCEPT ![record[c].account] = @ \ {c}]

-----------------------------------------------------------------------------
(* POST /auth/session *)

(* A right password of an active account; anything else changes nothing here. *)
Authenticate(p, a) ==
    /\ Is(p, "idle") /\ a \in Users /\ Active(a)
    /\ req' = [req EXCEPT ![p] = [Idle EXCEPT !.at = "verified", !.account = a,
                   !.credential = account[a].credential, !.secret = account[a].secret,
                   !.gate = IF account[a].credential = "initial" THEN "first_sign_in" ELSE "none"]]
    /\ UNCHANGED <<rows, store, held>>

CaptureEpoch(p) ==
    /\ Is(p, "verified")
    /\ req' = [req EXCEPT ![p].at = "captured", ![p].epoch = epoch[req[p].account]]
    /\ UNCHANGED <<rows, store, held>>

(* A second transaction, in the account's scope, before the session exists. *)
LoadPrincipal(p) ==
    LET a == req[p].account IN
    /\ Is(p, "captured")
    /\ IF Active(a) /\ Password(account[a]) = Password(req[p])
       THEN req' = [req EXCEPT ![p].at = "loaded",
                        ![p].gate = IF @ = "first_sign_in" THEN @ ELSE FirstGate(a)]
       ELSE Done(p)
    /\ UNCHANGED <<rows, store, held>>

CreateWrite(p, c) ==
    LET a == req[p].account IN
    /\ Is(p, "loaded") /\ c \notin minted
    /\ record' = [record EXCEPT ![c] = [account |-> a, gate |-> req[p].gate,
                                        epoch |-> req[p].epoch,
                                        credential |-> req[p].credential,
                                        secret |-> req[p].secret]]
    /\ index' = [index EXCEPT ![a] = @ \cup {c}]
    /\ minted' = minted \cup {c}
    /\ req' = [req EXCEPT ![p].at = "written", ![p].cookie = c]
    /\ UNCHANGED <<rows, revoked, epoch, held>>

(* A revocation since the epoch was captured takes the new session with it. *)
CreateCheck(p) ==
    LET a == req[p].account
        c == req[p].cookie
    IN  /\ Is(p, "written")
        /\ IF epoch[a] # req[p].epoch
           THEN /\ record' = [record EXCEPT ![c] = NoSession]
                /\ index' = [index EXCEPT ![a] = @ \ {c}]
                /\ UNCHANGED held
           ELSE held' = held \cup {c} /\ UNCHANGED <<record, index>>
        /\ Done(p)
        /\ UNCHANGED <<rows, revoked, epoch, minted>>

-----------------------------------------------------------------------------
(* Any request with a cookie *)

ResolveRead(p, c) ==
    LET s == record[c] IN
    /\ Is(p, "idle") /\ c \in held /\ s # NoSession
    /\ IF c \in revoked
       THEN record' = [record EXCEPT ![c] = NoSession] /\ UNCHANGED <<index, req>>
       ELSE IF s.epoch # epoch[s.account]
       THEN Removed(c) /\ UNCHANGED req
       ELSE /\ req' = [req EXCEPT ![p] = [Idle EXCEPT !.at = "read", !.cookie = c,
                                              !.account = s.account, !.seen = s]]
            /\ UNCHANGED <<record, index>>
    /\ UNCHANGED <<rows, revoked, epoch, minted, held>>

(* The idle clock slides by writing the record that was read, deleted or not. *)
ResolveSlide(p) ==
    /\ Is(p, "read")
    /\ record' = [record EXCEPT ![req[p].cookie] = req[p].seen]
    /\ Become(p, "slid")
    /\ UNCHANGED <<rows, revoked, index, epoch, minted, held>>

(* Mutant of ResolveCheck: it looks for a revoked account only. *)
ResolveCheck_EpochOnly(p) ==
    LET c == req[p].cookie
        a == req[p].account
    IN  /\ Is(p, "slid")
        /\ IF epoch[a] # req[p].seen.epoch
           THEN /\ record' = [record EXCEPT ![c] = NoSession]
                /\ index' = [index EXCEPT ![a] = @ \ {c}]
                /\ Done(p)
           ELSE Become(p, "resolved") /\ UNCHANGED <<record, index>>
        /\ UNCHANGED <<rows, revoked, epoch, minted, held>>

ResolveCheck(p) ==
    LET c == req[p].cookie
        a == req[p].account
    IN  /\ Is(p, "slid")
        /\ IF c \in revoked \/ epoch[a] # req[p].seen.epoch
           THEN /\ record' = [record EXCEPT ![c] = NoSession]
                /\ index' = [index EXCEPT ![a] = @ \ {c}]
                /\ Done(p)
           ELSE Become(p, "resolved") /\ UNCHANGED <<record, index>>
        /\ UNCHANGED <<rows, revoked, epoch, minted, held>>

(* The account is read again: a stored gate that has been cleared elsewhere *)
(* does not upgrade the session, it ends it.                                *)
CurrentSession(p) ==
    LET a == req[p].account
        g == req[p].seen.gate
    IN  /\ Is(p, "resolved")
        /\ IF Active(a) /\ (g = "none" \/ g \in Pending(a))
           THEN req' = [req EXCEPT ![p].at = "admitted", ![p].gate = FirstGate(a)]
           ELSE Become(p, "drop")
        /\ UNCHANGED <<rows, store, held>>

Revoke(c) ==
    /\ revoked' = revoked \cup {c}
    /\ record' = [record EXCEPT ![c] = NoSession]
    /\ index' = IF record[c] = NoSession THEN index
                ELSE [index EXCEPT ![record[c].account] = @ \ {c}]

Drop(p) ==
    /\ Is(p, "drop") /\ Revoke(req[p].cookie) /\ Done(p)
    /\ UNCHANGED <<rows, epoch, minted, held>>

(* DELETE /auth/session *)
SignOut(c) ==
    /\ c \in held /\ c \notin revoked /\ Revoke(c)
    /\ UNCHANGED <<rows, epoch, minted, held, req>>

(* A product request, once no gate is left; a manager's may open a position. *)
Serve(p) ==
    LET a == req[p].account IN
    /\ Is(p, "admitted") /\ req[p].gate = "none"
    /\ \/ UNCHANGED owns
       \/ a \in Managers /\ owns' = owns \cup {a}
    /\ Done(p)
    /\ UNCHANGED <<account, published, accepted, links, store, held>>

-----------------------------------------------------------------------------
(* POST /auth/first-sign-in and /auth/acceptances *)

MayAccept(ks) == \A k \in ks : published[k] > 0
With(a, ks) == accepted[a] \cup {<<k, published[k]>> : k \in ks}
SetCredential(row) == [row EXCEPT !.credential = "set"]

(* The instruments, the credential and the gate that remains, in one transaction. *)
ExitGate(p, ks, row) ==
    LET a == req[p].account IN
    /\ Is(p, "admitted") /\ Active(a) /\ MayAccept(ks)
    /\ accepted' = [accepted EXCEPT ![a] = With(a, ks)]
    /\ account' = [account EXCEPT ![a] = row]
    /\ req' = [req EXCEPT ![p].at = "exited",
                    ![p].gate = First(PendingOf(row.credential, With(a, ks))),
                    ![p].credential = IF row = account[a] THEN req[p].seen.credential ELSE "set",
                    ![p].secret = IF row = account[a] THEN req[p].seen.secret ELSE row.secret]
    /\ UNCHANGED <<owns, published, links, store, held>>

(* Both instruments and the credential, or 409 and nothing. *)
CompleteFirstSignIn(p) ==
    LET row == account[req[p].account] IN
    /\ Is(p, "admitted") /\ row.credential = "initial"
    /\ ExitGate(p, Kinds, SetCredential(row))

RecordAcceptances(p, ks) ==
    /\ Is(p, "admitted")
    /\ ExitGate(p, ks, account[req[p].account])

(* A gate exit that is refused, or any other answer of an error. *)
Refused(p) ==
    /\ Is(p, "admitted") /\ Done(p)
    /\ UNCHANGED <<rows, store, held>>

RotateRead(p) ==
    LET c == req[p].cookie
        s == record[c]
    IN  /\ Is(p, "exited")
        /\ IF s = NoSession THEN Done(p) /\ UNCHANGED <<record, index>>
           ELSE IF s.epoch # epoch[s.account] THEN Done(p) /\ Removed(c)
           ELSE /\ req' = [req EXCEPT ![p].at = "rotating", ![p].seen = s]
                /\ UNCHANGED <<record, index>>
        /\ UNCHANGED <<rows, revoked, epoch, minted, held>>

RotateWrite(p, n) ==
    LET c == req[p].cookie
        s == [req[p].seen EXCEPT !.gate = req[p].gate, !.credential = req[p].credential,
                                !.secret = req[p].secret]
    IN  /\ Is(p, "rotating") /\ n \notin minted
        /\ record' = [record EXCEPT ![n] = s, ![c] = NoSession]
        /\ index' = [index EXCEPT ![s.account] = (@ \cup {n}) \ {c}]
        /\ revoked' = revoked \cup {c}
        /\ minted' = minted \cup {n}
        /\ req' = [req EXCEPT ![p].at = "rotated", ![p].cookie = n]
        /\ UNCHANGED <<rows, epoch, held>>

RotateCheck(p) ==
    LET n == req[p].cookie
        a == req[p].account
    IN  /\ Is(p, "rotated")
        /\ IF epoch[a] # req[p].seen.epoch
           THEN /\ record' = [record EXCEPT ![n] = NoSession]
                /\ index' = [index EXCEPT ![a] = @ \ {n}]
                /\ UNCHANGED held
           ELSE held' = held \cup {n} /\ UNCHANGED <<record, index>>
        /\ Done(p)
        /\ UNCHANGED <<rows, revoked, epoch, minted>>

-----------------------------------------------------------------------------
(* What commits in Postgres and then ends every session of the account. *)

Revoking(a) == {p \in Requests : req[p].account = a /\ req[p].at = "due"}
ThenRevoke(p, a) ==
    /\ Is(p, "idle") /\ epoch[a] + Cardinality(Revoking(a)) < MaxEpoch
    /\ req' = [req EXCEPT ![p] = [Idle EXCEPT !.at = "due", !.account = a]]
    /\ UNCHANGED <<store, held>>

Dependents(m) == {r \in Reps : account[r].team = m /\ Active(r)}

Deactivate(p, a) ==
    /\ account[a].status # "absent"
    /\ a \in Managers => Dependents(a) = {} /\ a \notin owns
    /\ account' = [account EXCEPT ![a].status = "deactivated"]
    /\ ThenRevoke(p, a)
    /\ UNCHANGED <<owns, published, accepted, links>>

ChangeTeam(p, r, m) ==
    /\ Active(r) /\ Active(m)
    /\ account' = [account EXCEPT ![r].team = m]
    /\ ThenRevoke(p, r)
    /\ UNCHANGED <<owns, published, accepted, links>>

ConsumeReset(p, a) ==
    /\ links[a] > 0 /\ Active(a) /\ account[a].secret < MaxSecret
    /\ links' = [links EXCEPT ![a] = @ - 1]
    /\ account' = [account EXCEPT ![a].secret = @ + 1]
    /\ ThenRevoke(p, a)
    /\ UNCHANGED <<owns, published, accepted>>

(* revoke_all: the epoch, then the members of the index, then both deleted. *)
BumpEpoch(p) ==
    /\ Is(p, "due")
    /\ epoch' = [epoch EXCEPT ![req[p].account] = @ + 1]
    /\ Become(p, "bumped")
    /\ UNCHANGED <<rows, record, revoked, index, minted, held>>

ListSessions(p) ==
    /\ Is(p, "bumped")
    /\ IF index[req[p].account] = {} THEN Done(p)
       ELSE req' = [req EXCEPT ![p].at = "listed", ![p].keys = index[req[p].account]]
    /\ UNCHANGED <<rows, store, held>>

DeleteSessions(p) ==
    /\ Is(p, "listed")
    /\ record' = [c \in Cookies |-> IF c \in req[p].keys THEN NoSession ELSE record[c]]
    /\ index' = [index EXCEPT ![req[p].account] = {}]
    /\ Done(p)
    /\ UNCHANGED <<rows, revoked, epoch, minted, held>>

-----------------------------------------------------------------------------
(* Provisioning, transfer, reset links, documents, and time. *)

(* The manager is read without a lock; the row is inserted by a later statement. *)
ProvisionCheck(p, r, m) ==
    /\ Is(p, "idle") /\ account[r].status = "absent" /\ Active(m)
    /\ req' = [req EXCEPT ![p] = [Idle EXCEPT !.at = "checked", !.account = r, !.team = m]]
    /\ UNCHANGED <<rows, store, held>>

NewAccount(m) == [status |-> "active", credential |-> "initial", secret |-> 0, team |-> m]

ProvisionInsert(p) ==
    LET r == req[p].account IN
    /\ Is(p, "checked")
    /\ IF account[r].status = "absent"
       THEN account' = [account EXCEPT ![r] = NewAccount(req[p].team)]
       ELSE UNCHANGED account
    /\ Done(p)
    /\ UNCHANGED <<owns, published, accepted, links, store, held>>

TransferPosition(m, n) ==
    /\ m \in owns /\ Active(n)
    /\ owns' = (owns \ {m}) \cup {n}
    /\ UNCHANGED <<account, published, accepted, links, store, held, req>>

NewLink(a) == Active(a) /\ links' = [links EXCEPT ![a] = @ + 1]

IssueReset(a) ==
    /\ a \in Users /\ links[a] < MaxLinks /\ NewLink(a)
    /\ UNCHANGED <<account, owns, published, accepted, store, held, req>>

Publish(k) ==
    /\ published[k] < MaxVersion
    /\ published' = [published EXCEPT ![k] = @ + 1]
    /\ UNCHANGED <<account, owns, accepted, links, store, held, req>>

(* The nearer of the two clocks of a session, or the life of a link, ends. *)
Expire ==
    /\ \/ \E c \in Cookies :
            /\ record[c] # NoSession
            /\ record' = [record EXCEPT ![c] = NoSession]
            /\ UNCHANGED links
       \/ \E a \in Accounts :
            /\ links[a] > 0
            /\ links' = [links EXCEPT ![a] = @ - 1]
            /\ UNCHANGED record
    /\ UNCHANGED <<account, owns, published, accepted, revoked, index, epoch, minted, held, req>>

SessionStep(p) ==
    \/ CaptureEpoch(p) \/ LoadPrincipal(p) \/ CreateCheck(p)
    \/ ResolveSlide(p) \/ ResolveCheck(p) \/ CurrentSession(p) \/ Drop(p)
    \/ Serve(p) \/ CompleteFirstSignIn(p) \/ Refused(p)
    \/ RotateRead(p) \/ RotateCheck(p)
    \/ BumpEpoch(p) \/ ListSessions(p) \/ DeleteSessions(p) \/ ProvisionInsert(p)

Next ==
    \/ \E p \in Requests :
        \/ SessionStep(p)
        \/ \E a \in Accounts : Authenticate(p, a) \/ Deactivate(p, a) \/ ConsumeReset(p, a)
        \/ \E c \in Cookies : ResolveRead(p, c) \/ CreateWrite(p, c) \/ RotateWrite(p, c)
        \/ \E ks \in SUBSET Kinds : RecordAcceptances(p, ks)
        \/ \E r \in Reps : \E m \in Managers : ChangeTeam(p, r, m) \/ ProvisionCheck(p, r, m)
    \/ \E c \in Cookies : SignOut(c)
    \/ \E m, n \in Managers : TransferPosition(m, n)
    \/ \E a \in Accounts : IssueReset(a)
    \/ \E k \in Kinds : Publish(k)
    \/ Expire

Spec == Init /\ [][Next]_vars
-----------------------------------------------------------------------------
Resolves(c) == /\ record[c] # NoSession /\ c \notin revoked
               /\ record[c].epoch = epoch[record[c].account]

(* Once a deactivation or a reset has been answered, and whatever sign-in,  *)
(* request or rotation it overtook: a session that still resolves belongs   *)
(* to an active account and was opened, or rotated, under its present       *)
(* password's reset.                                                        *)
StaleSessionsEnd ==
    \A c \in held :
        LET a == record[c].account IN
        Resolves(c) /\ Revoking(a) = {} => Active(a) /\ record[c].secret = account[a].secret

(* Once the first password has been set, a session opened with the          *)
(* provisioned one is still limited, so that the next request ends it.      *)
LimitedStaysLimited ==
    \A c \in held :
        Resolves(c) /\ record[c].credential = "initial"
            /\ account[record[c].account].credential = "set"
        => record[c].gate = "first_sign_in"

(* A request that slides a session while it is being signed out or rotated  *)
(* writes its record back; none is left when the request has been answered. *)
RevokedLeavesNothing ==
    \A c \in revoked :
        record[c] # NoSession => \E p \in Requests : req[p].cookie = c /\ req[p].at = "slid"

(* An active rep's team is an active manager: deactivation refuses a manager *)
(* who owns dependents.                                                      *)
RepsHaveManagers == \A r \in Reps : Active(r) => Active(account[r].team)
=============================================================================
