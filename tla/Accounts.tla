------------------------------ MODULE Accounts ------------------------------
(***************************************************************************)
(* Accounts, sessions and reset links (internal/auth): sign-up, login,     *)
(* logout, password change, the operator's reset link and its use, the     *)
(* sliding renewal of the session middleware, the hourly clean-up and the  *)
(* rate limiters.                                                          *)
(*                                                                         *)
(* A request runs a statement at a time against the others.  Statements    *)
(* outside a transaction are atomic; a transaction's writes (doomed rows,  *)
(* the new password, the new row) land when it commits, its row locks make *)
(* the others wait.  A token is named by the request that made it, its     *)
(* hash is not told apart from it; a password hash is the password it      *)
(* matches.  All requests come from one address.                           *)
(***************************************************************************)
EXTENDS Integers, FiniteSets

CONSTANTS
    Emails, Lower(_),   \* addresses as typed, and their lower case
    Passwords, Weak,    \* Weak is one that validatePassword refuses
    Requests,           \* each is handled once
    Asks,               \* what a request may ask for
    First,              \* the token of the session and of the link at start
    Holder, Original,   \* the account at start and its password
    SessionLifetime, RenewThreshold, ResetLifetime, Window,
    Limit,              \* attempts per window of each limiter
    MaxTime, MaxFaults, \* bounds of the instance
    Free, None, NoUser  \* sentinels

Users == {Lower(e) : e \in Emails}
Tokens == Requests \cup {First}
Limiters == {"loginIP", "loginEmail", "signupIP", "changePassword",
             "resetPassword"}
Keys == {"ip"} \cup Users
Kinds == {"signup", "login", "visit", "logout", "change", "reset", "issue"}

Buckets == [count : Nat, resetAt : Nat]

AskRecords == [kind : Kinds, email : Emails, old : Passwords \cup {Weak},
               new : Passwords \cup {Weak}]

ASSUME AccountsAssumption ==
    /\ Weak \notin Passwords /\ NoUser \notin Passwords
    /\ Original \in Passwords /\ Holder \in Users
    /\ First \notin Requests /\ Free \notin Requests
    /\ Asks \subseteq AskRecords /\ None \notin AskRecords
    /\ None \notin Buckets /\ None \notin Nat
    /\ SessionLifetime \in Nat \ {0} /\ RenewThreshold \in 0..SessionLifetime
    /\ ResetLifetime \in Nat \ {0} /\ Window \in Nat \ {0}
    /\ Limit \in [Limiters -> Nat] /\ MaxTime \in Nat /\ MaxFaults \in Nat

VARIABLES
    users,      \* users.password_hash by address, or NoUser
    furnished,  \* the users who own the default note types
    sessions,   \* by token: [user, expires, proof] or None
    links,      \* password_reset_tokens, by token: [user, expires] or None
    buckets,    \* limiter.seen
    now,
    pc, ask, cred,      \* a request: where it is, what it asks, its token
    who, hash,          \* the account and the password hash it has read
    snap, doomed,       \* rows a DELETE has seen; rows its transaction deletes
    owner,              \* who holds the lock of a users row
    faults,
    racers,     \* history: the requests under way during a transaction
    late,       \* history: racers of the last password change of a user
    allowed     \* history: when loginEmail let a request through

data == <<users, furnished, sessions, links>>
tx == <<snap, doomed, owner>>
history == <<racers, late, allowed>>
vars == <<data, buckets, now, pc, ask, cred, who, hash, tx, faults, history>>

Ended == {"done", "invalid", "limited", "refused", "conflict", "failed"}
InTx == {"update", "purge", "scan", "revoke", "commit"}
Places == {"exists", "create", "seed", "lookup", "open", "session", "renew",
           "end", "check", "peek", "consume"} \cup InTx
Active(t) == pc[t] \notin Ended \cup {"idle"}
NoRows == [sessions |-> {}, links |-> {}]

-----------------------------------------------------------------------------
(* One account, signed in once, with a reset link on its way. *)
Init ==
    /\ users = [u \in Users |-> IF u = Holder THEN Original ELSE NoUser]
    /\ furnished = {Holder}
    /\ sessions = [s \in Tokens |->
         IF s = First THEN [user |-> Holder, expires |-> SessionLifetime,
                            proof |-> Original] ELSE None]
    /\ links = [l \in Tokens |->
         IF l = First THEN [user |-> Holder, expires |-> ResetLifetime]
         ELSE None]
    /\ buckets = [k \in Limiters \X Keys |-> None]
    /\ now = 0
    /\ pc = [t \in Requests |-> "idle"] /\ ask = [t \in Requests |-> None]
    /\ cred = [t \in Requests |-> None] /\ who = [t \in Requests |-> None]
    /\ hash = [t \in Requests |-> None]
    /\ snap = [t \in Requests |-> {}] /\ doomed = [t \in Requests |-> NoRows]
    /\ owner = [u \in Users |-> Free] /\ faults = 0
    /\ racers = [t \in Tokens |-> {}] /\ late = [u \in Users |-> {}]
    /\ allowed = [t \in Requests |-> None]

Go(t, where) == pc' = [pc EXCEPT ![t] = where]

(* The end of a request, and of its transaction and its locks. *)
Answer(t, status) ==
    /\ Go(t, status)
    /\ who' = [who EXCEPT ![t] = None] /\ hash' = [hash EXCEPT ![t] = None]
    /\ snap' = [snap EXCEPT ![t] = {}]
    /\ doomed' = [doomed EXCEPT ![t] = NoRows]
    /\ owner' = [u \in Users |-> IF owner[u] = t THEN Free ELSE owner[u]]

(* limiter.Allow: the bucket a key has once one more attempt is counted. *)
Counted(b) ==
    IF b = None \/ now >= b.resetAt THEN [count |-> 1, resetAt |-> now + Window]
    ELSE [b EXCEPT !.count = @ + 1]

Admits(l, k) == Counted(buckets[<<l, k>>]).count <= Limit[l]

(* Login asks loginIP first, and loginEmail only if that one allows. *)
Budgets(a, u) ==
    CASE a.kind = "signup" -> <<<<"signupIP", "ip">>>>
      [] a.kind = "login" -> <<<<"loginIP", "ip">>, <<"loginEmail", Lower(a.email)>>>>
      [] a.kind = "change" -> <<<<"changePassword", u>>>>
      [] a.kind = "reset" -> <<<<"resetPassword", "ip">>>>

(* A request spends its budgets in order, until one refuses. *)
Spend(t, u, next) ==
    LET b == Budgets(ask'[t], u)
        asked == {i \in DOMAIN b :
                    \A j \in 1..i-1 : Admits(b[j][1], b[j][2])}
        ok == \A i \in DOMAIN b : Admits(b[i][1], b[i][2])
    IN /\ buckets' = [k \in DOMAIN buckets |->
                        IF \E i \in asked : b[i] = k THEN Counted(buckets[k])
                        ELSE buckets[k]]
       /\ Go(t, IF ok THEN next ELSE "limited")
       /\ allowed' = IF ask'[t].kind = "login" /\ ok
                     THEN [allowed EXCEPT ![t] = now] ELSE allowed

(* validatePassword, on the password a form sets (login: on the one typed). *)
Validated(a) ==
    CASE a.kind = "login" -> a.old # Weak
      [] a.kind \in {"signup", "reset", "change"} -> a.new # Weak
      [] OTHER -> TRUE

(* A request of one of some kinds arrives, with a token if it needs one.   *)
(* Whoever is in a transaction now has company.                            *)
Arrive(t, kinds, creds) ==
    /\ pc[t] = "idle"
    /\ \E a \in Asks : a.kind \in kinds /\ ask' = [ask EXCEPT ![t] = a]
    /\ \E c \in creds : cred' = [cred EXCEPT ![t] = c]
    /\ racers' = [r \in Tokens |->
         IF r \in Requests /\ pc[r] \in InTx THEN racers[r] \cup {t}
         ELSE racers[r]]
    /\ UNCHANGED <<data, now, who, hash, tx, faults, late>>

(* The tokens in anybody's hands: those a request was answered with. *)
Handed == {First} \cup {r \in Requests : pc[r] = "done"}

(* POST /signup *)
PostSignup(t) ==
    /\ Arrive(t, {"signup"}, {None})
    /\ IF Validated(ask'[t]) THEN Spend(t, None, "exists")
       ELSE Go(t, "invalid") /\ UNCHANGED <<buckets, allowed>>

(* POST /login *)
PostLogin(t) ==
    /\ Arrive(t, {"login"}, {None})
    /\ IF Validated(ask'[t]) THEN Spend(t, None, "lookup")
       ELSE Go(t, "invalid") /\ UNCHANGED <<buckets, allowed>>

(* POST /reset-password: a password that is refused does not cost the link. *)
PostReset(t) ==
    /\ Arrive(t, {"reset"}, Handed)
    /\ IF Validated(ask'[t]) THEN Spend(t, None, "peek")
       ELSE Go(t, "invalid") /\ UNCHANGED <<buckets, allowed>>

(* The operator runs cmd/reset-password; no limiter, no validation here. *)
RunResetPassword(t) ==
    /\ Arrive(t, {"issue"}, {None})
    /\ Go(t, "lookup")
    /\ UNCHANGED <<buckets, allowed>>

(* Any request with a session cookie reaches the middleware first. *)
Request(t) ==
    /\ Arrive(t, {"visit", "logout", "change"}, Handed)
    /\ Go(t, "session")
    /\ UNCHANGED <<buckets, allowed>>

-----------------------------------------------------------------------------
(* The middleware. *)

(* GetSessionUser finds the row and its user. *)
LiveSession(s) == sessions[s] # None /\ sessions[s].expires > now

(* What the route behind the middleware does first. *)
Route(t) == CASE ask[t].kind = "visit" -> "done"
              [] ask[t].kind = "logout" -> "end"
              [] ask[t].kind = "change" -> "check"

(* No live row, no user: RequireUser sends the request to /login. *)
Authenticate(t) ==
    /\ pc[t] = "session"
    /\ LET s == sessions[cred[t]] IN
       IF LiveSession(cred[t])
       THEN /\ who' = [who EXCEPT ![t] = s.user]
            /\ hash' = [hash EXCEPT ![t] = users[s.user]]
            /\ Go(t, IF s.expires - now < RenewThreshold THEN "renew" ELSE Route(t))
       ELSE Go(t, "refused") /\ UNCHANGED <<who, hash>>
    /\ UNCHANGED <<data, buckets, now, ask, cred, tx, faults, history>>

(* A row that another transaction has deleted and not committed. *)
HeldSession(s) == \E v \in Requests : s \in doomed[v].sessions
HeldLink(l, t) == \E v \in Requests \ {t} : l \in doomed[v].links

(* The UPDATE, which a deleted row ignores. *)
Renewed(t, s) ==
    IF s = None THEN None ELSE [s EXCEPT !.expires = now + SessionLifetime]

(* The renewal, or its failure, which is only logged. *)
RenewSession(t) ==
    /\ pc[t] = "renew"
    /\ ~ HeldSession(cred[t])
    /\ Go(t, Route(t))
    /\ \/ /\ sessions' = [sessions EXCEPT ![cred[t]] = Renewed(t, @)]
          /\ UNCHANGED faults
       \/ /\ faults < MaxFaults /\ faults' = faults + 1
          /\ UNCHANGED sessions
    /\ UNCHANGED <<users, furnished, links, buckets, now, ask, cred, who, hash,
                   tx, history>>

-----------------------------------------------------------------------------
(* Sign-up, login, logout: statements on their own. *)

EmailExists(u) == users[u] # NoUser

(* Signup looks before it inserts, beside the hashing. *)
CheckEmail(t) ==
    /\ pc[t] = "exists"
    /\ Go(t, IF EmailExists(Lower(ask[t].email)) THEN "conflict" ELSE "create")
    /\ UNCHANGED <<data, buckets, now, ask, cred, who, hash, tx, faults, history>>

(* ON CONFLICT (lower(email)) DO NOTHING returned no row. *)
Conflicts(u) == users[u] # NoUser

(* CreateUser: the loser of two sign-ups gets no row, hence ErrEmailTaken. *)
CreateUser(t) ==
    /\ pc[t] = "create"
    /\ LET u == Lower(ask[t].email) IN
       IF Conflicts(u) THEN Go(t, "conflict") /\ UNCHANGED <<users, who, hash>>
       ELSE /\ users' = [users EXCEPT ![u] = ask[t].new]
            /\ who' = [who EXCEPT ![t] = u]
            /\ hash' = [hash EXCEPT ![t] = ask[t].new]
            /\ Go(t, "seed")
    /\ UNCHANGED <<furnished, sessions, links, buckets, now, ask, cred, tx,
                   faults, history>>

(* seedDefaultNoteTypes, whose failure is only logged. *)
SeedDefaultNoteTypes(t) ==
    /\ pc[t] = "seed"
    /\ Go(t, "open")
    /\ \/ furnished' = furnished \cup {who[t]} /\ UNCHANGED faults
       \/ faults < MaxFaults /\ faults' = faults + 1 /\ UNCHANGED furnished
    /\ UNCHANGED <<users, sessions, links, buckets, now, ask, cred, who, hash,
                   tx, history>>

(* The password hash GetUserByEmail returns, or no row. *)
GetUserByEmail(t) ==
    /\ who' = [who EXCEPT ![t] = Lower(ask[t].email)]
    /\ hash' = [hash EXCEPT ![t] = users[Lower(ask[t].email)]]

(* Login: a missing user costs the same comparison and the same answer. *)
Login(t) ==
    /\ pc[t] = "lookup" /\ ask[t].kind = "login"
    /\ GetUserByEmail(t)
    /\ Go(t, IF ask[t].old = hash'[t] THEN "open" ELSE "refused")
    /\ UNCHANGED <<data, buckets, now, ask, cred, tx, faults, history>>

NewSession(t, proof) ==
    [user |-> who[t], expires |-> now + SessionLifetime, proof |-> proof]

(* createSession, with what was read when the password was compared. *)
OpenSession(t) ==
    /\ pc[t] = "open"
    /\ sessions' = [sessions EXCEPT ![t] = NewSession(t, hash[t])]
    /\ Answer(t, "done")
    /\ UNCHANGED <<users, furnished, links, buckets, now, ask, cred, faults, history>>

(* Logout: deleting an absent row is not an error. *)
DeleteSession(t) ==
    /\ pc[t] = "end"
    /\ ~ HeldSession(cred[t])
    /\ sessions' = [sessions EXCEPT ![cred[t]] = None]
    /\ Answer(t, "done")
    /\ UNCHANGED <<users, furnished, links, buckets, now, ask, cred, faults, history>>

-----------------------------------------------------------------------------
(* Password change and reset: one transaction each. *)

(* ChangePassword up to its transaction: the hash compared is the one the  *)
(* middleware read.                                                        *)
CheckPassword(t) ==
    /\ pc[t] = "check"
    /\ UNCHANGED ask
    /\ IF ~ Validated(ask[t])
       THEN Go(t, "invalid") /\ UNCHANGED <<buckets, allowed, racers>>
       ELSE /\ Spend(t, who[t], IF ask[t].old = hash[t] THEN "update" ELSE "refused")
            /\ racers' = [racers EXCEPT ![t] = {r \in Requests : Active(r)}]
    /\ UNCHANGED <<data, now, cred, who, hash, tx, faults, late>>

LiveLink(l) == links[l] # None /\ links[l].expires > now

(* PasswordResetValid, before argon2 is paid for. *)
PeekLink(t) ==
    /\ pc[t] = "peek"
    /\ Go(t, IF LiveLink(cred[t]) THEN "consume" ELSE "refused")
    /\ UNCHANGED <<data, buckets, now, ask, cred, who, hash, tx, faults, history>>

(* MUTANT: the row is read, and left. *)
SpentNever(t) == {}

(* The row that the DELETE ... RETURNING takes. *)
Spent(t) == {cred[t]}

(* ConsumePasswordResetToken, first in the transaction: it waits for       *)
(* whoever deletes the row, and then finds it or not.                      *)
ConsumeLink(t) ==
    /\ pc[t] = "consume"
    /\ ~ HeldLink(cred[t], t)
    /\ IF LiveLink(cred[t])
       THEN /\ who' = [who EXCEPT ![t] = links[cred[t]].user]
            /\ doomed' = [doomed EXCEPT ![t].links = Spent(t)]
            /\ racers' = [racers EXCEPT ![t] = {r \in Requests : Active(r)}]
            /\ Go(t, "update")
       ELSE Go(t, "refused") /\ UNCHANGED <<who, doomed, racers>>
    /\ UNCHANGED <<data, buckets, now, ask, cred, hash, snap, owner, faults,
                   late, allowed>>

(* CreatePasswordReset: an unknown address is an error to the operator. *)
CreatePasswordReset(t) ==
    /\ pc[t] = "lookup" /\ ask[t].kind = "issue"
    /\ GetUserByEmail(t)
    /\ Go(t, IF hash'[t] = NoUser THEN "refused" ELSE "scan")
    /\ racers' = [racers EXCEPT ![t] = {r \in Requests : Active(r)}]
    /\ UNCHANGED <<data, buckets, now, ask, cred, tx, faults, late, allowed>>

(* UpdateUserPassword: the row is this transaction's until it ends. *)
UpdateUserPassword(t) ==
    /\ pc[t] = "update"
    /\ owner[who[t]] = Free
    /\ owner' = [owner EXCEPT ![who[t]] = t]
    /\ Go(t, "purge")
    /\ UNCHANGED <<data, buckets, now, ask, cred, who, hash, snap, doomed,
                   faults, history>>

(* MUTANT: the session that made the change is spared. *)
SessionsOfOthers(t) ==
    {s \in Tokens : sessions[s] # None /\ sessions[s].user = who[t] /\ s # cred[t]}

(* DeleteSessionsForUser: every one, the caller's own included. *)
SessionsOf(t) == {s \in Tokens : sessions[s] # None /\ sessions[s].user = who[t]}

PurgeSessions(t) ==
    /\ pc[t] = "purge"
    /\ doomed' = [doomed EXCEPT ![t].sessions = SessionsOf(t)]
    /\ Go(t, IF ask[t].kind = "change" THEN "scan" ELSE "commit")
    /\ UNCHANGED <<data, buckets, now, ask, cred, who, hash, snap, owner,
                   faults, history>>

(* The rows DeletePasswordResetTokensForUser has in its snapshot. *)
LinksOf(t) == {l \in Tokens : links[l] # None /\ links[l].user = who[t]}

ScanLinks(t) ==
    /\ pc[t] = "scan"
    /\ snap' = [snap EXCEPT ![t] = LinksOf(t)]
    /\ Go(t, "revoke")
    /\ UNCHANGED <<data, buckets, now, ask, cred, who, hash, doomed, owner,
                   faults, history>>

(* The DELETE waits for whoever deletes one of them, and takes the rest. *)
RevokeLinks(t) ==
    /\ pc[t] = "revoke"
    /\ \A l \in snap[t] : ~ HeldLink(l, t)
    /\ doomed' = [doomed EXCEPT ![t].links =
                    {l \in snap[t] : links[l] # None}]
    /\ Go(t, "commit")
    /\ UNCHANGED <<data, buckets, now, ask, cred, who, hash, snap, owner,
                   faults, history>>

(* The new row and the commit: a session for the browser that changed the  *)
(* password, a link for the operator.                                      *)
Commit(t) ==
    /\ pc[t] = "commit"
    /\ LET u == who[t]
           left == [s \in Tokens |->
                      IF s \in doomed[t].sessions THEN None ELSE sessions[s]]
           kept == [l \in Tokens |->
                      IF l \in doomed[t].links THEN None ELSE links[l]]
       IN IF ask[t].kind = "issue"
          THEN /\ links' = [kept EXCEPT ![t] =
                    [user |-> u, expires |-> now + ResetLifetime]]
               /\ UNCHANGED <<users, sessions, late>>
          ELSE /\ users' = [users EXCEPT ![u] = ask[t].new]
               /\ sessions' = [left EXCEPT ![t] = NewSession(t, ask[t].new)]
               /\ links' = kept
               /\ late' = [late EXCEPT ![u] = racers[t]]
    /\ Answer(t, "done")
    /\ UNCHANGED <<furnished, buckets, now, ask, cred, faults, racers, allowed>>

-----------------------------------------------------------------------------
(* Failures, time and the hourly clean-up. *)

(* MUTANT: the link is consumed on the pool, not in the transaction. *)
RolledBackSpent(t) ==
    links' = [l \in Tokens |-> IF l \in doomed[t].links THEN None ELSE links[l]]

(* tx.Rollback undoes the consumption with the rest. *)
RolledBack(t) == UNCHANGED links

(* A statement fails: 500, whatever the transaction did is undone. *)
Abort(t) ==
    /\ Active(t) /\ faults < MaxFaults
    /\ faults' = faults + 1
    /\ RolledBack(t)
    /\ Answer(t, "failed")
    /\ UNCHANGED <<users, furnished, sessions, buckets, now, ask, cred, history>>

WaitsFor(t, v) ==
    \/ pc[t] = "update" /\ owner[who[t]] = v
    \/ /\ t # v
       /\ \/ pc[t] = "consume" /\ cred[t] \in doomed[v].links
          \/ pc[t] = "revoke" /\ snap[t] \cap doomed[v].links # {}
          \/ pc[t] \in {"renew", "end"} /\ cred[t] \in doomed[v].sessions

(* A reset takes its link and then the user's row, a change the row and    *)
(* then the links: Postgres finds the deadlock and fails one of them.      *)
Victim(t) ==
    /\ \E waiting \in SUBSET Requests :
         t \in waiting /\ \A v \in waiting : \E w \in waiting : WaitsFor(v, w)
    /\ Answer(t, "failed")
    /\ UNCHANGED <<data, buckets, now, ask, cred, faults, history>>

Tick ==
    /\ now < MaxTime
    /\ now' = now + 1
    /\ UNCHANGED <<data, buckets, pc, ask, cred, who, hash, tx, faults, history>>

Expired(r) == r # None /\ r.expires < now

(* MUTANT: every bucket goes. *)
ElapsedAny(b) == TRUE

(* limiter.Sweep drops a bucket whose window has elapsed. *)
Elapsed(b) == b = None \/ now > b.resetAt

(* Service.Run: the two DELETEs and the sweep of the limiters. *)
CleanUp ==
    /\ \/ \E s \in Tokens : Expired(sessions[s]) \/ Expired(links[s])
       \/ \E k \in DOMAIN buckets : buckets[k] # None /\ Elapsed(buckets[k])
    /\ \A s \in Tokens : /\ Expired(sessions[s]) => ~ HeldSession(s)
                         /\ Expired(links[s]) => ~ HeldLink(s, Free)
    /\ sessions' = [s \in Tokens |->
                      IF Expired(sessions[s]) THEN None ELSE sessions[s]]
    /\ links' = [l \in Tokens |-> IF Expired(links[l]) THEN None ELSE links[l]]
    /\ buckets' = [k \in DOMAIN buckets |->
                     IF Elapsed(buckets[k]) THEN None ELSE buckets[k]]
    /\ UNCHANGED <<users, furnished, now, pc, ask, cred, who, hash, tx, faults,
                   history>>

Quiet == (\A t \in Requests : pc[t] \in Ended) /\ UNCHANGED vars

Progress(t) ==
    \/ Authenticate(t) \/ RenewSession(t) \/ CheckEmail(t) \/ CreateUser(t)
    \/ SeedDefaultNoteTypes(t) \/ Login(t) \/ OpenSession(t) \/ DeleteSession(t)
    \/ CheckPassword(t) \/ PeekLink(t) \/ ConsumeLink(t)
    \/ CreatePasswordReset(t) \/ UpdateUserPassword(t) \/ PurgeSessions(t) \/ ScanLinks(t)
    \/ RevokeLinks(t) \/ Commit(t)

Next ==
    \/ \E t \in Requests :
         \/ PostSignup(t) \/ PostLogin(t) \/ PostReset(t) \/ RunResetPassword(t)
         \/ Request(t) \/ Progress(t) \/ Abort(t) \/ Victim(t)
    \/ Tick \/ CleanUp \/ Quiet

Spec == Init /\ [][Next]_vars
-----------------------------------------------------------------------------
SessionRecords == [user : Users, expires : Nat, proof : Passwords]
LinkRecords == [user : Users, expires : Nat]

TypeOK ==
    /\ users \in [Users -> Passwords \cup {NoUser}] /\ furnished \subseteq Users
    /\ sessions \in [Tokens -> SessionRecords \cup {None}]
    /\ links \in [Tokens -> LinkRecords \cup {None}]
    /\ buckets \in [Limiters \X Keys -> Buckets \cup {None}]
    /\ now \in 0..MaxTime /\ faults \in 0..MaxFaults
    /\ pc \in [Requests -> Places \cup Ended \cup {"idle"}]
    /\ ask \in [Requests -> Asks \cup {None}]
    /\ cred \in [Requests -> Tokens \cup {None}]
    /\ who \in [Requests -> Users \cup {None}]
    /\ hash \in [Requests -> Passwords \cup {NoUser, None}]
    /\ snap \in [Requests -> SUBSET Tokens]
    /\ doomed \in [Requests -> [sessions : SUBSET Tokens, links : SUBSET Tokens]]
    /\ owner \in [Users -> Requests \cup {Free}]
    /\ racers \in [Tokens -> SUBSET Requests]
    /\ late \in [Users -> SUBSET Requests]
    /\ allowed \in [Requests -> Nat \cup {None}]

(* auth.go:427, "every session for this account dies with the old          *)
(* password": a session opened on a password that is no longer the         *)
(* account's belongs to a request that ran beside the change, never to one *)
(* that had been answered before it.                                       *)
OldPasswordNeedsOverlap ==
    \A s \in Tokens :
        sessions[s] # None /\ sessions[s].proof # users[sessions[s].user] =>
            s \in late[sessions[s].user]

(* password_reset_tokens.sql:9, "exactly one gets RETURNING output": one   *)
(* link changes one password once, however often it is submitted.          *)
LinkUsedOnce ==
    \A t, v \in Requests :
        /\ pc[t] = "done" /\ pc[v] = "done" /\ cred[t] = cred[v]
        /\ ask[t].kind = "reset" /\ ask[v].kind = "reset"
        => t = v

(* reset.go:31, "issuing a link supersedes any the account already has":   *)
(* two links of one account are outstanding only if they were issued at    *)
(* the same time.                                                          *)
LinksSuperseded ==
    \A l, m \in Tokens :
        /\ l # m /\ links[l] # None /\ links[m] # None
        /\ links[l].user = links[m].user
        => l \in racers[m] \/ m \in racers[l]

(* Of all the uses of all the links of an account that do not run beside    *)
(* each other, one can succeed: a link works once, and the newest only.    *)
LinksWorkOnce == LinkUsedOnce /\ LinksSuperseded

(* 00001:15, one account per address in any casing: of two sign-ups that   *)
(* race past EmailExists one is told that the address is taken.            *)
OneAccountPerAddress ==
    \A t, v \in Requests :
        /\ pc[t] = "done" /\ pc[v] = "done"
        /\ ask[t].kind = "signup" /\ ask[v].kind = "signup"
        /\ Lower(ask[t].email) = Lower(ask[v].email)
        => t = v

(* ratelimit.go: whatever the hourly sweep drops, one address is tried at  *)
(* most twice the budget in any stretch as long as the window.             *)
BudgetHolds ==
    \A u \in Users, start \in 0..MaxTime :
        Cardinality({t \in Requests :
            /\ allowed[t] # None /\ Lower(ask[t].email) = u
            /\ allowed[t] \in start..start + Window - 1})
        <= 2 * Limit["loginEmail"]

Commits(t) == pc[t] = "commit" /\ pc'[t] = "done"

(* middleware.go:61: a row deleted by a logout, a purge or the clean-up    *)
(* does not come back through the renewal of a request that had read it.   *)
NoResurrection ==
    [][\A s \in Tokens : sessions[s] = None /\ sessions'[s] # None =>
          s \in Requests /\ pc[s] \in {"open", "commit"}]_vars

(* auth.go:436: a reset link does not outlive the change of a password,    *)
(* except one that was issued while the change ran.                        *)
LinkDiesWithPassword ==
    [][\A t \in Requests : Commits(t) /\ ask[t].kind = "change" =>
          \A l \in Tokens : links'[l] # None /\ links'[l].user = who[t] =>
              l \in racers[t]]_vars

(* reset.go:131, "a later failure rolls the consumption back and the link  *)
(* stays usable": a link goes with a committed change, reset or newer      *)
(* link of its account, or because its time is over.                       *)
LinkSpentOnlyByUse ==
    [][\A l \in Tokens : links[l] # None /\ links'[l] = None =>
          \/ Expired(links[l])
          \/ \E t \in Requests :
               /\ Commits(t) /\ who[t] = links[l].user
               /\ ask[t].kind = "reset" => cred[t] = l]_vars

(* When a token ends, and that it stays ended: a session when it is        *)
(* deleted, a link when it is used, replaced or the password changes.      *)
TokensEnd == NoResurrection /\ LinkDiesWithPassword /\ LinkSpentOnlyByUse

(* Whoever a statement waits for is still running, so that it is decided   *)
(* in the end: no answer, refusal or failure leaves a lock behind.         *)
NobodyWaitsForTheGone ==
    \A t, v \in Requests : Active(t) /\ WaitsFor(t, v) => Active(v)
=============================================================================
