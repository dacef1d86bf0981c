--------------------------- MODULE AccountsProofs ---------------------------
(***************************************************************************)
(* Theorems about accounts, for any addresses, passwords, budgets and any  *)
(* number of requests.                                                     *)
(*                                                                         *)
(* Nothing here rests on the row lock of a user: what a password change or *)
(* a new link promises, it promises by what its statements saw, and whoever*)
(* they could not see was on its way already.  The invariant says so for   *)
(* every place a transaction can be in.                                    *)
(***************************************************************************)
EXTENDS Accounts, FiniteSetTheorems, TLAPS

(* What a request knows where it is. *)
Placed(t) ==
    LET kind == ask[t].kind IN
    /\ pc[t] # "idle" => ask[t] \in Asks
    /\ pc[t] \in {"exists", "create", "seed"} => kind = "signup"
    /\ pc[t] = "open" => kind \in {"signup", "login"}
    /\ pc[t] = "lookup" => kind \in {"login", "issue"}
    /\ pc[t] \in {"session", "renew"} => kind \in {"visit", "logout", "change"}
    /\ pc[t] = "end" => kind = "logout"
    /\ pc[t] = "check" => kind = "change"
    /\ pc[t] \in {"peek", "consume"} => kind = "reset"
    /\ pc[t] \in {"update", "purge"} => kind \in {"change", "reset"}
    /\ pc[t] \in {"scan", "revoke"} => kind \in {"change", "issue"}
    /\ pc[t] = "commit" => kind \in {"change", "reset", "issue"}
    /\ pc[t] \in {"exists", "create"} => ask[t].new \in Passwords
    /\ pc[t] = "lookup" /\ kind = "login" => ask[t].old \in Passwords
    /\ pc[t] \in {"peek", "consume"} \cup InTx /\ kind # "issue" =>
          ask[t].new \in Passwords
    /\ pc[t] \in {"session", "renew", "end", "check", "peek", "consume"} =>
          cred[t] \in Tokens
    /\ pc[t] \in InTx /\ kind # "issue" => cred[t] \in Tokens
    /\ pc[t] \in {"renew", "end", "check", "seed", "open"} \cup InTx =>
          who[t] \in Users
    /\ pc[t] \in {"seed", "open"} => hash[t] \in Passwords
    /\ pc[t] \notin InTx => snap[t] = {} /\ doomed[t] = NoRows

PlaceInv == \A t \in Requests : Placed(t)

-----------------------------------------------------------------------------
(* The operators the actions are built from. *)

LEMMA AskType ==
    ASSUME NEW a \in Asks
    PROVE  /\ a.kind \in Kinds /\ a.email \in Emails
           /\ a.old \in Passwords \cup {Weak} /\ a.new \in Passwords \cup {Weak}
           /\ Lower(a.email) \in Users
  BY AccountsAssumption DEF AskRecords, Users

LEMMA CountedType ==
    ASSUME NEW b \in Buckets \cup {None}, now \in Nat
    PROVE  Counted(b) \in Buckets
  BY AccountsAssumption DEF Counted, Buckets

LEMMA SpendType ==
    ASSUME TypeOK, NEW t \in Requests, NEW u, NEW next, Spend(t, u, next)
    PROVE  /\ buckets' \in [Limiters \X Keys -> Buckets \cup {None}]
           /\ allowed' \in [Requests -> Nat \cup {None}]
           /\ pc' = [pc EXCEPT ![t] = next] \/ pc' = [pc EXCEPT ![t] = "limited"]
<1>1. now \in Nat
  BY AccountsAssumption DEF TypeOK
<1>2. buckets' \in [Limiters \X Keys -> Buckets \cup {None}]
  <2>1. \A k \in Limiters \X Keys : Counted(buckets[k]) \in Buckets
    BY <1>1, CountedType DEF TypeOK
  <2>2. \E A : buckets' = [k \in Limiters \X Keys |->
                  IF k \in A THEN Counted(buckets[k]) ELSE buckets[k]]
    <3> DEFINE b == Budgets(ask'[t], u)
               asked == {i \in DOMAIN b :
                          \A j \in 1..i-1 : Admits(b[j][1], b[j][2])}
    <3>1. DOMAIN buckets = Limiters \X Keys
      BY DEF TypeOK
    <3>2. buckets' = [k \in DOMAIN buckets |->
                        IF \E i \in asked : b[i] = k THEN Counted(buckets[k])
                        ELSE buckets[k]]
      BY DEF Spend
    <3> HIDE DEF b, asked
    <3>3. buckets' = [k \in Limiters \X Keys |->
                        IF k \in {b[i] : i \in asked} THEN Counted(buckets[k])
                        ELSE buckets[k]]
      BY <3>1, <3>2
    <3> QED BY <3>3
  <2> QED BY <2>1, <2>2 DEF TypeOK
<1>3. allowed' \in [Requests -> Nat \cup {None}]
  BY <1>1 DEF Spend, TypeOK
<1>4. pc' = [pc EXCEPT ![t] = next] \/ pc' = [pc EXCEPT ![t] = "limited"]
  BY DEF Spend, Go
<1> QED BY <1>2, <1>3, <1>4

Step(t) ==
    \/ PostSignup(t) \/ PostLogin(t) \/ PostReset(t) \/ RunResetPassword(t)
    \/ Request(t) \/ Progress(t) \/ Abort(t) \/ Victim(t)

(* What is a request's own, nobody else writes. *)
SameOf(u) ==
    /\ pc'[u] = pc[u] /\ ask'[u] = ask[u] /\ cred'[u] = cred[u]
    /\ who'[u] = who[u] /\ hash'[u] = hash[u] /\ snap'[u] = snap[u]
    /\ doomed'[u] = doomed[u] /\ allowed'[u] = allowed[u]

LEMMA SpendIsOwn ==
    ASSUME TypeOK, NEW t \in Requests, NEW u, NEW next, Spend(t, u, next)
    PROVE  \A v \in Requests \ {t} : pc'[v] = pc[v] /\ allowed'[v] = allowed[v]
<1>1. pc' = [pc EXCEPT ![t] = next] \/ pc' = [pc EXCEPT ![t] = "limited"]
  BY SpendType
<1>2. allowed' = allowed \/ allowed' = [allowed EXCEPT ![t] = now]
  BY DEF Spend
<1> QED BY <1>1, <1>2 DEF TypeOK

LEMMA AnswerIsOwn ==
    ASSUME TypeOK, NEW t \in Requests, NEW status, Answer(t, status)
    PROVE  /\ \A v \in Requests \ {t} :
                 /\ pc'[v] = pc[v] /\ who'[v] = who[v] /\ hash'[v] = hash[v]
                 /\ snap'[v] = snap[v] /\ doomed'[v] = doomed[v]
           /\ pc'[t] = status /\ snap'[t] = {} /\ doomed'[t] = NoRows
           /\ \A u \in Users : owner'[u] = IF owner[u] = t THEN Free ELSE owner[u]
           /\ who' \in [Requests -> Users \cup {None}]
           /\ hash' \in [Requests -> Passwords \cup {NoUser, None}]
           /\ snap' \in [Requests -> SUBSET Tokens]
           /\ doomed' \in [Requests -> [sessions : SUBSET Tokens, links : SUBSET Tokens]]
           /\ owner' \in [Users -> Requests \cup {Free}]
  BY DEF Answer, Go, TypeOK, NoRows

LEMMA ArriveIsOwn ==
    ASSUME TypeOK, NEW t \in Requests, NEW kinds, NEW creds, Arrive(t, kinds, creds)
    PROVE  /\ pc[t] = "idle" /\ ask'[t] \in Asks /\ ask'[t].kind \in kinds
           /\ cred'[t] \in creds
           /\ UNCHANGED <<data, now, who, hash, tx, faults, late>>
           /\ \A v \in Requests \ {t} : ask'[v] = ask[v] /\ cred'[v] = cred[v]
           /\ \A r \in Requests : racers'[r] =
                IF pc[r] \in InTx THEN racers[r] \cup {t} ELSE racers[r]
           /\ racers'[First] = racers[First]
           /\ ask' \in [Requests -> Asks \cup {None}]
           /\ creds \subseteq Tokens \cup {None} =>
                 cred' \in [Requests -> Tokens \cup {None}]
           /\ racers' \in [Tokens -> SUBSET Requests]
<1>1. /\ pc[t] = "idle"
      /\ UNCHANGED <<data, now, who, hash, tx, faults, late>>
  BY DEF Arrive
<1>2. PICK a \in Asks : a.kind \in kinds /\ ask' = [ask EXCEPT ![t] = a]
  BY DEF Arrive
<1>3. PICK c \in creds : cred' = [cred EXCEPT ![t] = c]
  BY DEF Arrive
<1>4. racers' = [r \in Tokens |->
         IF r \in Requests /\ pc[r] \in InTx THEN racers[r] \cup {t} ELSE racers[r]]
  BY DEF Arrive
<1>5. /\ \A r \in Requests : racers'[r] =
            IF pc[r] \in InTx THEN racers[r] \cup {t} ELSE racers[r]
      /\ racers'[First] = racers[First]
      /\ racers' \in [Tokens -> SUBSET Requests]
  BY <1>4, AccountsAssumption DEF Tokens, TypeOK
<1>6. ask'[t] = a /\ (\A v \in Requests \ {t} : ask'[v] = ask[v])
      /\ ask' \in [Requests -> Asks \cup {None}]
  BY <1>2 DEF TypeOK
<1>7. cred'[t] = c /\ (\A v \in Requests \ {t} : cred'[v] = cred[v])
      /\ (creds \subseteq Tokens \cup {None} => cred' \in [Requests -> Tokens \cup {None}])
  BY <1>3 DEF TypeOK
<1> QED BY <1>1, <1>2, <1>3, <1>5, <1>6, <1>7

LEMMA OthersStay ==
    ASSUME TypeOK, NEW t \in Requests, Step(t), NEW v \in Requests \ {t}
    PROVE  SameOf(v)
<1> USE DEF SameOf
<1>1. CASE PostSignup(t) \/ PostLogin(t) \/ PostReset(t)
  <2>1. \E kinds, creds : Arrive(t, kinds, creds)
    BY <1>1 DEF PostSignup, PostLogin, PostReset
  <2>2. /\ ask'[v] = ask[v] /\ cred'[v] = cred[v]
        /\ UNCHANGED <<who, hash, snap, doomed>>
    BY <2>1, ArriveIsOwn DEF tx
  <2>3. pc'[v] = pc[v] /\ allowed'[v] = allowed[v]
    <3>1. CASE \E u, next : Spend(t, u, next)
      BY <3>1, SpendIsOwn
    <3>2. CASE Go(t, "invalid") /\ UNCHANGED <<buckets, allowed>>
      BY <3>2 DEF Go, TypeOK
    <3> QED BY <1>1, <3>1, <3>2 DEF PostSignup, PostLogin, PostReset
  <2> QED BY <2>2, <2>3
<1>2. CASE RunResetPassword(t) \/ Request(t)
  <2>1. \E kinds, creds : Arrive(t, kinds, creds)
    BY <1>2 DEF RunResetPassword, Request
  <2>2. /\ ask'[v] = ask[v] /\ cred'[v] = cred[v]
        /\ UNCHANGED <<who, hash, snap, doomed>>
    BY <2>1, ArriveIsOwn DEF tx
  <2>3. pc'[v] = pc[v] /\ allowed'[v] = allowed[v]
    BY <1>2 DEF RunResetPassword, Request, Go, TypeOK
  <2> QED BY <2>2, <2>3
<1>3. CASE Abort(t) \/ Victim(t) \/ OpenSession(t) \/ DeleteSession(t) \/ Commit(t)
  <2>1. (\E status : Answer(t, status)) /\ UNCHANGED <<ask, cred, allowed>>
    BY <1>3 DEF Abort, Victim, OpenSession, DeleteSession, Commit, history
  <2> QED BY <2>1, AnswerIsOwn
<1>4. CASE CheckPassword(t)
  <2>1. UNCHANGED <<ask, cred, who, hash, snap, doomed>>
    BY <1>4 DEF CheckPassword, tx
  <2>2. pc'[v] = pc[v] /\ allowed'[v] = allowed[v]
    <3>1. CASE \E u, next : Spend(t, u, next)
      BY <3>1, SpendIsOwn
    <3>2. CASE Go(t, "invalid") /\ UNCHANGED <<buckets, allowed, racers>>
      BY <3>2 DEF Go, TypeOK
    <3> QED BY <1>4, <3>1, <3>2 DEF CheckPassword
  <2> QED BY <2>1, <2>2
<1>5. CASE Authenticate(t) \/ RenewSession(t) \/ CheckEmail(t) \/ CreateUser(t)
           \/ SeedDefaultNoteTypes(t)
  BY <1>5 DEF Authenticate, RenewSession, CheckEmail, CreateUser,
     SeedDefaultNoteTypes, Go, TypeOK, tx, history
<1>6. CASE Login(t) \/ PeekLink(t) \/ ConsumeLink(t) \/ CreatePasswordReset(t)
  BY <1>6 DEF Login, PeekLink, ConsumeLink, CreatePasswordReset, GetUserByEmail,
     Go, TypeOK, tx, history
<1>7. CASE UpdateUserPassword(t) \/ PurgeSessions(t) \/ ScanLinks(t) \/ RevokeLinks(t)
  BY <1>7 DEF UpdateUserPassword, PurgeSessions, ScanLinks, RevokeLinks,
     Go, TypeOK, tx, history
<1> QED BY <1>1, <1>2, <1>3, <1>4, <1>5, <1>6, <1>7 DEF Step, Progress

-----------------------------------------------------------------------------
(* Types and places. *)

LEMMA PlacedFrame ==
    ASSUME NEW v, Placed(v), SameOf(v)
    PROVE  Placed(v)'
  BY DEF Placed, SameOf

LEMMA ArrivalPlace ==
    ASSUME TypeOK, NEW t \in Requests, Placed(t),
           PostSignup(t) \/ PostLogin(t) \/ PostReset(t)
    PROVE  TypeOK' /\ Placed(t)'
<1>1. PICK kinds, creds, next :
         /\ Arrive(t, kinds, creds) /\ creds \subseteq Tokens \cup {None}
         /\ \/ Validated(ask'[t]) /\ Spend(t, None, next)
            \/ Go(t, "invalid") /\ UNCHANGED <<buckets, allowed>>
         /\ \/ kinds = {"signup"} /\ next = "exists"
            \/ kinds = {"login"} /\ next = "lookup"
            \/ kinds = {"reset"} /\ next = "peek" /\ creds = Handed
  <2>1. Handed \subseteq Tokens
    BY DEF Handed, Tokens
  <2> QED BY <2>1 DEF PostSignup, PostLogin, PostReset
<1>2. /\ pc[t] = "idle" /\ ask'[t] \in Asks /\ ask'[t].kind \in kinds
      /\ cred'[t] \in creds
      /\ UNCHANGED <<data, now, who, hash, snap, doomed, owner, faults, late>>
      /\ ask' \in [Requests -> Asks \cup {None}]
      /\ cred' \in [Requests -> Tokens \cup {None}]
      /\ racers' \in [Tokens -> SUBSET Requests]
  BY <1>1, ArriveIsOwn DEF tx
<1>3. /\ buckets' \in [Limiters \X Keys -> Buckets \cup {None}]
      /\ allowed' \in [Requests -> Nat \cup {None}]
      /\ \/ pc' = [pc EXCEPT ![t] = next] /\ Validated(ask'[t])
         \/ \E e \in {"invalid", "limited"} : pc' = [pc EXCEPT ![t] = e]
  <2>1. CASE Validated(ask'[t]) /\ Spend(t, None, next)
    BY <2>1, SpendType
  <2>2. CASE Go(t, "invalid") /\ UNCHANGED <<buckets, allowed>>
    BY <2>2 DEF Go, TypeOK
  <2> QED BY <1>1, <2>1, <2>2
<1>4. pc' \in [Requests -> Places \cup Ended \cup {"idle"}]
  BY <1>1, <1>3 DEF TypeOK, Places, Ended
<1>5. TypeOK'
  BY <1>2, <1>3, <1>4 DEF TypeOK, data
<1>6. \/ pc'[t] = next /\ Validated(ask'[t])
      \/ pc'[t] \in {"invalid", "limited"}
  BY <1>3 DEF TypeOK
<1>7. snap'[t] = {} /\ doomed'[t] = NoRows
  BY <1>2 DEF Placed, InTx
<1>8. Placed(t)'
  <2>1. CASE pc'[t] \in {"invalid", "limited"}
    BY <1>2, <1>7, <2>1 DEF Placed, InTx
  <2>2. CASE pc'[t] = next /\ Validated(ask'[t])
    <3>1. /\ ask'[t].old \in Passwords \cup {Weak}
          /\ ask'[t].new \in Passwords \cup {Weak}
      BY <1>2, AskType
    <3>2. CASE kinds = {"signup"} /\ next = "exists"
      BY <1>2, <1>7, <2>2, <3>1, <3>2 DEF Placed, InTx, Validated
    <3>3. CASE kinds = {"login"} /\ next = "lookup"
      BY <1>2, <1>7, <2>2, <3>1, <3>3 DEF Placed, InTx, Validated
    <3>4. CASE kinds = {"reset"} /\ next = "peek" /\ creds = Handed
      <4>1. cred'[t] \in Tokens
        BY <1>2, <3>4 DEF Handed, Tokens
      <4> QED BY <1>2, <1>7, <2>2, <3>1, <3>4, <4>1 DEF Placed, InTx, Validated
    <3> QED BY <1>1, <3>2, <3>3, <3>4
  <2> QED BY <1>6, <2>1, <2>2
<1> QED BY <1>5, <1>8

LEMMA OtherArrivalPlace ==
    ASSUME TypeOK, NEW t \in Requests, Placed(t), RunResetPassword(t) \/ Request(t)
    PROVE  TypeOK' /\ Placed(t)'
<1>1. PICK kinds, creds, next :
         /\ Arrive(t, kinds, creds) /\ creds \subseteq Tokens \cup {None}
         /\ Go(t, next) /\ UNCHANGED <<buckets, allowed>>
         /\ \/ kinds = {"issue"} /\ next = "lookup"
            \/ /\ kinds = {"visit", "logout", "change"} /\ next = "session"
               /\ creds \subseteq Tokens
  BY DEF RunResetPassword, Request, Handed, Tokens
<1>2. /\ pc[t] = "idle" /\ ask'[t] \in Asks /\ ask'[t].kind \in kinds
      /\ cred'[t] \in creds
      /\ UNCHANGED <<data, now, who, hash, snap, doomed, owner, faults, late>>
      /\ ask' \in [Requests -> Asks \cup {None}]
      /\ cred' \in [Requests -> Tokens \cup {None}]
      /\ racers' \in [Tokens -> SUBSET Requests]
  BY <1>1, ArriveIsOwn DEF tx
<1>3. pc' \in [Requests -> Places \cup Ended \cup {"idle"}] /\ pc'[t] = next
  BY <1>1 DEF TypeOK, Places, Ended, Go
<1>4. TypeOK'
  BY <1>1, <1>2, <1>3 DEF TypeOK, data
<1>5. snap'[t] = {} /\ doomed'[t] = NoRows
  BY <1>2 DEF Placed, InTx
<1>6. Placed(t)'
  BY <1>1, <1>2, <1>3, <1>5 DEF Placed, InTx
<1> QED BY <1>4, <1>6

(* Requests without a transaction. *)
LEMMA SessionType ==
    ASSUME TypeOK, NEW s \in Tokens, sessions[s] # None
    PROVE  sessions[s].user \in Users /\ users[sessions[s].user] \in Passwords \cup {NoUser}
  BY DEF TypeOK, SessionRecords

LEMMA MiddlewarePlace ==
    ASSUME TypeOK, NEW t \in Requests, Placed(t), Authenticate(t)
    PROVE  TypeOK' /\ Placed(t)'
<1> DEFINE s == sessions[cred[t]]
<1>1. /\ pc[t] = "session" /\ cred[t] \in Tokens
      /\ ask[t].kind \in {"visit", "logout", "change"}
      /\ UNCHANGED <<data, buckets, now, ask, cred, tx, faults, history>>
  BY DEF Authenticate, Placed
<1>2. CASE LiveSession(cred[t])
  <2>1. s.user \in Users /\ users[s.user] \in Passwords \cup {NoUser}
    BY <1>1, <1>2, SessionType DEF LiveSession
  <2>2. PICK next \in {"renew", "done", "end", "check"} :
           /\ pc' = [pc EXCEPT ![t] = next]
           /\ next = "end" => ask[t].kind = "logout"
           /\ next = "check" => ask[t].kind = "change"
    BY <1>1, <1>2 DEF Authenticate, Go, Route
  <2>3. who' = [who EXCEPT ![t] = s.user] /\ hash' = [hash EXCEPT ![t] = users[s.user]]
    BY <1>2 DEF Authenticate
  <2>4. TypeOK'
    BY <1>1, <2>1, <2>2, <2>3 DEF TypeOK, data, tx, history, Places, Ended
  <2>5. pc'[t] = next /\ who'[t] = s.user
    BY <2>2, <2>3 DEF TypeOK
  <2>6. Placed(t)'
    BY <1>1, <2>1, <2>2, <2>5 DEF Placed, InTx, tx
  <2> QED BY <2>4, <2>6
<1>3. CASE ~ LiveSession(cred[t])
  <2>1. pc' = [pc EXCEPT ![t] = "refused"] /\ UNCHANGED <<who, hash>>
    BY <1>3 DEF Authenticate, Go
  <2>2. TypeOK'
    BY <1>1, <2>1 DEF TypeOK, data, tx, history, Places, Ended
  <2>3. pc'[t] = "refused"
    BY <2>1 DEF TypeOK
  <2> QED BY <1>1, <2>2, <2>3 DEF Placed, InTx, tx
<1> QED BY <1>2, <1>3

LEMMA RenewPlace ==
    ASSUME TypeOK, NEW t \in Requests, Placed(t), RenewSession(t)
    PROVE  TypeOK' /\ Placed(t)'
<1>1. /\ pc[t] = "renew" /\ cred[t] \in Tokens /\ who[t] \in Users
      /\ ask[t].kind \in {"visit", "logout", "change"}
      /\ UNCHANGED <<users, furnished, links, buckets, now, ask, cred, who, hash,
                     tx, history>>
  BY DEF RenewSession, Placed
<1>2. PICK next \in {"done", "end", "check"} :
         /\ pc' = [pc EXCEPT ![t] = next]
         /\ next = "end" => ask[t].kind = "logout"
         /\ next = "check" => ask[t].kind = "change"
  BY <1>1 DEF RenewSession, Go, Route
<1>3. faults' \in 0..MaxFaults
  BY AccountsAssumption DEF RenewSession, TypeOK
<1>4. sessions' \in [Tokens -> SessionRecords \cup {None}]
  <2>1. Renewed(t, sessions[cred[t]]) \in SessionRecords \cup {None}
    <3>1. now + SessionLifetime \in Nat
      BY AccountsAssumption DEF TypeOK
    <3>2. sessions[cred[t]] \in SessionRecords \cup {None}
      BY <1>1 DEF TypeOK
    <3> QED BY <3>1, <3>2 DEF Renewed, SessionRecords
  <2> QED BY <2>1 DEF RenewSession, TypeOK
<1>5. TypeOK'
  BY <1>1, <1>2, <1>3, <1>4 DEF TypeOK, tx, history, Places, Ended
<1>6. pc'[t] = next
  BY <1>2 DEF TypeOK
<1> QED BY <1>1, <1>2, <1>5, <1>6 DEF Placed, InTx, tx

LEMMA SignupPlace ==
    ASSUME TypeOK, NEW t \in Requests, Placed(t),
           CheckEmail(t) \/ CreateUser(t) \/ SeedDefaultNoteTypes(t)
    PROVE  TypeOK' /\ Placed(t)'
<1>1. CASE CheckEmail(t)
  <2>1. TypeOK'
    BY <1>1 DEF CheckEmail, Go, TypeOK, data, tx, history, Places, Ended
  <2>2. pc'[t] \in {"conflict", "create"}
    BY <1>1 DEF CheckEmail, Go, TypeOK
  <2> QED BY <1>1, <2>1, <2>2 DEF Placed, InTx, tx, CheckEmail
<1>2. CASE CreateUser(t)
  <2>1. /\ pc[t] = "create" /\ ask[t] \in Asks /\ ask[t].new \in Passwords
        /\ Lower(ask[t].email) \in Users
    BY <1>2, AskType DEF CreateUser, Placed
  <2>2. TypeOK'
    <3>1. pc' \in [Requests -> Places \cup Ended \cup {"idle"}]
      <4>1. pc' = [pc EXCEPT ![t] = "conflict"] \/ pc' = [pc EXCEPT ![t] = "seed"]
        BY <1>2 DEF CreateUser, Go
      <4> QED BY <4>1 DEF TypeOK, Places, Ended
    <3>2. /\ users' \in [Users -> Passwords \cup {NoUser}]
          /\ who' \in [Requests -> Users \cup {None}]
          /\ hash' \in [Requests -> Passwords \cup {NoUser, None}]
      <4>1. CASE Conflicts(Lower(ask[t].email))
        BY <1>2, <4>1 DEF CreateUser, TypeOK
      <4>2. CASE ~ Conflicts(Lower(ask[t].email))
        BY <1>2, <2>1, <4>2 DEF CreateUser, TypeOK
      <4> QED BY <4>1, <4>2
    <3>3. /\ UNCHANGED <<furnished, sessions, links, buckets, now, ask, cred>>
          /\ UNCHANGED <<snap, doomed, owner, faults, racers, late, allowed>>
      BY <1>2 DEF CreateUser, tx, history
    <3> QED BY <3>1, <3>2, <3>3 DEF TypeOK
  <2>3. \/ pc'[t] = "conflict"
        \/ pc'[t] = "seed" /\ who'[t] \in Users /\ hash'[t] \in Passwords
    <3>1. CASE Conflicts(Lower(ask[t].email))
      <4>1. pc' = [pc EXCEPT ![t] = "conflict"]
        BY <1>2, <3>1 DEF CreateUser, Go
      <4>2. pc'[t] = "conflict"
        BY <4>1 DEF TypeOK
      <4> QED BY <4>2
    <3>2. CASE ~ Conflicts(Lower(ask[t].email))
      BY <1>2, <2>1, <3>2 DEF CreateUser, Go, TypeOK
    <3> QED BY <3>1, <3>2
  <2> QED BY <1>2, <2>1, <2>2, <2>3 DEF Placed, InTx, tx, CreateUser
<1>3. CASE SeedDefaultNoteTypes(t)
  <2>1. pc[t] = "seed" /\ who[t] \in Users
    BY <1>3 DEF SeedDefaultNoteTypes, Placed
  <2>2. TypeOK'
    BY <1>3, <2>1, AccountsAssumption
       DEF SeedDefaultNoteTypes, Go, TypeOK, tx, history, Places, Ended
  <2>3. pc'[t] = "open"
    BY <1>3 DEF SeedDefaultNoteTypes, Go, TypeOK
  <2> QED BY <1>3, <2>1, <2>2, <2>3 DEF Placed, InTx, tx, SeedDefaultNoteTypes
<1> QED BY <1>1, <1>2, <1>3

LEMMA LoginPlace ==
    ASSUME TypeOK, NEW t \in Requests, Placed(t), Login(t)
    PROVE  TypeOK' /\ Placed(t)'
<1> DEFINE u == Lower(ask[t].email)
<1>1. /\ pc[t] = "lookup" /\ ask[t] \in Asks /\ u \in Users
      /\ ask[t].kind = "login" /\ ask[t].old \in Passwords
      /\ UNCHANGED <<data, buckets, now, ask, cred, tx, faults, history>>
  BY AskType DEF Login, Placed
<1>2. who' = [who EXCEPT ![t] = u] /\ hash' = [hash EXCEPT ![t] = users[u]]
  BY DEF Login, GetUserByEmail
<1> HIDE DEF u
<1>3. who'[t] = u /\ hash'[t] = users[u] /\ users[u] \in Passwords \cup {NoUser}
  BY <1>1, <1>2 DEF TypeOK
<1>4. pc' = [pc EXCEPT ![t] = IF ask[t].old = hash'[t] THEN "open" ELSE "refused"]
  BY DEF Login, Go
<1>5. \/ pc'[t] = "open" /\ hash'[t] \in Passwords
      \/ pc'[t] = "refused"
  BY <1>1, <1>4 DEF TypeOK
<1>6. TypeOK'
  BY <1>1, <1>2, <1>3, <1>4 DEF TypeOK, data, tx, history, Places, Ended
<1> QED BY <1>1, <1>3, <1>5, <1>6 DEF Placed, InTx, tx

LEMMA SessionEndsPlace ==
    ASSUME TypeOK, NEW t \in Requests, Placed(t), OpenSession(t) \/ DeleteSession(t)
    PROVE  TypeOK' /\ Placed(t)'
<1>1. /\ Answer(t, "done") /\ ask[t] \in Asks
      /\ UNCHANGED <<users, furnished, links, buckets, now, ask, cred, faults, history>>
  BY DEF OpenSession, DeleteSession, Placed
<1>2. sessions' \in [Tokens -> SessionRecords \cup {None}]
  <2>1. CASE OpenSession(t)
    <3>1. who[t] \in Users /\ hash[t] \in Passwords
      BY <2>1 DEF OpenSession, Placed
    <3>2. NewSession(t, hash[t]) \in SessionRecords
      BY <3>1, AccountsAssumption DEF NewSession, SessionRecords, TypeOK
    <3> QED BY <2>1, <3>2 DEF OpenSession, TypeOK
  <2>2. CASE DeleteSession(t)
    BY <2>2 DEF DeleteSession, TypeOK
  <2> QED BY <2>1, <2>2
<1>3. pc' = [pc EXCEPT ![t] = "done"]
  BY <1>1 DEF Answer, Go
<1>4. TypeOK'
  BY <1>1, <1>2, <1>3, AnswerIsOwn DEF TypeOK, history, Places, Ended
<1>5. pc'[t] = "done" /\ snap'[t] = {} /\ doomed'[t] = NoRows
  BY <1>1, AnswerIsOwn
<1> QED BY <1>1, <1>4, <1>5 DEF Placed, InTx

(* Requests with one. *)
LEMMA DoomedType ==
    ASSUME NEW D \in [Requests -> [sessions : SUBSET Tokens, links : SUBSET Tokens]],
           NEW t \in Requests, NEW S \in SUBSET Tokens
    PROVE  /\ [D EXCEPT ![t].links = S]
                 \in [Requests -> [sessions : SUBSET Tokens, links : SUBSET Tokens]]
           /\ [D EXCEPT ![t].sessions = S]
                 \in [Requests -> [sessions : SUBSET Tokens, links : SUBSET Tokens]]
  OBVIOUS

LEMMA CheckPlace ==
    ASSUME TypeOK, NEW t \in Requests, Placed(t), CheckPassword(t)
    PROVE  TypeOK' /\ Placed(t)'
<1>1. /\ pc[t] = "check" /\ ask[t] \in Asks /\ ask[t].kind = "change"
      /\ who[t] \in Users /\ cred[t] \in Tokens /\ snap[t] = {} /\ doomed[t] = NoRows
      /\ UNCHANGED <<data, now, ask, cred, who, hash, tx, faults, late>>
  BY DEF CheckPassword, Placed, InTx
<1>2. CASE ~ Validated(ask[t])
  <2>1. pc' = [pc EXCEPT ![t] = "invalid"] /\ UNCHANGED <<buckets, allowed, racers>>
    BY <1>2 DEF CheckPassword, Go
  <2>2. pc'[t] = "invalid"
    BY <2>1 DEF TypeOK
  <2>3. TypeOK'
    BY <1>1, <2>1 DEF TypeOK, data, tx, Places, Ended
  <2> QED BY <1>1, <2>2, <2>3 DEF Placed, InTx, tx
<1>3. CASE Validated(ask[t])
  <2>1. ask[t].new \in Passwords
    BY <1>1, <1>3, AskType DEF Validated
  <2>2. PICK next \in {"update", "refused"} :
           /\ Spend(t, who[t], next)
           /\ racers' = [racers EXCEPT ![t] = {r \in Requests : Active(r)}]
    BY <1>3 DEF CheckPassword
  <2>3. PICK to \in {"update", "refused", "limited"} : pc' = [pc EXCEPT ![t] = to]
    BY <2>2, SpendType
  <2>4. /\ buckets' \in [Limiters \X Keys -> Buckets \cup {None}]
        /\ allowed' \in [Requests -> Nat \cup {None}]
    BY <2>2, SpendType
  <2>5. TypeOK'
    BY <1>1, <2>2, <2>3, <2>4 DEF TypeOK, data, tx, Places, Ended, InTx
  <2>6. pc'[t] = to
    BY <2>3 DEF TypeOK
  <2> QED BY <1>1, <2>1, <2>5, <2>6 DEF Placed, InTx, tx
<1> QED BY <1>2, <1>3

LEMMA LinkPlace ==
    ASSUME TypeOK, NEW t \in Requests, Placed(t), PeekLink(t) \/ ConsumeLink(t)
    PROVE  TypeOK' /\ Placed(t)'
<1>1. CASE PeekLink(t)
  <2>1. TypeOK'
    BY <1>1 DEF PeekLink, Go, TypeOK, data, tx, history, Places, Ended
  <2>2. pc'[t] \in {"consume", "refused"}
    BY <1>1 DEF PeekLink, Go, TypeOK
  <2> QED BY <1>1, <2>1, <2>2 DEF Placed, InTx, tx, PeekLink
<1>2. CASE ConsumeLink(t)
  <2>1. /\ pc[t] = "consume" /\ ask[t] \in Asks /\ ask[t].kind = "reset"
        /\ ask[t].new \in Passwords /\ cred[t] \in Tokens
        /\ UNCHANGED <<data, buckets, now, ask, cred, hash, snap, owner, faults,
                       late, allowed>>
    BY <1>2 DEF ConsumeLink, Placed
  <2>2. CASE LiveLink(cred[t])
    <3>1. links[cred[t]].user \in Users
      BY <2>1, <2>2 DEF LiveLink, TypeOK, LinkRecords
    <3>2. /\ who' = [who EXCEPT ![t] = links[cred[t]].user]
          /\ doomed' = [doomed EXCEPT ![t].links = {cred[t]}]
          /\ racers' = [racers EXCEPT ![t] = {r \in Requests : Active(r)}]
          /\ pc' = [pc EXCEPT ![t] = "update"]
      BY <1>2, <2>2 DEF ConsumeLink, Go, Spent
    <3>3. doomed' \in [Requests -> [sessions : SUBSET Tokens, links : SUBSET Tokens]]
      <4>1. {cred[t]} \in SUBSET Tokens
        BY <2>1
      <4>2. doomed \in [Requests -> [sessions : SUBSET Tokens, links : SUBSET Tokens]]
        BY DEF TypeOK
      <4> QED BY <3>2, <4>1, <4>2, DoomedType
    <3>4. TypeOK'
      BY <2>1, <3>1, <3>2, <3>3 DEF TypeOK, data, Places, InTx
    <3>5. pc'[t] = "update" /\ who'[t] \in Users
      BY <3>1, <3>2 DEF TypeOK
    <3> QED BY <2>1, <3>4, <3>5 DEF Placed, InTx
  <2>3. CASE ~ LiveLink(cred[t])
    <3>1. pc' = [pc EXCEPT ![t] = "refused"] /\ UNCHANGED <<who, doomed, racers>>
      BY <1>2, <2>3 DEF ConsumeLink, Go
    <3>2. TypeOK'
      BY <2>1, <3>1 DEF TypeOK, data, Ended
    <3>3. pc'[t] = "refused" /\ snap'[t] = {} /\ doomed'[t] = NoRows
      BY <2>1, <3>1 DEF TypeOK, Placed, InTx
    <3> QED BY <2>1, <3>2, <3>3 DEF Placed, InTx
  <2> QED BY <2>2, <2>3
<1> QED BY <1>1, <1>2

LEMMA IssuePlace ==
    ASSUME TypeOK, NEW t \in Requests, Placed(t), CreatePasswordReset(t)
    PROVE  TypeOK' /\ Placed(t)'
<1> DEFINE u == Lower(ask[t].email)
<1>1. /\ pc[t] = "lookup" /\ ask[t] \in Asks /\ u \in Users /\ ask[t].kind = "issue"
      /\ UNCHANGED <<data, buckets, now, ask, cred, tx, faults, late, allowed>>
  BY AskType DEF CreatePasswordReset, Placed
<1>2. who' = [who EXCEPT ![t] = u] /\ hash' = [hash EXCEPT ![t] = users[u]]
  BY DEF CreatePasswordReset, GetUserByEmail
<1> HIDE DEF u
<1>3. who'[t] = u /\ hash'[t] = users[u] /\ users[u] \in Passwords \cup {NoUser}
  BY <1>1, <1>2 DEF TypeOK
<1>4. PICK to \in {"refused", "scan"} : pc' = [pc EXCEPT ![t] = to]
  BY DEF CreatePasswordReset, Go
<1>5. racers' = [racers EXCEPT ![t] = {r \in Requests : Active(r)}]
  BY DEF CreatePasswordReset
<1>6. TypeOK'
  BY <1>1, <1>2, <1>3, <1>4, <1>5 DEF TypeOK, data, tx, Places, InTx, Ended
<1>7. pc'[t] = to
  BY <1>4 DEF TypeOK
<1>8. snap'[t] = {} /\ doomed'[t] = NoRows
  BY <1>1 DEF Placed, InTx, tx
<1> QED BY <1>1, <1>3, <1>6, <1>7, <1>8 DEF Placed, InTx

LEMMA TxPlace ==
    ASSUME TypeOK, NEW t \in Requests, Placed(t),
           UpdateUserPassword(t) \/ PurgeSessions(t) \/ ScanLinks(t) \/ RevokeLinks(t)
    PROVE  TypeOK' /\ Placed(t)'
<1>1. CASE UpdateUserPassword(t)
  <2>1. TypeOK'
    BY <1>1 DEF UpdateUserPassword, Go, TypeOK, data, history, Places, InTx
  <2>2. pc'[t] = "purge"
    BY <1>1 DEF UpdateUserPassword, Go, TypeOK
  <2> QED BY <1>1, <2>1, <2>2 DEF Placed, InTx, UpdateUserPassword
<1>2. CASE PurgeSessions(t)
  <2>1. doomed' = [doomed EXCEPT ![t].sessions = SessionsOf(t)]
        /\ SessionsOf(t) \subseteq Tokens
    BY <1>2 DEF PurgeSessions, SessionsOf
  <2>2. TypeOK'
    <3>1. doomed' \in [Requests -> [sessions : SUBSET Tokens, links : SUBSET Tokens]]
      BY <2>1, DoomedType DEF TypeOK
    <3>2. pc' \in [Requests -> Places \cup Ended \cup {"idle"}]
      BY <1>2 DEF PurgeSessions, Go, TypeOK, Places, InTx
    <3> QED BY <1>2, <3>1, <3>2 DEF PurgeSessions, TypeOK, data, history
  <2>3. pc'[t] = IF ask[t].kind = "change" THEN "scan" ELSE "commit"
    BY <1>2 DEF PurgeSessions, Go, TypeOK
  <2> QED BY <1>2, <2>2, <2>3 DEF Placed, InTx, PurgeSessions
<1>3. CASE ScanLinks(t)
  <2>1. snap' = [snap EXCEPT ![t] = LinksOf(t)] /\ LinksOf(t) \subseteq Tokens
    BY <1>3 DEF ScanLinks, LinksOf
  <2>2. TypeOK'
    BY <1>3, <2>1 DEF ScanLinks, Go, TypeOK, data, history, Places, InTx
  <2>3. pc'[t] = "revoke"
    BY <1>3 DEF ScanLinks, Go, TypeOK
  <2> QED BY <1>3, <2>2, <2>3 DEF Placed, InTx, ScanLinks
<1>4. CASE RevokeLinks(t)
  <2>1. \E L \in SUBSET Tokens : doomed' = [doomed EXCEPT ![t].links = L]
    BY <1>4 DEF RevokeLinks, TypeOK
  <2>2. TypeOK'
    <3>1. doomed' \in [Requests -> [sessions : SUBSET Tokens, links : SUBSET Tokens]]
      <4>1. PICK L \in SUBSET Tokens : doomed' = [doomed EXCEPT ![t].links = L]
        BY <2>1
      <4>2. doomed[t] \in [sessions : SUBSET Tokens, links : SUBSET Tokens]
        BY DEF TypeOK
      <4>3. [doomed[t] EXCEPT !.links = L] \in [sessions : SUBSET Tokens, links : SUBSET Tokens]
        BY <4>2
      <4>4. doomed' = [doomed EXCEPT ![t] = [doomed[t] EXCEPT !.links = L]]
        BY <4>1
      <4> QED BY <4>3, <4>4 DEF TypeOK
    <3>2. pc' \in [Requests -> Places \cup Ended \cup {"idle"}]
      BY <1>4 DEF RevokeLinks, Go, TypeOK, Places, InTx
    <3>3. /\ UNCHANGED <<users, furnished, sessions, links, buckets, now, ask, cred>>
          /\ UNCHANGED <<who, hash, snap, owner, faults, racers, late, allowed>>
      BY <1>4 DEF RevokeLinks, data, history
    <3> QED BY <3>1, <3>2, <3>3 DEF TypeOK
  <2>3. pc'[t] = "commit"
    BY <1>4 DEF RevokeLinks, Go, TypeOK
  <2> QED BY <1>4, <2>2, <2>3 DEF Placed, InTx, RevokeLinks
<1> QED BY <1>1, <1>2, <1>3, <1>4

LEMMA CommitPlace ==
    ASSUME TypeOK, NEW t \in Requests, Placed(t), Commit(t)
    PROVE  TypeOK' /\ Placed(t)'
<1>1. /\ pc[t] = "commit" /\ ask[t] \in Asks /\ who[t] \in Users
      /\ ask[t].kind # "issue" => ask[t].new \in Passwords
      /\ Answer(t, "done")
      /\ UNCHANGED <<furnished, buckets, now, ask, cred, faults, racers, allowed>>
  BY DEF Commit, Placed, InTx
<1>2. now \in Nat /\ now + SessionLifetime \in Nat /\ now + ResetLifetime \in Nat
  BY AccountsAssumption DEF TypeOK
<1> DEFINE left == [s \in Tokens |->
                      IF s \in doomed[t].sessions THEN None ELSE sessions[s]]
           kept == [l \in Tokens |->
                      IF l \in doomed[t].links THEN None ELSE links[l]]
<1>3. /\ left \in [Tokens -> SessionRecords \cup {None}]
      /\ kept \in [Tokens -> LinkRecords \cup {None}]
  BY DEF TypeOK
<1>4. /\ users' \in [Users -> Passwords \cup {NoUser}]
      /\ sessions' \in [Tokens -> SessionRecords \cup {None}]
      /\ links' \in [Tokens -> LinkRecords \cup {None}]
      /\ late' \in [Users -> SUBSET Requests]
  <2>1. CASE ask[t].kind = "issue"
    <3>1. /\ links' = [kept EXCEPT ![t] = [user |-> who[t],
                                           expires |-> now + ResetLifetime]]
          /\ UNCHANGED <<users, sessions, late>>
      BY <2>1 DEF Commit
    <3>2. [user |-> who[t], expires |-> now + ResetLifetime] \in LinkRecords
      BY <1>1, <1>2 DEF LinkRecords
    <3> HIDE DEF kept
    <3> QED BY <1>3, <3>1, <3>2 DEF TypeOK
  <2>2. CASE ask[t].kind # "issue"
    <3>1. /\ users' = [users EXCEPT ![who[t]] = ask[t].new]
          /\ sessions' = [left EXCEPT ![t] = NewSession(t, ask[t].new)]
          /\ links' = kept
          /\ late' = [late EXCEPT ![who[t]] = racers[t]]
      BY <2>2 DEF Commit
    <3>2. NewSession(t, ask[t].new) \in SessionRecords
      BY <1>1, <1>2, <2>2 DEF NewSession, SessionRecords
    <3>3. racers[t] \in SUBSET Requests
      BY DEF TypeOK, Tokens
    <3> HIDE DEF kept, left
    <3> QED BY <1>1, <1>3, <2>2, <3>1, <3>2, <3>3 DEF TypeOK
  <2> QED BY <2>1, <2>2
<1>5. pc' = [pc EXCEPT ![t] = "done"]
  BY <1>1 DEF Answer, Go
<1>6. TypeOK'
  BY <1>1, <1>4, <1>5, AnswerIsOwn DEF TypeOK, Places, Ended
<1>7. pc'[t] = "done" /\ snap'[t] = {} /\ doomed'[t] = NoRows
  BY <1>1, AnswerIsOwn
<1> QED BY <1>1, <1>6, <1>7 DEF Placed, InTx

LEMMA FailurePlace ==
    ASSUME TypeOK, NEW t \in Requests, Placed(t), Abort(t) \/ Victim(t)
    PROVE  TypeOK' /\ Placed(t)'
<1>1. /\ Answer(t, "failed")
      /\ UNCHANGED <<users, furnished, sessions, links, buckets, now, ask, cred, history>>
      /\ faults' = faults \/ (faults < MaxFaults /\ faults' = faults + 1)
  BY DEF Abort, Victim, RolledBack, data
<1>2. pc[t] # "idle"
  <2>1. CASE Abort(t)
    BY <2>1 DEF Abort, Active
  <2>2. CASE Victim(t)
    BY <2>2 DEF Victim, WaitsFor
  <2> QED BY <2>1, <2>2
<1>3. pc' = [pc EXCEPT ![t] = "failed"]
  BY <1>1 DEF Answer, Go
<1>4. faults' \in 0..MaxFaults
  BY <1>1, AccountsAssumption DEF TypeOK
<1>5. TypeOK'
  BY <1>1, <1>3, <1>4, AnswerIsOwn DEF TypeOK, history, Places, Ended
<1>6. pc'[t] = "failed" /\ snap'[t] = {} /\ doomed'[t] = NoRows
  BY <1>1, AnswerIsOwn
<1> QED BY <1>1, <1>2, <1>5, <1>6 DEF Placed, InTx

LEMMA StepPlace ==
    ASSUME TypeOK, NEW t \in Requests, Placed(t), Step(t)
    PROVE  TypeOK' /\ Placed(t)'
  BY ArrivalPlace, OtherArrivalPlace, MiddlewarePlace, RenewPlace, SignupPlace,
     LoginPlace, SessionEndsPlace, CheckPlace, LinkPlace, IssuePlace, TxPlace,
     CommitPlace, FailurePlace DEF Step, Progress

LEMMA CleanUpType ==
    ASSUME TypeOK, CleanUp
    PROVE  TypeOK'
<1>1. /\ sessions' \in [Tokens -> SessionRecords \cup {None}]
      /\ links' \in [Tokens -> LinkRecords \cup {None}]
      /\ buckets' \in [Limiters \X Keys -> Buckets \cup {None}]
  BY DEF CleanUp, TypeOK
<1>2. UNCHANGED <<users, furnished, now, pc, ask, cred, who, hash, tx, faults,
                  history>>
  BY DEF CleanUp
<1> QED BY <1>1, <1>2 DEF TypeOK, tx, history

LEMMA NextCases ==
    ASSUME Next \/ UNCHANGED vars
    PROVE  \/ \E t \in Requests : Step(t)
           \/ Tick \/ CleanUp \/ UNCHANGED vars
  BY DEF Next, Step, Quiet

LEMMA PlaceStep == TypeOK /\ PlaceInv /\ [Next]_vars => TypeOK' /\ PlaceInv'
<1> SUFFICES ASSUME TypeOK, PlaceInv, Next \/ UNCHANGED vars
             PROVE  TypeOK' /\ PlaceInv'
  OBVIOUS
<1>1. ASSUME NEW t \in Requests, Step(t) PROVE TypeOK' /\ PlaceInv'
  <2>1. TypeOK' /\ Placed(t)'
    BY <1>1, StepPlace DEF PlaceInv
  <2>2. \A v \in Requests \ {t} : Placed(v)'
    BY <1>1, OthersStay, PlacedFrame DEF PlaceInv
  <2> QED BY <2>1, <2>2 DEF PlaceInv
<1>2. CASE Tick \/ CleanUp \/ UNCHANGED vars
  <2>1. UNCHANGED <<pc, ask, cred, who, hash, snap, doomed>>
    BY <1>2 DEF Tick, CleanUp, vars, tx
  <2>2. PlaceInv'
    BY <2>1 DEF PlaceInv, Placed
  <2>3. CASE Tick \/ UNCHANGED vars
    <3>1. now' \in 0..MaxTime
      <4>1. now \in 0..MaxTime
        BY DEF TypeOK
      <4> QED BY <2>3, <4>1, AccountsAssumption DEF Tick, vars
    <3>2. /\ users' = users /\ furnished' = furnished /\ sessions' = sessions
          /\ links' = links /\ buckets' = buckets /\ pc' = pc /\ ask' = ask
          /\ cred' = cred /\ who' = who /\ hash' = hash /\ snap' = snap
          /\ doomed' = doomed /\ owner' = owner /\ faults' = faults
          /\ racers' = racers /\ late' = late /\ allowed' = allowed
      BY <2>3 DEF Tick, vars, data, tx, history
    <3> QED BY <2>2, <3>1, <3>2 DEF TypeOK
  <2> QED BY <1>2, <2>2, <2>3, CleanUpType
<1> QED BY <1>1, <1>2, NextCases

LEMMA PlaceInit == Init => TypeOK /\ PlaceInv
<1> SUFFICES ASSUME Init PROVE TypeOK /\ PlaceInv
  OBVIOUS
<1>1. PlaceInv
  BY DEF Init, PlaceInv, Placed, InTx
<1>2. First \in Tokens /\ Holder \in Users /\ Original \in Passwords
  BY AccountsAssumption DEF Tokens
<1>3. /\ users \in [Users -> Passwords \cup {NoUser}] /\ furnished \subseteq Users
      /\ buckets \in [Limiters \X Keys -> Buckets \cup {None}]
      /\ now \in 0..MaxTime /\ faults \in 0..MaxFaults
  BY <1>2, AccountsAssumption DEF Init
<1>4. /\ sessions \in [Tokens -> SessionRecords \cup {None}]
      /\ links \in [Tokens -> LinkRecords \cup {None}]
  BY <1>2, AccountsAssumption DEF Init, SessionRecords, LinkRecords
<1>5. /\ pc \in [Requests -> Places \cup Ended \cup {"idle"}]
      /\ ask \in [Requests -> Asks \cup {None}]
      /\ cred \in [Requests -> Tokens \cup {None}]
      /\ who \in [Requests -> Users \cup {None}]
      /\ hash \in [Requests -> Passwords \cup {NoUser, None}]
      /\ snap \in [Requests -> SUBSET Tokens]
      /\ doomed \in [Requests -> [sessions : SUBSET Tokens, links : SUBSET Tokens]]
  BY DEF Init, NoRows
<1>6. /\ owner \in [Users -> Requests \cup {Free}]
      /\ racers \in [Tokens -> SUBSET Requests]
      /\ late \in [Users -> SUBSET Requests]
      /\ allowed \in [Requests -> Nat \cup {None}]
  BY DEF Init
<1> QED BY <1>1, <1>3, <1>4, <1>5, <1>6 DEF TypeOK

(* Every request, row and password is what the model says it can be; the   *)
(* guards of an action are the places PlaceInv knows.                      *)
THEOREM TypeCorrect == Spec => []TypeOK
  BY PlaceInit, PlaceStep, PTL DEF Spec

-----------------------------------------------------------------------------
(* Where a request comes from when it gets somewhere. *)

LEMMA Moves ==
    ASSUME TypeOK, PlaceInv, NEW t \in Requests, Step(t)
    PROVE  /\ pc[t] \notin Ended
           /\ pc'[t] # "idle"
           /\ pc'[t] = "update" => CheckPassword(t) \/ ConsumeLink(t)
           /\ pc'[t] = "purge" => UpdateUserPassword(t)
           /\ pc'[t] = "scan" => PurgeSessions(t) \/ CreatePasswordReset(t)
           /\ pc'[t] = "revoke" => ScanLinks(t)
           /\ pc'[t] = "commit" => PurgeSessions(t) \/ RevokeLinks(t)
           /\ pc'[t] = "seed" => CreateUser(t)
           /\ pc'[t] = "open" => SeedDefaultNoteTypes(t) \/ Login(t)
           /\ pc'[t] = "done" => \/ OpenSession(t) \/ DeleteSession(t) \/ Commit(t)
                                 \/ Authenticate(t) \/ RenewSession(t)
<1>0. Placed(t)
  BY DEF PlaceInv
<1>1. CASE PostSignup(t) \/ PostLogin(t) \/ PostReset(t)
  <2>1. pc[t] = "idle"
    BY <1>1 DEF PostSignup, PostLogin, PostReset, Arrive
  <2>2. pc'[t] \in {"exists", "lookup", "peek", "limited", "invalid"}
    <3>1. ASSUME NEW next \in {"exists", "lookup", "peek"}, Spend(t, None, next)
          PROVE  pc'[t] \in {next, "limited"}
      BY <3>1, SpendType DEF TypeOK
    <3>2. CASE Go(t, "invalid")
      BY <3>2 DEF Go, TypeOK
    <3> QED BY <1>1, <3>1, <3>2 DEF PostSignup, PostLogin, PostReset
  <2> QED BY <2>1, <2>2 DEF Ended
<1>2. CASE RunResetPassword(t) \/ Request(t)
  BY <1>2 DEF RunResetPassword, Request, Arrive, Go, TypeOK, Ended
<1>3. CASE Authenticate(t) \/ RenewSession(t)
  <2>1. pc'[t] \in {"done", "end", "check", "renew", "refused"}
    BY <1>0, <1>3 DEF Authenticate, RenewSession, Go, Route, TypeOK, Placed
  <2> QED BY <1>3, <2>1 DEF Authenticate, RenewSession, Ended
<1>4. CASE CheckEmail(t) \/ PeekLink(t)
  BY <1>4 DEF CheckEmail, PeekLink, Go, TypeOK, Ended
<1>5. CASE CreateUser(t) \/ SeedDefaultNoteTypes(t) \/ Login(t)
  BY <1>5 DEF CreateUser, SeedDefaultNoteTypes, Login, Go, TypeOK, Ended
<1>6. CASE OpenSession(t) \/ DeleteSession(t) \/ Commit(t)
  <2>1. Answer(t, "done") /\ pc[t] \in {"open", "end", "commit"}
    BY <1>6 DEF OpenSession, DeleteSession, Commit
  <2> QED BY <1>6, <2>1, AnswerIsOwn DEF Ended
<1>7. CASE CheckPassword(t)
  <2>1. pc'[t] \in {"update", "refused", "limited", "invalid"} /\ pc[t] = "check"
    <3>1. ASSUME NEW next \in {"update", "refused"}, Spend(t, who[t], next)
          PROVE  pc'[t] \in {next, "limited"}
      BY <3>1, SpendType DEF TypeOK
    <3>2. CASE Go(t, "invalid")
      BY <1>7, <3>2 DEF CheckPassword, Go, TypeOK
    <3> QED BY <1>7, <3>1, <3>2 DEF CheckPassword
  <2> QED BY <1>7, <2>1 DEF Ended
<1>8. CASE ConsumeLink(t) \/ CreatePasswordReset(t) \/ UpdateUserPassword(t)
  BY <1>8 DEF ConsumeLink, CreatePasswordReset, UpdateUserPassword, Go, TypeOK, Ended
<1>9. CASE PurgeSessions(t) \/ ScanLinks(t) \/ RevokeLinks(t)
  BY <1>9 DEF PurgeSessions, ScanLinks, RevokeLinks, Go, TypeOK, Ended
<1>10. CASE Abort(t) \/ Victim(t)
  <2>1. Answer(t, "failed")
    BY <1>10 DEF Abort, Victim
  <2>2. pc[t] \notin Ended
    <3>1. CASE Abort(t)
      BY <3>1 DEF Abort, Active
    <3>2. CASE Victim(t)
      <4>1. \E w : WaitsFor(t, w)
        BY <3>2 DEF Victim
      <4> QED BY <4>1 DEF WaitsFor, Ended
    <3> QED BY <1>10, <3>1, <3>2
  <2> QED BY <2>1, <2>2, AnswerIsOwn
<1> QED BY <1>1, <1>2, <1>3, <1>4, <1>5, <1>6, <1>7, <1>8, <1>9, <1>10 DEF Step, Progress

-----------------------------------------------------------------------------
(* What a step does to the tables and to the history. *)

LEMMA RacersEffect ==
    ASSUME TypeOK, PlaceInv, NEW t \in Requests, Step(t)
    PROVE  \/ Active(t) /\ racers' = racers
           \/ /\ pc[t] = "idle" /\ racers'[First] = racers[First]
              /\ \A r \in Requests : racers'[r] =
                    IF pc[r] \in InTx THEN racers[r] \cup {t} ELSE racers[r]
           \/ /\ Active(t) /\ pc[t] \notin InTx
              /\ racers' = [racers EXCEPT ![t] = {r \in Requests : Active(r)}]
<1>1. CASE \E kinds, creds : Arrive(t, kinds, creds)
  BY <1>1, ArriveIsOwn
<1>2. CASE ~ \E kinds, creds : Arrive(t, kinds, creds)
  <2>1. pc[t] # "idle" /\ pc[t] \notin Ended
    <3>1. CASE Abort(t)
      BY <3>1 DEF Abort, Active
    <3>2. CASE Victim(t)
      <4>1. \E w : WaitsFor(t, w)
        BY <3>2 DEF Victim
      <4> QED BY <4>1 DEF WaitsFor, Ended
    <3>3. CASE Progress(t)
      BY <3>3 DEF Progress, Ended, Authenticate, RenewSession, CheckEmail, CreateUser,
         SeedDefaultNoteTypes, Login, OpenSession, DeleteSession, CheckPassword,
         PeekLink, ConsumeLink, CreatePasswordReset, UpdateUserPassword,
         PurgeSessions, ScanLinks, RevokeLinks, Commit
    <3> QED BY <1>2, <3>1, <3>2, <3>3 DEF Step, PostSignup, PostLogin, PostReset,
               RunResetPassword, Request
  <2>2. Active(t)
    BY <2>1 DEF Active
  <2>3. CASE Abort(t) \/ Victim(t)
    BY <2>2, <2>3 DEF Abort, Victim, history
  <2>4. CASE CheckPassword(t)
    BY <2>2, <2>4 DEF CheckPassword, InTx
  <2>5. CASE ConsumeLink(t) \/ CreatePasswordReset(t)
    BY <2>2, <2>5 DEF ConsumeLink, CreatePasswordReset, InTx
  <2>6. CASE Progress(t) /\ ~ (CheckPassword(t) \/ ConsumeLink(t) \/ CreatePasswordReset(t))
    BY <2>2, <2>6 DEF Progress, history, Authenticate, RenewSession, CheckEmail,
       CreateUser, SeedDefaultNoteTypes, Login, OpenSession, DeleteSession,
       PeekLink, UpdateUserPassword, PurgeSessions, ScanLinks, RevokeLinks, Commit
  <2> QED BY <1>2, <2>3, <2>4, <2>5, <2>6 DEF Step, PostSignup, PostLogin, PostReset,
             RunResetPassword, Request
<1> QED BY <1>1, <1>2

SameSession(s) ==
    /\ sessions[s] # None /\ sessions'[s].user = sessions[s].user
    /\ sessions'[s].proof = sessions[s].proof

(* A session is somebody's who has just been answered, or it was there.    *)
LEMMA SessionEffect ==
    ASSUME TypeOK, PlaceInv, NEW t \in Requests, Step(t),
           NEW s \in Tokens, sessions'[s] # None
    PROVE  \/ SameSession(s)
           \/ s = t /\ OpenSession(t)
           \/ s = t /\ Commit(t) /\ ask[t].kind # "issue"
<1>0. Placed(t)
  BY DEF PlaceInv
<1>1. CASE RenewSession(t)
  <2>1. CASE UNCHANGED sessions
    BY <2>1 DEF SameSession
  <2>2. CASE sessions' = [sessions EXCEPT ![cred[t]] = Renewed(t, @)]
    <3>1. cred[t] \in Tokens /\ (s = cred[t] => sessions'[s] = Renewed(t, sessions[s]))
          /\ (s # cred[t] => sessions'[s] = sessions[s])
      BY <1>0, <1>1, <2>2 DEF RenewSession, Placed, TypeOK
    <3>2. CASE s = cred[t]
      <4>1. sessions[s] # None
            /\ sessions'[s] = [sessions[s] EXCEPT !.expires = now + SessionLifetime]
        BY <3>1, <3>2 DEF Renewed
      <4>2. sessions[s] \in SessionRecords
        BY <4>1 DEF TypeOK
      <4> QED BY <4>1, <4>2 DEF SameSession, SessionRecords
    <3> QED BY <3>1, <3>2 DEF SameSession
  <2> QED BY <1>1, <2>1, <2>2 DEF RenewSession
<1>2. CASE OpenSession(t)
  <2>1. s # t => sessions'[s] = sessions[s]
    BY <1>2 DEF OpenSession, TypeOK
  <2> QED BY <1>2, <2>1 DEF SameSession
<1>3. CASE DeleteSession(t)
  BY <1>3 DEF DeleteSession, SameSession, TypeOK
<1>4. CASE Commit(t)
  <2>1. CASE ask[t].kind = "issue"
    BY <1>4, <2>1 DEF Commit, SameSession
  <2>2. CASE ask[t].kind # "issue"
    <3> DEFINE left == [r \in Tokens |->
                          IF r \in doomed[t].sessions THEN None ELSE sessions[r]]
    <3>1. sessions' = [left EXCEPT ![t] = NewSession(t, ask[t].new)]
      BY <1>4, <2>2 DEF Commit
    <3>2. s # t => sessions'[s] = IF s \in doomed[t].sessions THEN None ELSE sessions[s]
      BY <3>1
    <3> QED BY <1>4, <2>2, <3>2 DEF SameSession
  <2> QED BY <2>1, <2>2
<1>5. CASE PostSignup(t) \/ PostLogin(t) \/ PostReset(t) \/ RunResetPassword(t) \/ Request(t)
  <2>1. UNCHANGED data
    BY <1>5 DEF PostSignup, PostLogin, PostReset, RunResetPassword, Request, Arrive
  <2> QED BY <2>1 DEF SameSession, data
<1>6. CASE Abort(t) \/ Victim(t) \/ CheckEmail(t) \/ CreateUser(t) \/ Authenticate(t)
           \/ SeedDefaultNoteTypes(t) \/ Login(t) \/ CheckPassword(t) \/ PeekLink(t)
  BY <1>6 DEF Abort, Victim, CheckEmail, CreateUser, Authenticate, Login, PeekLink,
     SeedDefaultNoteTypes, CheckPassword, SameSession, data
<1>7. CASE ConsumeLink(t) \/ CreatePasswordReset(t) \/ UpdateUserPassword(t)
           \/ PurgeSessions(t) \/ ScanLinks(t) \/ RevokeLinks(t)
  BY <1>7 DEF ConsumeLink, CreatePasswordReset, UpdateUserPassword, PurgeSessions,
     ScanLinks, RevokeLinks, SameSession, data
<1> QED BY <1>1, <1>2, <1>3, <1>4, <1>5, <1>6, <1>7 DEF Step, Progress

(* The statements of a transaction read the tables and leave them.  The    *)
(* links change when one commits.                                          *)
LEMMA LinkEffect ==
    ASSUME TypeOK, PlaceInv, NEW t \in Requests, Step(t)
    PROVE  \/ links' = links
           \/ /\ Commit(t)
              /\ \A l \in Tokens :
                    \/ l \notin doomed[t].links /\ links'[l] = links[l]
                    \/ l \in doomed[t].links /\ links'[l] = None
                    \/ /\ l = t /\ ask[t].kind = "issue"
                       /\ links'[l] = [user |-> who[t], expires |-> now + ResetLifetime]
<1>1. CASE Commit(t)
  <2> DEFINE kept == [l \in Tokens |->
                        IF l \in doomed[t].links THEN None ELSE links[l]]
  <2>1. CASE ask[t].kind = "issue"
    <3>1. links' = [kept EXCEPT ![t] = [user |-> who[t], expires |-> now + ResetLifetime]]
      BY <1>1, <2>1 DEF Commit
    <3> QED BY <1>1, <2>1, <3>1
  <2>2. CASE ask[t].kind # "issue"
    BY <1>1, <2>2 DEF Commit
  <2> QED BY <2>1, <2>2
<1>2. CASE PostSignup(t) \/ PostLogin(t) \/ PostReset(t) \/ RunResetPassword(t) \/ Request(t)
  BY <1>2 DEF PostSignup, PostLogin, PostReset, RunResetPassword, Request, Arrive, data
<1>3. CASE Abort(t) \/ Victim(t) \/ CheckEmail(t) \/ CreateUser(t) \/ Authenticate(t)
           \/ SeedDefaultNoteTypes(t) \/ Login(t) \/ CheckPassword(t) \/ PeekLink(t)
  BY <1>3 DEF Abort, RolledBack, Victim, CheckEmail, CreateUser, Authenticate, Login,
     PeekLink, SeedDefaultNoteTypes, CheckPassword, data
<1>4. CASE ConsumeLink(t) \/ CreatePasswordReset(t) \/ UpdateUserPassword(t)
           \/ PurgeSessions(t) \/ ScanLinks(t) \/ RevokeLinks(t)
  BY <1>4 DEF ConsumeLink, CreatePasswordReset, UpdateUserPassword, PurgeSessions,
     ScanLinks, RevokeLinks, data
<1>5. CASE RenewSession(t) \/ OpenSession(t) \/ DeleteSession(t)
  BY <1>5 DEF RenewSession, OpenSession, DeleteSession
<1> QED BY <1>1, <1>2, <1>3, <1>4, <1>5 DEF Step, Progress

-----------------------------------------------------------------------------
(* Passwords and the sessions opened on them.                              *)

(* Whoever is under way beside a transaction is known as its company. *)
Accompanied(t) ==
    pc[t] \in InTx => \A r \in Requests : Active(r) => r \in racers[t]

(* What a new password does not take along was on its way while it ran. *)
Purged(t) ==
    pc[t] \in {"scan", "revoke", "commit"} /\ ask[t].kind # "issue" =>
        SessionsOf(t) \subseteq doomed[t].sessions \cup racers[t]

(* A password compared before the change opens its session after it. *)
Outdated(t) ==
    pc[t] \in {"seed", "open"} /\ hash[t] # users[who[t]] => t \in late[who[t]]

Company == \A t \in Requests : Accompanied(t)
PurgeInv == \A t \in Requests : Purged(t)
HashInv == \A t \in Requests : Outdated(t)

PasswordInv == Company /\ PurgeInv /\ HashInv /\ OldPasswordNeedsOverlap

LEMMA CompanyStep ==
    ASSUME TypeOK, PlaceInv, Company, NEW t \in Requests, Step(t)
    PROVE  Company'
<1>1. \A r \in Requests : Active(r)' => Active(r) \/ r = t
  BY OthersStay DEF SameOf, Active
<1>2. \A r \in Requests \ {t} : pc'[r] = pc[r]
  BY OthersStay DEF SameOf
<1>3. pc'[t] \in InTx => \/ pc[t] \in InTx
                         \/ CheckPassword(t) \/ ConsumeLink(t) \/ CreatePasswordReset(t)
  <2>1. PurgeSessions(t) \/ RevokeLinks(t) \/ ScanLinks(t) \/ UpdateUserPassword(t) =>
           pc[t] \in InTx
    BY DEF PurgeSessions, RevokeLinks, ScanLinks, UpdateUserPassword, InTx
  <2> QED BY <2>1, Moves DEF InTx
<1>4. CASE Active(t) /\ racers' = racers
  <2>1. SUFFICES ASSUME NEW v \in Requests, pc'[v] \in InTx,
                        NEW r \in Requests, Active(r)'
                 PROVE  r \in racers'[v]
    BY DEF Company, Accompanied
  <2>2. Active(r)
    BY <1>1, <1>4, <2>1
  <2>3. CASE pc[v] \in InTx
    BY <1>4, <2>2, <2>3 DEF Company, Accompanied
  <2>4. CASE v = t /\ (CheckPassword(t) \/ ConsumeLink(t) \/ CreatePasswordReset(t))
    <3>1. racers'[t] = {q \in Requests : Active(q)}
      <4>1. CASE CheckPassword(t)
        <5>1. pc'[t] # "invalid"
          BY <2>1, <2>4 DEF InTx
        <5>2. pc' # [pc EXCEPT ![t] = "invalid"]
          BY <5>1 DEF TypeOK
        <5>3. racers' = [racers EXCEPT ![t] = {q \in Requests : Active(q)}]
          BY <4>1, <5>2 DEF CheckPassword, Go
        <5> QED BY <5>3 DEF TypeOK, Tokens
      <4>2. CASE ConsumeLink(t)
        <5>1. pc'[t] # "refused"
          BY <2>1, <2>4 DEF InTx
        <5>2. pc' # [pc EXCEPT ![t] = "refused"]
          BY <5>1 DEF TypeOK
        <5>3. racers' = [racers EXCEPT ![t] = {q \in Requests : Active(q)}]
          BY <4>2, <5>2 DEF ConsumeLink, Go
        <5> QED BY <5>3 DEF TypeOK, Tokens
      <4>3. CASE CreatePasswordReset(t)
        BY <4>3 DEF CreatePasswordReset, TypeOK, Tokens
      <4> QED BY <2>4, <4>1, <4>2, <4>3
    <3> QED BY <2>2, <2>4, <3>1
  <2> QED BY <1>2, <1>3, <2>1, <2>3, <2>4
<1>5. CASE /\ pc[t] = "idle" /\ racers'[First] = racers[First]
           /\ \A r \in Requests : racers'[r] =
                IF pc[r] \in InTx THEN racers[r] \cup {t} ELSE racers[r]
  <2>1. SUFFICES ASSUME NEW v \in Requests, pc'[v] \in InTx,
                        NEW r \in Requests, Active(r)'
                 PROVE  r \in racers'[v]
    BY DEF Company, Accompanied
  <2>2. pc[v] \in InTx
    <3>1. ~ (CheckPassword(t) \/ ConsumeLink(t) \/ CreatePasswordReset(t))
      BY <1>5 DEF CheckPassword, ConsumeLink, CreatePasswordReset
    <3> QED BY <1>2, <1>3, <2>1, <3>1
  <2> QED BY <1>1, <1>5, <2>1, <2>2 DEF Company, Accompanied
<1>6. CASE /\ Active(t) /\ pc[t] \notin InTx
           /\ racers' = [racers EXCEPT ![t] = {r \in Requests : Active(r)}]
  <2>1. SUFFICES ASSUME NEW v \in Requests, pc'[v] \in InTx,
                        NEW r \in Requests, Active(r)'
                 PROVE  r \in racers'[v]
    BY DEF Company, Accompanied
  <2>2. Active(r)
    BY <1>1, <1>6, <2>1
  <2>3. racers'[v] = IF v = t THEN {q \in Requests : Active(q)} ELSE racers[v]
    BY <1>6 DEF TypeOK, Tokens
  <2> QED BY <1>2, <2>1, <2>2, <2>3 DEF Company, Accompanied
<1> QED BY <1>4, <1>5, <1>6, RacersEffect

(* The company of a transaction only grows. *)
LEMMA RacersGrow ==
    ASSUME TypeOK, PlaceInv, NEW t \in Requests, Step(t),
           NEW v \in Requests, pc[v] \in InTx
    PROVE  racers[v] \subseteq racers'[v]
  BY RacersEffect DEF TypeOK, Tokens

(* A password is set by the sign-up and by the commit of a change. *)
LEMMA UserEffect ==
    ASSUME TypeOK, PlaceInv, NEW t \in Requests, Step(t)
    PROVE  \/ users' = users /\ late' = late
           \/ /\ CreateUser(t) /\ sessions' = sessions /\ late' = late
              /\ \E u \in Users :
                    /\ u = Lower(ask[t].email) /\ users[u] = NoUser
                    /\ users' = [users EXCEPT ![u] = ask[t].new]
                    /\ who'[t] = u /\ hash'[t] = ask[t].new
                    /\ ask[t].new \in Passwords
           \/ /\ Commit(t) /\ ask[t].kind # "issue" /\ ask[t].new \in Passwords
              /\ who[t] \in Users
              /\ users' = [users EXCEPT ![who[t]] = ask[t].new]
              /\ late' = [late EXCEPT ![who[t]] = racers[t]]
              /\ sessions'[t] = [user |-> who[t], expires |-> now + SessionLifetime,
                                 proof |-> ask[t].new]
              /\ \A s \in Tokens \ {t} : s \in doomed[t].sessions => sessions'[s] = None
<1>0. Placed(t)
  BY DEF PlaceInv
<1>1. CASE CreateUser(t)
  <2> DEFINE u == Lower(ask[t].email)
  <2>1. u \in Users /\ ask[t].new \in Passwords
    BY <1>0, <1>1, AskType DEF CreateUser, Placed
  <2>2. CASE Conflicts(u)
    BY <1>1, <2>2 DEF CreateUser, history
  <2>3. CASE ~ Conflicts(u)
    <3>1. /\ users' = [users EXCEPT ![u] = ask[t].new] /\ sessions' = sessions
          /\ who'[t] = u /\ hash'[t] = ask[t].new /\ late' = late /\ users[u] = NoUser
      BY <1>1, <2>3 DEF CreateUser, Conflicts, history, TypeOK
    <3> QED BY <1>1, <2>1, <3>1
  <2> QED BY <2>2, <2>3
<1>2. CASE Commit(t)
  <2>1. CASE ask[t].kind = "issue"
    BY <1>2, <2>1 DEF Commit
  <2>2. CASE ask[t].kind # "issue"
    <3> DEFINE left == [s \in Tokens |->
                          IF s \in doomed[t].sessions THEN None ELSE sessions[s]]
    <3>1. /\ users' = [users EXCEPT ![who[t]] = ask[t].new]
          /\ sessions' = [left EXCEPT ![t] = NewSession(t, ask[t].new)]
          /\ late' = [late EXCEPT ![who[t]] = racers[t]]
      BY <1>2, <2>2 DEF Commit
    <3>2. ask[t].new \in Passwords /\ who[t] \in Users
      BY <1>0, <1>2, <2>2 DEF Commit, Placed, InTx
    <3>3. /\ sessions'[t] = NewSession(t, ask[t].new)
          /\ \A s \in Tokens \ {t} : s \in doomed[t].sessions => sessions'[s] = None
      BY <3>1 DEF Tokens
    <3> QED BY <1>2, <2>2, <3>1, <3>2, <3>3 DEF NewSession
  <2> QED BY <2>1, <2>2
<1>3. CASE PostSignup(t) \/ PostLogin(t) \/ PostReset(t) \/ RunResetPassword(t) \/ Request(t)
  BY <1>3 DEF PostSignup, PostLogin, PostReset, RunResetPassword, Request, Arrive, data
<1>4. CASE Abort(t) \/ Victim(t) \/ CheckEmail(t) \/ Authenticate(t)
           \/ SeedDefaultNoteTypes(t) \/ Login(t) \/ CheckPassword(t) \/ PeekLink(t)
  BY <1>4 DEF Abort, Victim, CheckEmail, Authenticate, Login, PeekLink,
     SeedDefaultNoteTypes, CheckPassword, data, history
<1>5. CASE ConsumeLink(t) \/ CreatePasswordReset(t) \/ UpdateUserPassword(t)
           \/ PurgeSessions(t) \/ ScanLinks(t) \/ RevokeLinks(t)
  BY <1>5 DEF ConsumeLink, CreatePasswordReset, UpdateUserPassword, PurgeSessions,
     ScanLinks, RevokeLinks, data, history
<1>6. CASE RenewSession(t) \/ OpenSession(t) \/ DeleteSession(t)
  BY <1>6 DEF RenewSession, OpenSession, DeleteSession, history
<1> QED BY <1>1, <1>2, <1>3, <1>4, <1>5, <1>6 DEF Step, Progress

(* A transaction's own statements read the sessions and leave them. *)
LEMMA PurgeStep ==
    ASSUME TypeOK, PlaceInv, Company, PurgeInv, NEW t \in Requests, Step(t)
    PROVE  PurgeInv'
<1> SUFFICES ASSUME NEW v \in Requests,
                    pc'[v] \in {"scan", "revoke", "commit"}, ask'[v].kind # "issue",
                    NEW s \in Tokens, sessions'[s] # None, sessions'[s].user = who'[v],
                    s \notin doomed'[v].sessions
             PROVE  s \in racers'[v]
  BY DEF PurgeInv, Purged, SessionsOf
<1>1. CASE v # t
  <2>1. /\ pc[v] \in {"scan", "revoke", "commit"} /\ ask[v].kind # "issue"
        /\ who'[v] = who[v] /\ doomed'[v] = doomed[v]
    BY <1>1, OthersStay DEF SameOf
  <2>2. pc[v] \in InTx /\ racers[v] \subseteq racers'[v]
    BY <2>1, RacersGrow DEF InTx
  <2>3. CASE SameSession(s)
    BY <2>1, <2>2, <2>3 DEF SameSession, PurgeInv, Purged, SessionsOf
  <2>4. CASE s = t /\ (OpenSession(t) \/ Commit(t))
    <3>1. Active(t)
      BY <2>4 DEF OpenSession, Commit, Active, Ended
    <3> QED BY <2>2, <2>4, <3>1 DEF Company, Accompanied
  <2> QED BY <2>3, <2>4, SessionEffect
<1>2. CASE v = t
  <2>1. PurgeSessions(t) \/ ScanLinks(t) \/ RevokeLinks(t)
    <3>1. CASE CreatePasswordReset(t)
      BY <1>2, <3>1 DEF CreatePasswordReset
    <3> QED BY <1>2, <3>1, Moves
  <2>2. sessions' = sessions /\ who' = who /\ ask' = ask /\ racers' = racers
    BY <2>1 DEF PurgeSessions, ScanLinks, RevokeLinks, data, history
  <2>3. s \in SessionsOf(t)
    BY <1>2, <2>2 DEF SessionsOf
  <2>4. CASE PurgeSessions(t)
    <3>1. doomed'[t].sessions = SessionsOf(t)
      BY <2>4 DEF PurgeSessions, TypeOK
    <3> QED BY <1>2, <2>3, <3>1
  <2>5. CASE ScanLinks(t) \/ RevokeLinks(t)
    <3>1. doomed'[t].sessions = doomed[t].sessions
      BY <2>5 DEF ScanLinks, RevokeLinks, TypeOK
    <3>2. pc[t] \in {"scan", "revoke", "commit"} /\ ask[t].kind # "issue"
      BY <1>2, <2>2, <2>5 DEF ScanLinks, RevokeLinks
    <3> QED BY <1>2, <2>2, <2>3, <3>1, <3>2 DEF PurgeInv, Purged
  <2> QED BY <2>1, <2>4, <2>5
<1> QED BY <1>1, <1>2

LEMMA HashStep ==
    ASSUME TypeOK, PlaceInv, Company, HashInv, NEW t \in Requests, Step(t)
    PROVE  HashInv'
<1> SUFFICES ASSUME NEW v \in Requests, pc'[v] \in {"seed", "open"},
                    hash'[v] # users'[who'[v]]
             PROVE  v \in late'[who'[v]]
  BY DEF HashInv, Outdated
<1>1. CASE v # t
  <2>1. SameOf(v) /\ pc[v] \in {"seed", "open"}
    BY <1>1, OthersStay DEF SameOf
  <2>2. who'[v] = who[v] /\ hash'[v] = hash[v] /\ who[v] \in Users /\ hash[v] \in Passwords
    BY <2>1 DEF SameOf, PlaceInv, Placed
  <2>3. CASE users' = users /\ late' = late
    BY <2>1, <2>2, <2>3 DEF HashInv, Outdated
  <2>4. CASE \E u \in Users : /\ users[u] = NoUser /\ late' = late
                              /\ users' = [users EXCEPT ![u] = ask[t].new]
    <3>1. hash[v] # users[who[v]]
      BY <2>2, <2>4, AccountsAssumption DEF TypeOK
    <3> QED BY <2>1, <2>2, <2>4, <3>1 DEF HashInv, Outdated
  <2>5. CASE /\ Commit(t) /\ who[t] \in Users
             /\ users' = [users EXCEPT ![who[t]] = ask[t].new]
             /\ late' = [late EXCEPT ![who[t]] = racers[t]]
    <3>1. pc[t] \in InTx /\ Active(v)
      BY <2>1, <2>5 DEF Commit, InTx, Active, Ended
    <3>2. v \in racers[t]
      BY <3>1 DEF Company, Accompanied
    <3>3. CASE who[v] = who[t]
      BY <2>2, <2>5, <3>2, <3>3 DEF TypeOK
    <3>4. CASE who[v] # who[t]
      BY <2>1, <2>2, <2>5, <3>4 DEF HashInv, Outdated, TypeOK
    <3> QED BY <3>3, <3>4
  <2> QED BY <2>3, <2>4, <2>5, UserEffect
<1>2. CASE v = t
  <2>1. CASE CreateUser(t)
    <3>1. pc'[t] # "conflict"
      BY <1>2
    <3>2. ~ Conflicts(Lower(ask[t].email))
      BY <2>1, <3>1 DEF CreateUser, Go, TypeOK
    <3>3. /\ users' = [users EXCEPT ![Lower(ask[t].email)] = ask[t].new]
          /\ who'[t] = Lower(ask[t].email) /\ hash'[t] = ask[t].new
      BY <2>1, <3>2 DEF CreateUser, TypeOK
    <3>4. Lower(ask[t].email) \in Users
      BY <2>1, AskType DEF CreateUser, PlaceInv, Placed
    <3> QED BY <1>2, <3>3, <3>4 DEF TypeOK
  <2>2. CASE SeedDefaultNoteTypes(t)
    BY <1>2, <2>2 DEF SeedDefaultNoteTypes, HashInv, Outdated, history
  <2>3. CASE Login(t)
    BY <1>2, <2>3 DEF Login, GetUserByEmail, data, TypeOK
  <2> QED BY <1>2, <2>1, <2>2, <2>3, Moves
<1> QED BY <1>1, <1>2

LEMMA OldPasswordStep ==
    ASSUME TypeOK, PlaceInv, PasswordInv, NEW t \in Requests, Step(t)
    PROVE  OldPasswordNeedsOverlap'
<1> SUFFICES ASSUME NEW s \in Tokens, sessions'[s] # None,
                    sessions'[s].proof # users'[sessions'[s].user]
             PROVE  s \in late'[sessions'[s].user]
  BY DEF OldPasswordNeedsOverlap
<1>1. CASE SameSession(s)
  <2>1. /\ sessions[s] # None /\ sessions[s].user \in Users /\ sessions[s].proof \in Passwords
        /\ sessions'[s].user = sessions[s].user /\ sessions'[s].proof = sessions[s].proof
    BY <1>1 DEF SameSession, TypeOK, SessionRecords
  <2>2. CASE users' = users /\ late' = late
    BY <2>1, <2>2 DEF PasswordInv, OldPasswordNeedsOverlap
  <2>3. CASE \E u \in Users : /\ users[u] = NoUser /\ late' = late
                              /\ users' = [users EXCEPT ![u] = ask[t].new]
    <3>1. sessions[s].proof # users[sessions[s].user]
      BY <2>1, <2>3, AccountsAssumption DEF TypeOK
    <3> QED BY <2>1, <2>3, <3>1 DEF PasswordInv, OldPasswordNeedsOverlap
  <2>4. CASE /\ Commit(t) /\ ask[t].kind # "issue" /\ who[t] \in Users
             /\ users' = [users EXCEPT ![who[t]] = ask[t].new]
             /\ late' = [late EXCEPT ![who[t]] = racers[t]]
             /\ sessions'[t] = [user |-> who[t], expires |-> now + SessionLifetime,
                                proof |-> ask[t].new]
             /\ \A q \in Tokens \ {t} : q \in doomed[t].sessions => sessions'[q] = None
    <3>1. CASE sessions[s].user # who[t]
      BY <2>1, <2>4, <3>1 DEF PasswordInv, OldPasswordNeedsOverlap, TypeOK
    <3>2. CASE sessions[s].user = who[t]
      <4>1. late'[who[t]] = racers[t] /\ users'[who[t]] = ask[t].new
        BY <2>4 DEF TypeOK
      <4>2. s # t
        BY <2>1, <2>4, <3>2, <4>1
      <4>3. s \notin doomed[t].sessions
        BY <2>4, <4>2
      <4>4. s \in SessionsOf(t)
        BY <2>1, <3>2 DEF SessionsOf
      <4>5. s \in racers[t]
        BY <2>4, <4>3, <4>4 DEF PasswordInv, PurgeInv, Purged, Commit
      <4> QED BY <2>1, <3>2, <4>1, <4>5
    <3> QED BY <3>1, <3>2
  <2> QED BY <2>2, <2>3, <2>4, UserEffect
<1>2. CASE s = t /\ OpenSession(t)
  <2>1. /\ pc[t] = "open" /\ sessions'[t] = NewSession(t, hash[t])
        /\ users' = users /\ late' = late
    BY <1>2 DEF OpenSession, history, TypeOK
  <2> QED BY <1>2, <2>1 DEF NewSession, PasswordInv, HashInv, Outdated
<1>3. CASE s = t /\ Commit(t) /\ ask[t].kind # "issue"
  <2>1. /\ who[t] \in Users /\ users' = [users EXCEPT ![who[t]] = ask[t].new]
        /\ sessions'[t] = [user |-> who[t], expires |-> now + SessionLifetime,
                           proof |-> ask[t].new]
    <3>1. ~ CreateUser(t)
      BY <1>3 DEF CreateUser, Commit
    <3>2. CASE users' = users /\ late' = late
      <4>1. /\ users' = [users EXCEPT ![who[t]] = ask[t].new]
            /\ sessions' = [[r \in Tokens |-> IF r \in doomed[t].sessions THEN None
                             ELSE sessions[r]] EXCEPT ![t] = NewSession(t, ask[t].new)]
        BY <1>3 DEF Commit
      <4>2. who[t] \in Users
        BY <1>3 DEF Commit, PlaceInv, Placed, InTx
      <4> QED BY <1>3, <4>1, <4>2 DEF NewSession
    <3> QED BY <3>1, <3>2, UserEffect
  <2> QED BY <1>3, <2>1 DEF TypeOK
<1> QED BY <1>1, <1>2, <1>3, SessionEffect

(* Time and the clean-up make no session. *)
LEMMA IdlePasswords ==
    ASSUME TypeOK, PasswordInv, Tick \/ CleanUp \/ UNCHANGED vars
    PROVE  PasswordInv'
<1>1. UNCHANGED <<users, pc, ask, who, hash, doomed, racers, late>>
  BY DEF Tick, CleanUp, vars, data, tx, history
<1>2. \A s \in Tokens : sessions'[s] # None => sessions'[s] = sessions[s]
  BY DEF Tick, CleanUp, vars, data
<1>3. Company' /\ HashInv'
  BY <1>1 DEF PasswordInv, Company, Accompanied, Active, HashInv, Outdated
<1>4. PurgeInv'
  <2>1. ASSUME NEW t \in Requests PROVE SessionsOf(t)' \subseteq SessionsOf(t)
    BY <1>1, <1>2 DEF SessionsOf
  <2>2. ASSUME NEW t \in Requests PROVE Purged(t)'
    BY <1>1, <2>1 DEF PasswordInv, PurgeInv, Purged
  <2> QED BY <2>2 DEF PurgeInv
<1>5. OldPasswordNeedsOverlap'
  BY <1>1, <1>2 DEF PasswordInv, OldPasswordNeedsOverlap
<1> QED BY <1>3, <1>4, <1>5 DEF PasswordInv

LEMMA PasswordStep ==
    TypeOK /\ PlaceInv /\ PasswordInv /\ [Next]_vars => PasswordInv'
<1> SUFFICES ASSUME TypeOK, PlaceInv, PasswordInv, Next \/ UNCHANGED vars
             PROVE  PasswordInv'
  OBVIOUS
<1>1. ASSUME NEW t \in Requests, Step(t) PROVE PasswordInv'
  BY <1>1, CompanyStep, PurgeStep, HashStep, OldPasswordStep DEF PasswordInv
<1> QED BY <1>1, IdlePasswords, NextCases

LEMMA PasswordInit == Init => PasswordInv
<1> SUFFICES ASSUME Init PROVE PasswordInv
  OBVIOUS
<1>1. Company /\ PurgeInv /\ HashInv
  BY DEF Init, Company, Accompanied, InTx, PurgeInv, Purged, HashInv, Outdated
<1>2. OldPasswordNeedsOverlap
  <2>1. \A s \in Tokens : sessions[s] # None =>
           sessions[s] = [user |-> Holder, expires |-> SessionLifetime, proof |-> Original]
    BY DEF Init
  <2>2. users[Holder] = Original
    BY AccountsAssumption DEF Init
  <2> QED BY <2>1, <2>2 DEF OldPasswordNeedsOverlap
<1> QED BY <1>1, <1>2 DEF PasswordInv

(* A session opened on a password that is not the account's any more is of *)
(* a request that ran beside the change: ChangePassword and ResetPassword  *)
(* delete every session their transaction can see, and nobody opens one    *)
(* later on a hash read before.                                            *)
THEOREM OldSessionsRacedTheChange == Spec => []OldPasswordNeedsOverlap
<1>1. PasswordInv => OldPasswordNeedsOverlap
  BY DEF PasswordInv
<1> QED BY <1>1, PlaceInit, PlaceStep, PasswordInit, PasswordStep, PTL DEF Spec

-----------------------------------------------------------------------------
(* Reset links.                                                            *)

(* What a request asks, and with which token, is settled when it arrives. *)
LEMMA AskEffect ==
    ASSUME TypeOK, PlaceInv, NEW t \in Requests, Step(t)
    PROVE  \/ pc[t] # "idle" /\ ask' = ask /\ cred' = cred
           \/ /\ pc[t] = "idle" /\ UNCHANGED <<data, who, tx>>
              /\ pc'[t] \notin InTx \cup {"done"}
              /\ ask'[t].kind = "reset" => cred'[t] \in Handed
<1>1. CASE PostSignup(t) \/ PostLogin(t) \/ PostReset(t)
  <2>1. pc'[t] \notin InTx \cup {"done"}
    <3>1. ~ (CheckPassword(t) \/ ConsumeLink(t) \/ CreatePasswordReset(t)
             \/ UpdateUserPassword(t) \/ PurgeSessions(t) \/ ScanLinks(t) \/ RevokeLinks(t)
             \/ OpenSession(t) \/ DeleteSession(t) \/ Commit(t) \/ Authenticate(t)
             \/ RenewSession(t))
      BY <1>1 DEF PostSignup, PostLogin, PostReset, Arrive, CheckPassword, ConsumeLink,
         CreatePasswordReset, UpdateUserPassword, PurgeSessions, ScanLinks, RevokeLinks,
         OpenSession, DeleteSession, Commit, Authenticate, RenewSession
    <3> QED BY <3>1, Moves DEF InTx
  <2>2. PICK kinds, creds : /\ Arrive(t, kinds, creds)
                            /\ "reset" \in kinds => creds = Handed
    BY <1>1 DEF PostSignup, PostLogin, PostReset
  <2> QED BY <2>1, <2>2, ArriveIsOwn
<1>2. CASE RunResetPassword(t) \/ Request(t)
  <2>1. pc'[t] \notin InTx \cup {"done"}
    BY <1>2 DEF RunResetPassword, Request, Go, TypeOK, InTx
  <2>2. PICK kinds, creds : Arrive(t, kinds, creds) /\ "reset" \notin kinds
    BY <1>2 DEF RunResetPassword, Request
  <2> QED BY <2>1, <2>2, ArriveIsOwn
<1>3. CASE Abort(t) \/ Victim(t)
  <2>1. pc[t] # "idle"
    <3>1. CASE Abort(t)
      BY <3>1 DEF Abort, Active
    <3>2. CASE Victim(t)
      <4>1. \E w : WaitsFor(t, w)
        BY <3>2 DEF Victim
      <4> QED BY <4>1 DEF WaitsFor
    <3> QED BY <1>3, <3>1, <3>2
  <2> QED BY <1>3, <2>1 DEF Abort, Victim
<1>4. CASE Authenticate(t) \/ RenewSession(t) \/ CheckEmail(t) \/ CreateUser(t)
           \/ SeedDefaultNoteTypes(t) \/ Login(t) \/ OpenSession(t) \/ DeleteSession(t)
  BY <1>4 DEF Authenticate, RenewSession, CheckEmail, CreateUser, SeedDefaultNoteTypes,
     Login, OpenSession, DeleteSession
<1>5. CASE CheckPassword(t) \/ PeekLink(t) \/ ConsumeLink(t) \/ CreatePasswordReset(t)
           \/ UpdateUserPassword(t) \/ PurgeSessions(t) \/ ScanLinks(t)
           \/ RevokeLinks(t) \/ Commit(t)
  BY <1>5 DEF CheckPassword, PeekLink, ConsumeLink, CreatePasswordReset,
     UpdateUserPassword, PurgeSessions, ScanLinks, RevokeLinks, Commit
<1> QED BY <1>1, <1>2, <1>3, <1>4, <1>5 DEF Step, Progress

(* The rows a request has seen or takes are those its statements found. *)
LEMMA RowsEffect ==
    ASSUME TypeOK, PlaceInv, NEW t \in Requests, Step(t)
    PROVE  \/ /\ snap'[t] = snap[t] /\ doomed'[t].links = doomed[t].links
              /\ pc[t] \in InTx => who'[t] = who[t] /\ ask'[t] = ask[t] /\ cred'[t] = cred[t]
              /\ ~ Commit(t)
              /\ pc[t] \notin InTx /\ pc'[t] \in InTx => ask'[t].kind # "reset"
           \/ /\ snap'[t] = {} /\ doomed'[t].links = {} /\ pc'[t] \notin InTx
           \/ /\ ConsumeLink(t) /\ pc'[t] = "update" /\ LiveLink(cred[t])
              /\ cred' = cred /\ cred[t] \in Tokens
              /\ snap'[t] = {} /\ doomed'[t].links = {cred[t]} /\ links' = links
              /\ who'[t] = links[cred[t]].user /\ ~ HeldLink(cred[t], t)
           \/ /\ ScanLinks(t) /\ snap'[t] = LinksOf(t) /\ doomed'[t].links = doomed[t].links
              /\ who'[t] = who[t] /\ ask' = ask /\ links' = links
           \/ /\ RevokeLinks(t) /\ snap'[t] = snap[t] /\ who'[t] = who[t] /\ ask' = ask
              /\ links' = links /\ doomed'[t].links = {l \in snap[t] : links[l] # None}
              /\ \A l \in snap[t] : ~ HeldLink(l, t)
<1>0. Placed(t)
  BY DEF PlaceInv
<1>1. CASE ConsumeLink(t)
  <2>0. pc[t] = "consume" /\ cred[t] \in Tokens /\ ~ HeldLink(cred[t], t)
        /\ UNCHANGED <<links, cred, snap>> /\ pc[t] \notin InTx /\ snap[t] = {}
        /\ doomed[t] = NoRows
    BY <1>0, <1>1 DEF ConsumeLink, Placed, data, InTx
  <2>1. CASE LiveLink(cred[t])
    <3>1. /\ who' = [who EXCEPT ![t] = links[cred[t]].user]
          /\ doomed' = [doomed EXCEPT ![t].links = {cred[t]}]
          /\ pc' = [pc EXCEPT ![t] = "update"]
      BY <1>1, <2>1 DEF ConsumeLink, Spent, Go
    <3>2. /\ who'[t] = links[cred[t]].user /\ doomed'[t].links = {cred[t]}
          /\ pc'[t] = "update"
      BY <3>1 DEF TypeOK
    <3> QED BY <1>1, <2>0, <2>1, <3>2
  <2>2. CASE ~ LiveLink(cred[t])
    <3>1. pc'[t] = "refused" /\ doomed' = doomed
      BY <1>1, <2>2 DEF ConsumeLink, Go, TypeOK
    <3> QED BY <2>0, <3>1 DEF InTx, NoRows
  <2> QED BY <2>1, <2>2
<1>2. CASE ScanLinks(t)
  BY <1>2 DEF ScanLinks, TypeOK, data
<1>3. CASE RevokeLinks(t)
  <2>1. doomed'[t].links = {l \in snap[t] : links[l] # None}
    BY <1>3 DEF RevokeLinks, TypeOK
  <2> QED BY <1>3, <2>1 DEF RevokeLinks, data
<1>4. CASE OpenSession(t) \/ DeleteSession(t) \/ Commit(t) \/ Abort(t) \/ Victim(t)
  <2>1. PICK status \in {"done", "failed"} : Answer(t, status)
    BY <1>4 DEF OpenSession, DeleteSession, Commit, Abort, Victim
  <2> QED BY <2>1, AnswerIsOwn DEF NoRows, InTx
<1>5. CASE pc[t] = "idle"
  <2>1. snap'[t] = snap[t] /\ doomed'[t] = doomed[t] /\ pc'[t] \notin InTx
    BY <1>5, AskEffect DEF tx
  <2>2. ~ Commit(t) /\ pc[t] \notin InTx
    BY <1>5 DEF Commit, InTx
  <2> QED BY <2>1, <2>2
<1>6. CASE Authenticate(t) \/ RenewSession(t) \/ CheckEmail(t) \/ CreateUser(t)
           \/ SeedDefaultNoteTypes(t) \/ Login(t) \/ PeekLink(t)
  <2>1. pc[t] \notin InTx /\ ~ Commit(t)
    BY <1>6 DEF Authenticate, RenewSession, CheckEmail, CreateUser, InTx, Commit,
       SeedDefaultNoteTypes, Login, PeekLink
  <2>2. snap' = snap /\ doomed' = doomed
    BY <1>6 DEF Authenticate, RenewSession, CheckEmail, CreateUser, tx,
       SeedDefaultNoteTypes, Login, PeekLink
  <2>3. pc'[t] \notin InTx
    <3>1. ~ (CheckPassword(t) \/ ConsumeLink(t) \/ CreatePasswordReset(t)
             \/ UpdateUserPassword(t) \/ PurgeSessions(t) \/ ScanLinks(t) \/ RevokeLinks(t))
      BY <1>6 DEF Authenticate, RenewSession, CheckEmail, CreateUser, SeedDefaultNoteTypes,
         Login, PeekLink, CheckPassword, ConsumeLink, CreatePasswordReset,
         UpdateUserPassword, PurgeSessions, ScanLinks, RevokeLinks
    <3> QED BY <3>1, Moves DEF InTx
  <2> QED BY <2>1, <2>2, <2>3
<1>7. CASE CheckPassword(t) \/ CreatePasswordReset(t)
  <2>1. pc[t] \notin InTx /\ ~ Commit(t) /\ snap' = snap /\ doomed' = doomed
        /\ ask' = ask /\ ask[t].kind # "reset"
    BY <1>0, <1>7 DEF CheckPassword, CreatePasswordReset, InTx, Commit, tx, Placed
  <2> QED BY <2>1
<1>8. CASE UpdateUserPassword(t) \/ PurgeSessions(t)
  <2>1. /\ pc[t] \in InTx /\ ~ Commit(t) /\ snap' = snap /\ ask' = ask /\ cred' = cred
        /\ who' = who
    BY <1>8 DEF UpdateUserPassword, PurgeSessions, InTx, Commit
  <2>2. doomed'[t].links = doomed[t].links
    BY <1>8 DEF UpdateUserPassword, PurgeSessions, TypeOK
  <2> QED BY <2>1, <2>2
<1> QED BY <1>1, <1>2, <1>3, <1>4, <1>5, <1>6, <1>7, <1>8
       DEF Step, Progress, PostSignup, PostLogin, PostReset, RunResetPassword, Request, Arrive

(* Nobody has, asks for or has seen a link that no answer has handed out. *)
HandInv ==
    /\ \A l \in Tokens : links[l] # None => l \in Handed
    /\ \A t \in Requests : pc[t] # "idle" /\ ask[t].kind = "reset" => cred[t] \in Handed
    /\ \A t \in Requests : snap[t] \cup doomed[t].links \subseteq Handed

(* A link that a DELETE does not see or take was on its way while it ran. *)
Scanned(t) ==
    /\ pc[t] = "revoke" => LinksOf(t) \subseteq snap[t] \cup racers[t]
    /\ pc[t] = "commit" /\ ask[t].kind # "reset" =>
          LinksOf(t) \subseteq doomed[t].links \cup racers[t]

(* What a transaction deletes is there, and its account's: nobody else     *)
(* deletes it meanwhile.                                                   *)
Claimed(t) ==
    /\ \A l \in snap[t] : links[l] # None => links[l].user = who[t]
    /\ \A l \in doomed[t].links : links[l] # None /\ links[l].user = who[t]
    /\ pc[t] \in InTx /\ ask[t].kind = "reset" => doomed[t].links = {cred[t]}

ScanInv == \A t \in Requests : Scanned(t)
ClaimInv == \A t \in Requests : Claimed(t)
Apart == \A t, v \in Requests : t # v => doomed[t].links \cap doomed[v].links = {}

(* A link that has changed a password is gone for good. *)
UsedUp ==
    \A t \in Requests : pc[t] = "done" /\ ask[t].kind = "reset" => links[cred[t]] = None

LinkInv == HandInv /\ ScanInv /\ ClaimInv /\ Apart /\ UsedUp /\ LinksWorkOnce

(* Answers are not taken back, and one under way has handed out nothing. *)
LEMMA HandedGrows ==
    ASSUME TypeOK, PlaceInv, NEW t \in Requests, Step(t)
    PROVE  Handed \subseteq Handed' /\ t \notin Handed
<1>1. pc[t] # "done"
  BY Moves DEF Ended
<1>2. \A r \in Requests : pc[r] = "done" => pc'[r] = "done"
  BY <1>1, OthersStay DEF SameOf
<1> QED BY <1>1, <1>2, AccountsAssumption DEF Handed

(* A link of the next state was there, or a commit has just issued it. *)
LEMMA LinkBirth ==
    ASSUME TypeOK, PlaceInv, NEW t \in Requests, Step(t),
           NEW l \in Tokens, links'[l] # None
    PROVE  \/ links'[l] = links[l] /\ (Commit(t) => l \notin doomed[t].links)
           \/ /\ l = t /\ Commit(t) /\ ask[t].kind = "issue"
              /\ pc'[t] = "done" /\ links'[l].user = who[t]
<1>1. CASE links' = links /\ ~ Commit(t)
  BY <1>1
<1>2. CASE Commit(t)
  <2>1. pc'[t] = "done"
    BY <1>2, AnswerIsOwn DEF Commit
  <2>2. \/ l \notin doomed[t].links /\ links'[l] = links[l]
        \/ l = t /\ ask[t].kind = "issue" /\ links'[l].user = who[t]
    <3> DEFINE kept == [m \in Tokens |-> IF m \in doomed[t].links THEN None ELSE links[m]]
    <3>1. CASE ask[t].kind = "issue"
      <4>1. links' = [kept EXCEPT ![t] =
                        [user |-> who[t], expires |-> now + ResetLifetime]]
        BY <1>2, <3>1 DEF Commit
      <4>2. l # t => links'[l] = kept[l]
        BY <4>1
      <4>3. l = t => links'[l] = [user |-> who[t], expires |-> now + ResetLifetime]
        BY <4>1
      <4> QED BY <3>1, <4>2, <4>3
    <3>2. CASE ask[t].kind # "issue"
      <4>1. links' = kept
        BY <1>2, <3>2 DEF Commit
      <4> QED BY <4>1
    <3> QED BY <3>1, <3>2
  <2> QED BY <1>2, <2>1, <2>2
<1> QED BY <1>1, <1>2, LinkEffect

(* A link that a step removes was taken by a commit. *)
LEMMA LinkDeath ==
    ASSUME TypeOK, PlaceInv, NEW t \in Requests, Step(t),
           NEW l \in Tokens, links[l] # None
    PROVE  \/ l = t /\ Commit(t)
           \/ links'[l] = links[l]
           \/ Commit(t) /\ l \in doomed[t].links
  BY LinkEffect

LEMMA HandStep ==
    ASSUME TypeOK, PlaceInv, HandInv, NEW t \in Requests, Step(t)
    PROVE  HandInv'
<1>1. ASSUME NEW l \in Tokens, links'[l] # None PROVE l \in Handed'
  <2>1. CASE links'[l] = links[l]
    BY <1>1, <2>1, HandedGrows DEF HandInv
  <2>2. CASE l = t /\ pc'[t] = "done"
    BY <2>2 DEF Handed
  <2> QED BY <1>1, <2>1, <2>2, LinkBirth
<1>2. ASSUME NEW v \in Requests, pc'[v] # "idle", ask'[v].kind = "reset"
      PROVE  cred'[v] \in Handed'
  <2>1. CASE v # t
    BY <1>2, <2>1, OthersStay, HandedGrows DEF SameOf, HandInv
  <2>2. CASE v = t
    BY <1>2, <2>2, AskEffect, HandedGrows DEF HandInv
  <2> QED BY <2>1, <2>2
<1>3. ASSUME NEW v \in Requests PROVE snap'[v] \cup doomed'[v].links \subseteq Handed'
  <2>1. CASE v # t
    <3>1. snap'[v] = snap[v] /\ doomed'[v] = doomed[v]
      BY <2>1, OthersStay DEF SameOf
    <3> QED BY <3>1, HandedGrows DEF HandInv
  <2>2. CASE v = t
    <3>1. CASE ConsumeLink(t) /\ LiveLink(cred[t]) /\ cred[t] \in Tokens
               /\ snap'[t] = {} /\ doomed'[t].links = {cred[t]}
      <4>1. cred[t] \in Handed
        BY <3>1 DEF LiveLink, HandInv
      <4> QED BY <2>2, <3>1, <4>1, HandedGrows
    <3>2. CASE snap'[t] = LinksOf(t) /\ doomed'[t].links = doomed[t].links
      <4>1. LinksOf(t) \subseteq Handed
        BY DEF LinksOf, HandInv
      <4> QED BY <2>2, <3>2, <4>1, HandedGrows DEF HandInv
    <3>3. CASE snap'[t] = snap[t] /\ doomed'[t].links = {l \in snap[t] : links[l] # None}
      BY <2>2, <3>3, HandedGrows DEF HandInv
    <3>4. CASE snap'[t] = snap[t] /\ doomed'[t].links = doomed[t].links
      BY <2>2, <3>4, HandedGrows DEF HandInv
    <3>5. CASE snap'[t] = {} /\ doomed'[t].links = {}
      BY <2>2, <3>5
    <3> QED BY <3>1, <3>2, <3>3, <3>4, <3>5, RowsEffect
  <2> QED BY <2>1, <2>2
<1> QED BY <1>1, <1>2, <1>3 DEF HandInv

LEMMA ScanStep ==
    ASSUME TypeOK, PlaceInv, Company, ScanInv, NEW t \in Requests, Step(t)
    PROVE  ScanInv'
<1>1. ASSUME NEW v \in Requests \ {t} PROVE Scanned(v)'
  <2>1. SameOf(v)
    BY OthersStay
  <2>2. CASE pc[v] \in InTx
    <3>1. ASSUME NEW l \in LinksOf(v)' PROVE l \in LinksOf(v) \cup racers'[v]
      <4>1. l \in Tokens /\ links'[l] # None /\ links'[l].user = who[v]
        BY <2>1, <3>1 DEF LinksOf, SameOf
      <4>2. CASE links'[l] = links[l]
        BY <4>1, <4>2 DEF LinksOf
      <4>3. CASE l = t /\ Commit(t)
        <5>1. Active(t)
          BY <4>3 DEF Commit, Active, Ended
        <5> QED BY <2>2, <4>3, <5>1, RacersGrow DEF Company, Accompanied
      <4> QED BY <4>1, <4>2, <4>3, LinkBirth
    <3> QED BY <2>1, <2>2, <3>1, RacersGrow DEF ScanInv, Scanned, SameOf
  <2>3. CASE pc[v] \notin InTx
    BY <2>1, <2>3 DEF Scanned, SameOf, InTx
  <2> QED BY <2>2, <2>3
<1>2. Scanned(t)'
  <2>1. CASE ScanLinks(t)
    <3>1. snap'[t] = LinksOf(t) /\ links' = links /\ who' = who /\ pc'[t] = "revoke"
      BY <2>1 DEF ScanLinks, data, Go, TypeOK
    <3> QED BY <3>1 DEF Scanned, LinksOf
  <2>2. CASE RevokeLinks(t)
    <3>1. /\ pc[t] = "revoke" /\ pc'[t] = "commit" /\ links' = links /\ who' = who
          /\ racers' = racers /\ doomed'[t].links = {l \in snap[t] : links[l] # None}
      BY <2>2 DEF RevokeLinks, data, history, Go, TypeOK
    <3>2. LinksOf(t)' = LinksOf(t) /\ LinksOf(t) \subseteq snap[t] \cup racers[t]
      BY <3>1 DEF LinksOf, ScanInv, Scanned
    <3>3. \A l \in LinksOf(t) : links[l] # None
      BY DEF LinksOf
    <3> QED BY <3>1, <3>2, <3>3 DEF Scanned
  <2>3. CASE PurgeSessions(t)
    <3>1. \/ pc'[t] = "scan"
          \/ pc'[t] = "commit" /\ ask[t].kind # "change"
      BY <2>3 DEF PurgeSessions, Go, TypeOK
    <3>2. ask'[t].kind = ask[t].kind /\ ask[t].kind \in {"change", "reset"}
      BY <2>3 DEF PurgeSessions, PlaceInv, Placed
    <3> QED BY <3>1, <3>2 DEF Scanned
  <2>4. CASE pc'[t] \notin {"revoke", "commit"}
    BY <2>4 DEF Scanned
  <2> QED BY <2>1, <2>2, <2>3, <2>4, Moves
<1> QED BY <1>1, <1>2 DEF ScanInv

LEMMA ClaimStep ==
    ASSUME TypeOK, PlaceInv, HandInv, ClaimInv, Apart, NEW t \in Requests, Step(t)
    PROVE  ClaimInv'
<1>1. ASSUME NEW v \in Requests \ {t} PROVE Claimed(v)'
  <2>1. SameOf(v)
    BY OthersStay
  <2>2. snap[v] \cup doomed[v].links \subseteq Tokens \ {t}
    BY HandedGrows DEF HandInv, TypeOK
  <2>3. \A l \in snap[v] : links'[l] # None => links'[l] = links[l]
    BY <2>2, LinkBirth
  <2>4. \A l \in doomed[v].links : links'[l] = links[l]
    <3>1. SUFFICES ASSUME NEW l \in doomed[v].links PROVE links'[l] = links[l]
      OBVIOUS
    <3>2. l \in Tokens /\ l # t /\ links[l] # None /\ l \notin doomed[t].links
      BY <2>2 DEF ClaimInv, Claimed, Apart
    <3> QED BY <3>2, LinkDeath
  <2> QED BY <2>1, <2>3, <2>4 DEF ClaimInv, Claimed, SameOf
<1>2. Claimed(t)'
  <2>1. CASE /\ ConsumeLink(t) /\ LiveLink(cred[t]) /\ cred' = cred
             /\ snap'[t] = {} /\ doomed'[t].links = {cred[t]} /\ links' = links
             /\ who'[t] = links[cred[t]].user
    BY <2>1 DEF Claimed, LiveLink
  <2>2. CASE /\ ScanLinks(t) /\ snap'[t] = LinksOf(t) /\ links' = links
             /\ doomed'[t].links = doomed[t].links
             /\ who'[t] = who[t] /\ ask' = ask
    <3>1. ask'[t].kind # "reset"
      BY <2>2 DEF ScanLinks, PlaceInv, Placed
    <3> QED BY <2>2, <3>1 DEF ClaimInv, Claimed, LinksOf
  <2>3. CASE /\ RevokeLinks(t) /\ snap'[t] = snap[t] /\ who'[t] = who[t]
             /\ links' = links /\ ask' = ask
             /\ doomed'[t].links = {l \in snap[t] : links[l] # None}
    <3>1. ask'[t].kind # "reset"
      BY <2>3 DEF RevokeLinks, PlaceInv, Placed
    <3> QED BY <2>3, <3>1 DEF ClaimInv, Claimed
  <2>4. CASE snap'[t] = {} /\ doomed'[t].links = {} /\ pc'[t] \notin InTx
    BY <2>4 DEF Claimed
  <2>5. CASE /\ snap'[t] = snap[t] /\ doomed'[t].links = doomed[t].links
             /\ pc[t] \in InTx => who'[t] = who[t] /\ ask'[t] = ask[t] /\ cred'[t] = cred[t]
             /\ ~ Commit(t)
             /\ pc[t] \notin InTx /\ pc'[t] \in InTx => ask'[t].kind # "reset"
    <3>1. CASE pc[t] \in InTx
      <4>1. links' = links
        BY <2>5, LinkEffect
      <4> QED BY <2>5, <3>1, <4>1 DEF ClaimInv, Claimed
    <3>2. CASE pc[t] \notin InTx
      <4>1. snap[t] = {} /\ doomed[t].links = {}
        BY <3>2 DEF PlaceInv, Placed, NoRows
      <4> QED BY <2>5, <3>2, <4>1 DEF Claimed
    <3> QED BY <3>1, <3>2
  <2> QED BY <2>1, <2>2, <2>3, <2>4, <2>5, RowsEffect
<1> QED BY <1>1, <1>2 DEF ClaimInv

LEMMA ApartStep ==
    ASSUME TypeOK, PlaceInv, Apart, NEW t \in Requests, Step(t)
    PROVE  Apart'
<1>1. \A v \in Requests \ {t} : doomed'[v].links = doomed[v].links
  BY OthersStay DEF SameOf
<1>2. ASSUME NEW v \in Requests \ {t}
      PROVE  doomed'[t].links \cap doomed[v].links = {}
  <2>1. CASE doomed'[t].links = doomed[t].links
    BY <2>1 DEF Apart
  <2>2. CASE doomed'[t].links = {}
    BY <2>2
  <2>3. CASE doomed'[t].links = {cred[t]} /\ ~ HeldLink(cred[t], t)
    BY <2>3 DEF HeldLink
  <2>4. CASE /\ doomed'[t].links = {l \in snap[t] : links[l] # None}
             /\ \A l \in snap[t] : ~ HeldLink(l, t)
    BY <2>4 DEF HeldLink
  <2> QED BY <2>1, <2>2, <2>3, <2>4, RowsEffect
<1> QED BY <1>1, <1>2 DEF Apart

LEMMA UsedStep ==
    ASSUME TypeOK, PlaceInv, LinkInv, NEW t \in Requests, Step(t)
    PROVE  UsedUp' /\ LinkUsedOnce'
<1>1. pc'[t] = "done" /\ ask'[t].kind = "reset" =>
         /\ Commit(t) /\ ask' = ask /\ cred' = cred /\ cred[t] \in Tokens \ {t}
         /\ links[cred[t]] # None /\ links'[cred[t]] = None
  <2>1. SUFFICES ASSUME pc'[t] = "done", ask'[t].kind = "reset"
                 PROVE  /\ Commit(t) /\ ask' = ask /\ cred' = cred
                        /\ cred[t] \in Tokens \ {t}
                        /\ links[cred[t]] # None /\ links'[cred[t]] = None
    OBVIOUS
  <2>2. pc[t] # "idle" /\ ask' = ask /\ cred' = cred /\ ask[t].kind = "reset"
    BY <2>1, AskEffect
  <2>3. ~ (OpenSession(t) \/ DeleteSession(t) \/ Authenticate(t) \/ RenewSession(t))
    BY <2>2 DEF PlaceInv, Placed, OpenSession, DeleteSession, Authenticate, RenewSession
  <2>4. Commit(t)
    BY <2>1, <2>3, Moves
  <2>5. doomed[t].links = {cred[t]}
    BY <2>2, <2>4 DEF Commit, InTx, LinkInv, ClaimInv, Claimed
  <2>6. cred[t] \in Tokens /\ cred[t] \in Handed /\ links[cred[t]] # None
    BY <2>2, <2>5 DEF LinkInv, HandInv, ClaimInv, Claimed, TypeOK
  <2>7. links'[cred[t]] = None
    BY <2>2, <2>4, <2>5, <2>6, LinkBirth
  <2> QED BY <2>2, <2>4, <2>6, <2>7, HandedGrows
<1>2. ASSUME NEW v \in Requests \ {t}, pc'[v] = "done", ask'[v].kind = "reset"
      PROVE  /\ pc[v] = "done" /\ ask[v].kind = "reset" /\ cred'[v] = cred[v]
             /\ links[cred[v]] = None /\ links'[cred[v]] = None
  <2>1. pc[v] = "done" /\ ask[v].kind = "reset" /\ cred'[v] = cred[v]
    BY <1>2, OthersStay DEF SameOf
  <2>2. cred[v] \in Handed /\ links[cred[v]] = None
    BY <2>1 DEF LinkInv, HandInv, UsedUp
  <2>3. cred[v] \in Tokens
    BY <2>2 DEF Handed, Tokens
  <2>4. links'[cred[v]] = None
    BY <2>2, <2>3, LinkBirth, HandedGrows
  <2> QED BY <2>1, <2>2, <2>4
<1>3. UsedUp'
  BY <1>1, <1>2 DEF UsedUp
<1>4. LinkUsedOnce'
  <2>1. SUFFICES ASSUME NEW v \in Requests, NEW w \in Requests,
                        pc'[v] = "done", pc'[w] = "done", cred'[v] = cred'[w],
                        ask'[v].kind = "reset", ask'[w].kind = "reset", v # w
                 PROVE  FALSE
    BY DEF LinkUsedOnce
  <2>2. CASE v # t /\ w # t
    BY <1>2, <2>1, <2>2 DEF LinkInv, LinksWorkOnce, LinkUsedOnce
  <2>3. CASE v = t
    BY <1>1, <1>2, <2>1, <2>3
  <2>4. CASE w = t
    BY <1>1, <1>2, <2>1, <2>4
  <2> QED BY <2>2, <2>3, <2>4
<1> QED BY <1>3, <1>4

LEMMA SupersedeStep ==
    ASSUME TypeOK, PlaceInv, LinkInv, NEW t \in Requests, Step(t)
    PROVE  LinksSuperseded'
<1>1. ASSUME NEW l \in Handed PROVE racers'[l] = racers[l]
  <2>1. l # t /\ l \in Tokens /\ (l \in Requests => pc[l] \notin InTx)
    BY HandedGrows, AccountsAssumption DEF Handed, Tokens, InTx
  <2>2. l \in Requests \/ l = First
    BY <2>1 DEF Tokens
  <2> QED BY <2>1, <2>2, RacersEffect DEF TypeOK
<1>2. ASSUME NEW l \in Tokens, links'[l] # None, links'[l] = links[l],
             Commit(t) => l \notin doomed[t].links,
             Commit(t), ask[t].kind = "issue", links'[l].user = who[t]
      PROVE  l \in racers'[t]
  <2>1. l \in LinksOf(t) /\ pc[t] = "commit" /\ racers' = racers
    BY <1>2 DEF LinksOf, Commit
  <2> QED BY <1>2, <2>1 DEF LinkInv, ScanInv, Scanned
<1>3. SUFFICES ASSUME NEW l \in Tokens, NEW m \in Tokens, l # m,
                      links'[l] # None, links'[m] # None, links'[l].user = links'[m].user
               PROVE  l \in racers'[m] \/ m \in racers'[l]
  BY DEF LinksSuperseded
<1>4. CASE links'[l] = links[l] /\ links'[m] = links[m]
  BY <1>1, <1>3, <1>4 DEF LinkInv, HandInv, LinksWorkOnce, LinksSuperseded
<1>5. CASE l = t /\ Commit(t) /\ ask[t].kind = "issue" /\ links'[l].user = who[t]
  BY <1>2, <1>3, <1>5, LinkBirth
<1>6. CASE m = t /\ Commit(t) /\ ask[t].kind = "issue" /\ links'[m].user = who[t]
  BY <1>2, <1>3, <1>6, LinkBirth
<1> QED BY <1>3, <1>4, <1>5, <1>6, LinkBirth

(* The clean-up deletes no link that a transaction is deleting. *)
LEMMA IdleLinks ==
    ASSUME TypeOK, LinkInv, Tick \/ CleanUp \/ UNCHANGED vars
    PROVE  LinkInv'
<1>1. UNCHANGED <<pc, ask, cred, who, snap, doomed, racers>>
  BY DEF Tick, CleanUp, vars, tx, history
<1>2. \A l \in Tokens : links'[l] # None => links'[l] = links[l]
  BY DEF Tick, CleanUp, vars, data
<1>3. \A t \in Requests, l \in Tokens : l \in doomed[t].links => links'[l] = links[l]
  <2>1. SUFFICES ASSUME CleanUp, NEW t \in Requests, NEW l \in Tokens, l \in doomed[t].links
                 PROVE  links'[l] = links[l]
    BY DEF Tick, vars, data
  <2>2. HeldLink(l, Free)
    BY <2>1, AccountsAssumption DEF HeldLink
  <2>3. ~ Expired(links[l])
    BY <2>1, <2>2 DEF CleanUp
  <2> QED BY <2>1, <2>3 DEF CleanUp
<1>4. HandInv' /\ Apart' /\ LinkUsedOnce'
  BY <1>1, <1>2 DEF LinkInv, HandInv, Handed, Apart, LinksWorkOnce, LinkUsedOnce
<1>5. ScanInv'
  <2>1. ASSUME NEW t \in Requests PROVE LinksOf(t)' \subseteq LinksOf(t)
    BY <1>1, <1>2 DEF LinksOf
  <2>2. ASSUME NEW t \in Requests PROVE Scanned(t)'
    BY <1>1, <2>1 DEF LinkInv, ScanInv, Scanned
  <2> QED BY <2>2 DEF ScanInv
<1>6. ClaimInv'
  <2>1. ASSUME NEW t \in Requests PROVE Claimed(t)'
    <3>1. snap[t] \subseteq Tokens /\ doomed[t].links \subseteq Tokens
      BY DEF TypeOK
    <3> QED BY <1>1, <1>2, <1>3, <3>1 DEF LinkInv, ClaimInv, Claimed
  <2> QED BY <2>1 DEF ClaimInv
<1>7. UsedUp'
  <2>1. ASSUME NEW t \in Requests, pc[t] = "done", ask[t].kind = "reset"
        PROVE  links'[cred[t]] = None
    <3>1. cred[t] \in Tokens /\ links[cred[t]] = None
      BY <2>1 DEF LinkInv, HandInv, Handed, Tokens, UsedUp
    <3> QED BY <1>2, <3>1
  <2> QED BY <1>1, <2>1 DEF UsedUp
<1>8. LinksSuperseded'
  BY <1>1, <1>2 DEF LinkInv, LinksWorkOnce, LinksSuperseded
<1> QED BY <1>4, <1>5, <1>6, <1>7, <1>8 DEF LinkInv, LinksWorkOnce

LEMMA LinkStep ==
    TypeOK /\ PlaceInv /\ Company /\ LinkInv /\ [Next]_vars => LinkInv'
<1> SUFFICES ASSUME TypeOK, PlaceInv, Company, LinkInv, Next \/ UNCHANGED vars
             PROVE  LinkInv'
  OBVIOUS
<1>1. ASSUME NEW t \in Requests, Step(t) PROVE LinkInv'
  <2>1. HandInv' /\ ScanInv' /\ ClaimInv' /\ Apart'
    BY <1>1, HandStep, ScanStep, ClaimStep, ApartStep DEF LinkInv
  <2>2. UsedUp' /\ LinkUsedOnce'
    BY <1>1, UsedStep
  <2>3. LinksSuperseded'
    BY <1>1, SupersedeStep
  <2> QED BY <2>1, <2>2, <2>3 DEF LinkInv, LinksWorkOnce
<1> QED BY <1>1, IdleLinks, NextCases

LEMMA LinkInit == Init => LinkInv
<1> SUFFICES ASSUME Init PROVE LinkInv
  OBVIOUS
<1>1. HandInv
  BY DEF Init, HandInv, Handed, NoRows
<1>2. ScanInv /\ ClaimInv /\ Apart /\ UsedUp
  BY DEF Init, ScanInv, Scanned, ClaimInv, Claimed, Apart, UsedUp, NoRows, InTx
<1>3. LinksWorkOnce
  BY DEF Init, LinksWorkOnce, LinkUsedOnce, LinksSuperseded
<1> QED BY <1>1, <1>2, <1>3 DEF LinkInv

(* One link changes one password once, however often and however           *)
(* concurrently it is submitted, and of two outstanding links of one       *)
(* account each was issued beside the other.                               *)
THEOREM LinksAreSpentOnce == Spec => []LinksWorkOnce
<1>1. PasswordInv => Company
  BY DEF PasswordInv
<1>2. LinkInv => LinksWorkOnce
  BY DEF LinkInv
<1> QED BY <1>1, <1>2, PlaceInit, PlaceStep, PasswordInit, PasswordStep, LinkInit,
       LinkStep, PTL DEF Spec

-----------------------------------------------------------------------------
(* Tokens that end. *)

LEMMA CommitsCommit ==
    ASSUME TypeOK, PlaceInv, NEW t \in Requests, Next \/ UNCHANGED vars, Commits(t)
    PROVE  Step(t) /\ Commit(t)
<1>1. Step(t)
  <2>1. ASSUME NEW v \in Requests \ {t}, Step(v) PROVE FALSE
    BY <2>1, OthersStay DEF SameOf, Commits
  <2>2. CASE Tick \/ CleanUp \/ UNCHANGED vars
    BY <2>2 DEF Tick, CleanUp, vars, Commits
  <2> QED BY <2>1, <2>2, NextCases
<1>2. ~ (OpenSession(t) \/ DeleteSession(t) \/ Authenticate(t) \/ RenewSession(t))
  BY DEF Commits, OpenSession, DeleteSession, Authenticate, RenewSession
<1> QED BY <1>1, <1>2, Moves DEF Commits

LEMMA NoResurrectionStep ==
    ASSUME TypeOK, PlaceInv, Next \/ UNCHANGED vars,
           NEW s \in Tokens, sessions[s] = None, sessions'[s] # None
    PROVE  s \in Requests /\ pc[s] \in {"open", "commit"}
<1>1. CASE Tick \/ CleanUp \/ UNCHANGED vars
  BY <1>1 DEF Tick, CleanUp, vars, data
<1>2. ASSUME NEW t \in Requests, Step(t)
      PROVE  s \in Requests /\ pc[s] \in {"open", "commit"}
  BY <1>2, SessionEffect DEF SameSession, OpenSession, Commit
<1> QED BY <1>1, <1>2, NextCases

LEMMA LinkDiesStep ==
    ASSUME TypeOK, PlaceInv, LinkInv, Next \/ UNCHANGED vars,
           NEW t \in Requests, Commits(t), ask[t].kind = "change",
           NEW l \in Tokens, links'[l] # None, links'[l].user = who[t]
    PROVE  l \in racers[t]
<1>1. Step(t) /\ Commit(t)
  BY CommitsCommit
<1>2. links'[l] = links[l] /\ l \notin doomed[t].links
  BY <1>1, LinkBirth
<1>3. l \in LinksOf(t)
  BY <1>2 DEF LinksOf
<1> QED BY <1>2, <1>3 DEF Commits, LinkInv, ScanInv, Scanned

LEMMA LinkSpentStep ==
    ASSUME TypeOK, PlaceInv, LinkInv, Next \/ UNCHANGED vars,
           NEW l \in Tokens, links[l] # None, links'[l] = None
    PROVE  \/ Expired(links[l])
           \/ \E t \in Requests :
                /\ Commits(t) /\ who[t] = links[l].user
                /\ ask[t].kind = "reset" => cred[t] = l
<1>1. CASE Tick \/ CleanUp \/ UNCHANGED vars
  BY <1>1 DEF Tick, CleanUp, vars, data
<1>2. ASSUME NEW t \in Requests, Step(t)
      PROVE  /\ Commits(t) /\ who[t] = links[l].user
             /\ ask[t].kind = "reset" => cred[t] = l
  <2>1. Commit(t) /\ l \in doomed[t].links
    <3>1. l # t
      BY <1>2, HandedGrows DEF LinkInv, HandInv
    <3> QED BY <1>2, <3>1, LinkDeath
  <2>2. Commits(t)
    BY <2>1, AnswerIsOwn DEF Commit, Commits
  <2>3. who[t] = links[l].user
    BY <2>1 DEF LinkInv, ClaimInv, Claimed
  <2>4. ask[t].kind = "reset" => cred[t] = l
    BY <2>1 DEF Commit, InTx, LinkInv, ClaimInv, Claimed
  <2> QED BY <2>2, <2>3, <2>4
<1> QED BY <1>1, <1>2, NextCases

(* A session or a link that is gone stays gone: no renewal brings a row    *)
(* back; a link goes with the password, or when it is used, replaced or    *)
(* over, and a transaction that fails leaves it as it was.                 *)
THEOREM TokensStayDead == Spec => TokensEnd
<1> DEFINE Resurrection ==
             \A s \in Tokens : sessions[s] = None /\ sessions'[s] # None =>
                 s \in Requests /\ pc[s] \in {"open", "commit"}
           Survival ==
             \A t \in Requests : Commits(t) /\ ask[t].kind = "change" =>
                 \A l \in Tokens : links'[l] # None /\ links'[l].user = who[t] =>
                     l \in racers[t]
           Spending ==
             \A l \in Tokens : links[l] # None /\ links'[l] = None =>
                 \/ Expired(links[l])
                 \/ \E t \in Requests :
                      /\ Commits(t) /\ who[t] = links[l].user
                      /\ ask[t].kind = "reset" => cred[t] = l
<1>1. TypeOK /\ PlaceInv /\ LinkInv /\ [Next]_vars =>
         [Resurrection]_vars /\ [Survival]_vars /\ [Spending]_vars
  BY NoResurrectionStep, LinkDiesStep, LinkSpentStep
<1>2. PasswordInv => Company
  BY DEF PasswordInv
<1>3. Spec => [][Resurrection]_vars /\ [][Survival]_vars /\ [][Spending]_vars
  BY <1>1, <1>2, PlaceInit, PlaceStep, PasswordInit, PasswordStep, LinkInit,
     LinkStep, PTL DEF Spec
<1> QED BY <1>3 DEF TokensEnd, NoResurrection, LinkDiesWithPassword, LinkSpentOnlyByUse

-----------------------------------------------------------------------------
(* Accounts and row locks. *)

Registered(t) == pc[t] \in {"seed", "open", "done"} /\ ask[t].kind = "signup"
Address(t) == Lower(ask[t].email)

(* Whoever has signed up has the address, and nobody else got it. *)
SignupInv ==
    /\ \A t \in Requests : Registered(t) => users[Address(t)] # NoUser
    /\ \A t, v \in Requests : Registered(t) /\ Registered(v) /\ t # v => Address(t) # Address(v)

(* The row of a user is locked by a transaction that is under way. *)
LockInv ==
    \A u \in Users : owner[u] # Free =>
        pc[owner[u]] \in {"purge", "scan", "revoke", "commit"}

LEMMA SignupStep ==
    ASSUME TypeOK, PlaceInv, SignupInv, NEW t \in Requests, Step(t)
    PROVE  SignupInv'
<1>1. ASSUME NEW v \in Requests \ {t}, Registered(v)'
      PROVE  Registered(v) /\ Address(v)' = Address(v) /\ Address(v) \in Users
  <2>1. Registered(v) /\ Address(v)' = Address(v)
    BY <1>1, OthersStay DEF SameOf, Registered, Address
  <2>2. ask[v] \in Asks
    BY <2>1 DEF Registered, PlaceInv, Placed
  <2> QED BY <2>1, <2>2, AskType DEF Address
<1>2. \A u \in Users : users[u] # NoUser => users'[u] # NoUser
  <2>1. \/ users' = users
        \/ \E p \in Passwords, u \in Users : users' = [users EXCEPT ![u] = p]
    BY UserEffect
  <2> QED BY <2>1, AccountsAssumption DEF TypeOK
<1>3. ASSUME Registered(t)'
      PROVE  /\ Address(t)' = Address(t) /\ Address(t) \in Users
             /\ \/ Registered(t)
                \/ users[Address(t)] = NoUser /\ users'[Address(t)] # NoUser
  <2>1. pc[t] # "idle" /\ ask' = ask /\ ask[t].kind = "signup"
    BY <1>3, Moves, AskEffect DEF Registered, CreateUser, SeedDefaultNoteTypes, Login,
       OpenSession, DeleteSession, Commit, Authenticate, RenewSession
  <2>2. Address(t)' = Address(t) /\ Address(t) \in Users
    <3>1. ask[t] \in Asks
      BY <2>1 DEF PlaceInv, Placed
    <3> QED BY <2>1, <3>1, AskType DEF Address
  <2>3. CASE CreateUser(t)
    <3>1. pc'[t] # "conflict"
      BY <1>3 DEF Registered
    <3>2. ~ Conflicts(Address(t))
      BY <2>3, <3>1 DEF CreateUser, Address, Go, TypeOK
    <3>3. users' = [users EXCEPT ![Address(t)] = ask[t].new] /\ ask[t].new \in Passwords
      BY <2>3, <3>2 DEF CreateUser, Address, PlaceInv, Placed
    <3> QED BY <2>2, <3>2, <3>3, AccountsAssumption DEF Conflicts, TypeOK
  <2>4. CASE ~ CreateUser(t)
    <3>1. ~ (DeleteSession(t) \/ Commit(t) \/ Authenticate(t) \/ RenewSession(t) \/ Login(t))
      BY <2>1 DEF PlaceInv, Placed, DeleteSession, Commit, Authenticate, RenewSession, Login
    <3>2. SeedDefaultNoteTypes(t) \/ OpenSession(t)
      BY <1>3, <2>4, <3>1, Moves DEF Registered
    <3> QED BY <2>1, <2>2, <3>2 DEF SeedDefaultNoteTypes, OpenSession, Registered
  <2> QED BY <2>2, <2>3, <2>4
<1>4. ASSUME NEW v \in Requests, Registered(v)' PROVE users'[Address(v)'] # NoUser
  <2>1. CASE v = t
    BY <1>2, <1>3, <1>4, <2>1 DEF SignupInv
  <2>2. CASE v # t
    BY <1>1, <1>2, <1>4, <2>2 DEF SignupInv
  <2> QED BY <2>1, <2>2
<1>5. ASSUME NEW v \in Requests \ {t}, Registered(v)', Registered(t)'
      PROVE  Address(v)' # Address(t)'
  BY <1>1, <1>3, <1>5 DEF SignupInv
<1>6. ASSUME NEW v \in Requests \ {t}, NEW w \in Requests \ {t}, v # w,
             Registered(v)', Registered(w)'
      PROVE  Address(v)' # Address(w)'
  BY <1>1, <1>6 DEF SignupInv
<1> QED BY <1>4, <1>5, <1>6 DEF SignupInv

LEMMA LockStep ==
    ASSUME TypeOK, PlaceInv, LockInv, NEW t \in Requests, Step(t)
    PROVE  LockInv'
<1>1. \A v \in Requests \ {t} : pc'[v] = pc[v]
  BY OthersStay DEF SameOf
<1>2. CASE OpenSession(t) \/ DeleteSession(t) \/ Commit(t) \/ Abort(t) \/ Victim(t)
  <2>1. PICK status \in {"done", "failed"} : Answer(t, status)
    BY <1>2 DEF OpenSession, DeleteSession, Commit, Abort, Victim
  <2>2. \A u \in Users : owner'[u] = IF owner[u] = t THEN Free ELSE owner[u]
    BY <2>1, AnswerIsOwn
  <2>3. \A u \in Users : owner[u] \in Requests \cup {Free}
    BY DEF TypeOK
  <2> QED BY <1>1, <2>2, <2>3 DEF LockInv
<1>3. CASE UpdateUserPassword(t)
  <2>1. pc'[t] = "purge" /\ pc[t] = "update" /\ owner' = [owner EXCEPT ![who[t]] = t]
    BY <1>3 DEF UpdateUserPassword, Go, TypeOK
  <2>2. ASSUME NEW u \in Users PROVE owner[u] \in Requests \cup {Free} /\ owner[u] # t
    <3>1. owner[u] \in Requests \cup {Free}
      BY DEF TypeOK
    <3>2. t # Free
      BY AccountsAssumption
    <3>3. owner[u] = t => FALSE
      BY <2>1, <3>2 DEF LockInv
    <3> QED BY <3>1, <3>3
  <2>3. \A u \in Users : owner'[u] = t \/ owner'[u] = owner[u]
    BY <2>1 DEF TypeOK
  <2> QED BY <1>1, <2>1, <2>2, <2>3 DEF LockInv
<1>4. CASE PurgeSessions(t) \/ ScanLinks(t) \/ RevokeLinks(t)
  <2>1. pc'[t] \in {"scan", "revoke", "commit"} /\ owner' = owner
    BY <1>4 DEF PurgeSessions, ScanLinks, RevokeLinks, Go, TypeOK
  <2>2. \A u \in Users : owner[u] \in Requests \cup {Free}
    BY DEF TypeOK
  <2> QED BY <1>1, <2>1, <2>2 DEF LockInv
<1>5. ASSUME pc[t] \notin {"purge", "scan", "revoke", "commit"}, owner' = owner
      PROVE  LockInv'
  <2>1. \A u \in Users : owner[u] # Free => owner[u] \in Requests \ {t}
    BY <1>5 DEF LockInv, TypeOK
  <2> QED BY <1>1, <1>5, <2>1 DEF LockInv
<1>6. CASE PostSignup(t) \/ PostLogin(t) \/ PostReset(t) \/ RunResetPassword(t) \/ Request(t)
  <2>1. pc[t] = "idle" /\ owner' = owner
    BY <1>6 DEF PostSignup, PostLogin, PostReset, RunResetPassword, Request, Arrive, tx
  <2> QED BY <1>5, <2>1
<1>7. CASE Authenticate(t) \/ RenewSession(t) \/ CheckEmail(t) \/ CreateUser(t)
           \/ SeedDefaultNoteTypes(t) \/ Login(t) \/ CheckPassword(t) \/ PeekLink(t)
           \/ ConsumeLink(t) \/ CreatePasswordReset(t)
  <2>1. owner' = owner /\ pc[t] \notin {"purge", "scan", "revoke", "commit"}
    BY <1>7 DEF Authenticate, RenewSession, CheckEmail, CreateUser, Login, PeekLink,
       SeedDefaultNoteTypes, CheckPassword, ConsumeLink, CreatePasswordReset, tx
  <2> QED BY <1>5, <2>1
<1> QED BY <1>2, <1>3, <1>4, <1>6, <1>7 DEF Step, Progress

LEMMA AccountStep ==
    TypeOK /\ PlaceInv /\ SignupInv /\ LockInv /\ [Next]_vars => SignupInv' /\ LockInv'
<1> SUFFICES ASSUME TypeOK, PlaceInv, SignupInv, LockInv, Next \/ UNCHANGED vars
             PROVE  SignupInv' /\ LockInv'
  OBVIOUS
<1>1. ASSUME NEW t \in Requests, Step(t) PROVE SignupInv' /\ LockInv'
  BY <1>1, SignupStep, LockStep
<1>2. CASE Tick \/ CleanUp \/ UNCHANGED vars
  <2>1. UNCHANGED <<pc, ask, users, owner>>
    BY <1>2 DEF Tick, CleanUp, vars, data, tx
  <2> QED BY <2>1 DEF SignupInv, Registered, Address, LockInv
<1> QED BY <1>1, <1>2, NextCases

LEMMA AccountInit == Init => SignupInv /\ LockInv
  BY DEF Init, SignupInv, Registered, LockInv

(* Of two sign-ups with one address, in whatever casing, one is answered   *)
(* with the account: the unique index decides, not the look before.        *)
THEOREM OneSignupWins == Spec => []OneAccountPerAddress
<1>1. SignupInv => OneAccountPerAddress
  BY DEF SignupInv, OneAccountPerAddress, Registered, Address
<1> QED BY <1>1, PlaceInit, PlaceStep, AccountInit, AccountStep, PTL DEF Spec

(* Locks end with the request that holds them: whoever a statement waits   *)
(* for, on the user's row or on a row being deleted, is still under way.   *)
THEOREM LocksEndWithRequests == Spec => []NobodyWaitsForTheGone
<1>1. TypeOK /\ PlaceInv /\ LockInv => NobodyWaitsForTheGone
  <2> SUFFICES ASSUME TypeOK, PlaceInv, LockInv, NEW t \in Requests, NEW v \in Requests,
                      Active(t), WaitsFor(t, v)
               PROVE  Active(v)
    BY DEF NobodyWaitsForTheGone
  <2>1. CASE pc[t] = "update" /\ owner[who[t]] = v
    <3>1. who[t] \in Users /\ v # Free
      BY <2>1, AccountsAssumption DEF PlaceInv, Placed, InTx
    <3>2. pc[v] \in {"purge", "scan", "revoke", "commit"}
      BY <2>1, <3>1 DEF LockInv
    <3> QED BY <3>2 DEF Active, Ended
  <2>2. CASE doomed[v] # NoRows
    BY <2>2 DEF PlaceInv, Placed, InTx, Active, Ended
  <2> QED BY <2>1, <2>2 DEF WaitsFor, NoRows
<1> QED BY <1>1, PlaceInit, PlaceStep, AccountInit, AccountStep, PTL DEF Spec

-----------------------------------------------------------------------------
(* The budget of logins.                                                   *)

(* The logins that were let through for an address, and some of them by    *)
(* the time they were.                                                     *)
Tries(u) == {t \in Requests : allowed[t] # None /\ Lower(ask[t].email) = u}
Since(u, i) == {t \in Tries(u) : allowed[t] >= i}
Between(u, i, j) == {t \in Tries(u) : allowed[t] >= i /\ allowed[t] < j}

Attempts(u) == buckets[<<"loginEmail", u>>]
Cap == Limit["loginEmail"]

Untried == \A t \in Requests : pc[t] = "idle" => allowed[t] = None

(* A bucket has counted whoever came since it was opened; the window that  *)
(* ended when it was opened had its own budget.                            *)
Counts(u) ==
    LET opened == Attempts(u).resetAt - Window IN
    Attempts(u) # None =>
        /\ opened <= now /\ \A t \in Tries(u) : allowed[t] < Attempts(u).resetAt
        /\ Cardinality(Since(u, opened)) <= Attempts(u).count
        /\ Cardinality(Since(u, opened)) <= Cap
        /\ Cardinality(Between(u, opened - Window, opened)) <= Cap

(* A bucket that the sweep has dropped leaves at most one budget behind. *)
Forgets(u) ==
    Attempts(u) = None =>
        /\ \A t \in Tries(u) : allowed[t] < now
        /\ Cardinality(Since(u, now - Window)) <= Cap

(* No stretch as long as the window sees more than two budgets. *)
Spread(u) ==
    \A start \in 0..MaxTime :
        Cardinality(Between(u, start, start + Window)) <= 2 * Cap

BudgetOf(u) ==
    /\ IsFiniteSet(Tries(u)) /\ \A t \in Tries(u) : allowed[t] <= now
    /\ Counts(u) /\ Forgets(u) /\ Spread(u)

BudgetInv == Untried /\ \A u \in Users : BudgetOf(u)

SameTries(u) ==
    Tries(u)' = Tries(u) /\ \A t \in Tries(u) : allowed'[t] = allowed[t]

OneMore(u, t) ==
    /\ t \notin Tries(u) /\ Tries(u)' = Tries(u) \cup {t} /\ allowed'[t] = now
    /\ \A v \in Tries(u) : allowed'[v] = allowed[v]

LEMMA BucketKey ==
    ASSUME NEW u \in Users
    PROVE  <<"loginEmail", u>> \in Limiters \X Keys
  BY DEF Limiters, Keys

(* Only a login spends the budget of an address, and only when its own     *)
(* address of the network is not spent.                                    *)
LEMMA SpendElsewhere ==
    ASSUME TypeOK, NEW t \in Requests, NEW v, NEW next, Spend(t, v, next),
           ask'[t].kind \in {"signup", "change", "reset"}, NEW u \in Users
    PROVE  Attempts(u)' = Attempts(u) /\ allowed' = allowed
<1> DEFINE b == Budgets(ask'[t], v)
           asked == {i \in DOMAIN b : \A j \in 1..i-1 : Admits(b[j][1], b[j][2])}
           k == <<"loginEmail", u>>
<1>1. \A i \in DOMAIN b : b[i] # k
  BY DEF Budgets
<1>2. buckets' = [q \in DOMAIN buckets |->
                    IF \E i \in asked : b[i] = q THEN Counted(buckets[q]) ELSE buckets[q]]
  BY DEF Spend
<1>3. ~ \E i \in asked : b[i] = k
  BY <1>1
<1>4. k \in DOMAIN buckets
  BY BucketKey DEF TypeOK
<1> HIDE DEF b, asked, k
<1>5. buckets'[k] = buckets[k]
  BY <1>2, <1>3, <1>4
<1>6. allowed' = allowed
  BY DEF Spend
<1> QED BY <1>5, <1>6 DEF Attempts, k

LEMMA SpendLogin ==
    ASSUME TypeOK, NEW t \in Requests, NEW v, NEW next, Spend(t, v, next),
           ask'[t].kind = "login", NEW u \in Users
    PROVE  \/ Attempts(u)' = Attempts(u) /\ allowed' = allowed
           \/ Attempts(u)' = Counted(Attempts(u)) /\ allowed' = allowed
           \/ /\ Lower(ask'[t].email) # u /\ Attempts(u)' = Attempts(u)
              /\ allowed' = [allowed EXCEPT ![t] = now]
           \/ /\ Lower(ask'[t].email) = u /\ Attempts(u)' = Counted(Attempts(u))
              /\ Counted(Attempts(u)).count <= Cap
              /\ allowed' = [allowed EXCEPT ![t] = now]
<1> DEFINE m == Lower(ask'[t].email)
           b == Budgets(ask'[t], v)
           asked == {i \in DOMAIN b : \A j \in 1..i-1 : Admits(b[j][1], b[j][2])}
           ok == \A i \in DOMAIN b : Admits(b[i][1], b[i][2])
           k == <<"loginEmail", u>>
<1>1. b = <<<<"loginIP", "ip">>, <<"loginEmail", m>>>>
  BY DEF Budgets
<1>2. /\ buckets' = [q \in DOMAIN buckets |->
                       IF \E i \in asked : b[i] = q THEN Counted(buckets[q]) ELSE buckets[q]]
      /\ allowed' = IF ok THEN [allowed EXCEPT ![t] = now] ELSE allowed
  BY DEF Spend
<1>3. k \in DOMAIN buckets
  BY BucketKey DEF TypeOK
<1>4. DOMAIN b = {1, 2} /\ b[1] = <<"loginIP", "ip">> /\ b[2] = <<"loginEmail", m>>
  BY <1>1
<1>5. ok => Admits("loginIP", "ip") /\ Admits("loginEmail", m)
  BY <1>4
<1>6. 2 \in asked <=> Admits("loginIP", "ip")
  <2>1. 1..2-1 = {1}
    OBVIOUS
  <2> QED BY <1>4, <2>1
<1>7. (\E i \in asked : b[i] = k) <=> (m = u /\ Admits("loginIP", "ip"))
  <2>1. asked \subseteq {1, 2}
    BY <1>4
  <2>2. b[1] # k /\ (b[2] = k <=> m = u)
    BY <1>4
  <2> HIDE DEF asked, b, k, m
  <2> QED BY <1>6, <2>1, <2>2
<1> HIDE DEF b, asked, ok
<1>8. buckets'[k] = IF m = u /\ Admits("loginIP", "ip") THEN Counted(buckets[k])
                    ELSE buckets[k]
  BY <1>2, <1>3, <1>7
<1>9. Attempts(u)' = buckets'[k] /\ Attempts(u) = buckets[k]
  BY DEF Attempts
<1>10. CASE ok
  <2>1. allowed' = [allowed EXCEPT ![t] = now]
    BY <1>2, <1>10
  <2>2. m = u => Counted(Attempts(u)).count <= Cap
    BY <1>5, <1>10 DEF Admits, Attempts, Cap
  <2> QED BY <1>5, <1>8, <1>9, <1>10, <2>1, <2>2
<1>11. CASE ~ ok
  BY <1>2, <1>8, <1>9, <1>11
<1> QED BY <1>10, <1>11

LEMMA TriesEffect ==
    ASSUME TypeOK, PlaceInv, Untried, NEW t \in Requests, Step(t), NEW u \in Users
    PROVE  /\ Untried' /\ now' = now
           /\ \/ Attempts(u)' = Attempts(u) /\ SameTries(u)
              \/ Attempts(u)' = Counted(Attempts(u)) /\ SameTries(u)
              \/ /\ Attempts(u)' = Counted(Attempts(u)) /\ OneMore(u, t)
                 /\ Counted(Attempts(u)).count <= Cap
<1>1. \A v \in Requests \ {t} : allowed'[v] = allowed[v] /\ ask'[v] = ask[v]
  BY OthersStay DEF SameOf
<1>2. Untried'
  <2>1. pc'[t] # "idle" /\ \A v \in Requests \ {t} : pc'[v] = pc[v]
    BY Moves, OthersStay DEF SameOf
  <2> QED BY <1>1, <2>1 DEF Untried
<1>3. allowed[t] # None => ask'[t] = ask[t]
  <2>1. allowed[t] # None => pc[t] # "idle"
    BY DEF Untried
  <2> QED BY <2>1, AskEffect
<1>4. now' = now
  BY DEF Step, Progress, PostSignup, PostLogin, PostReset, RunResetPassword, Request,
     Arrive, Abort, Victim, Authenticate, RenewSession, CheckEmail, CreateUser,
     SeedDefaultNoteTypes, Login, OpenSession, DeleteSession, CheckPassword, PeekLink,
     ConsumeLink, CreatePasswordReset, UpdateUserPassword, PurgeSessions, ScanLinks,
     RevokeLinks, Commit
<1>5. ASSUME allowed' = allowed PROVE SameTries(u)
  <2>1. \A v \in Requests : allowed[v] # None => ask'[v] = ask[v]
    BY <1>1, <1>3
  <2> QED BY <1>5, <2>1 DEF SameTries, Tries
<1>6. ASSUME buckets' = buckets, allowed' = allowed
      PROVE  Attempts(u)' = Attempts(u) /\ SameTries(u)
  BY <1>5, <1>6 DEF Attempts
<1>7. CASE PostSignup(t) \/ PostReset(t) \/ CheckPassword(t)
  <2>1. CASE \E v, next : Spend(t, v, next)
    <3>1. ask'[t].kind \in {"signup", "change", "reset"}
      <4>1. CASE PostSignup(t) \/ PostReset(t)
        <5>1. \E kinds, creds : Arrive(t, kinds, creds) /\ kinds \subseteq {"signup", "reset"}
          BY <4>1 DEF PostSignup, PostReset
        <5> QED BY <5>1, ArriveIsOwn
      <4>2. CASE CheckPassword(t)
        BY <4>2 DEF CheckPassword, PlaceInv, Placed
      <4> QED BY <1>7, <4>1, <4>2
    <3> QED BY <1>2, <1>4, <1>5, <2>1, <3>1, SpendElsewhere
  <2>2. CASE UNCHANGED <<buckets, allowed>>
    BY <1>2, <1>4, <1>6, <2>2
  <2> QED BY <1>7, <2>1, <2>2 DEF PostSignup, PostReset, CheckPassword
<1>8. CASE PostLogin(t)
  <2>1. CASE Spend(t, None, "lookup")
    <3>1. pc[t] = "idle" /\ ask'[t].kind = "login" /\ ask'[t] \in Asks
      <4>1. \E kinds, creds : Arrive(t, kinds, creds) /\ kinds = {"login"}
        BY <1>8 DEF PostLogin
      <4> QED BY <4>1, ArriveIsOwn
    <3>2. allowed[t] = None
      BY <3>1 DEF Untried
    <3>3. now # None
      <4>1. now \in 0..MaxTime /\ allowed \in [Requests -> Nat \cup {None}]
        BY DEF TypeOK
      <4>2. allowed' = [allowed EXCEPT ![t] = now] => allowed'[t] = now
        BY <4>1
      <4> QED BY <4>1, AccountsAssumption
    <3>4. CASE allowed' = allowed
      <4>1. Attempts(u)' = Attempts(u) \/ Attempts(u)' = Counted(Attempts(u))
        BY <2>1, <3>1, SpendLogin
      <4> QED BY <1>2, <1>4, <1>5, <3>4, <4>1
    <3>5. CASE allowed' = [allowed EXCEPT ![t] = now]
      <4>1. allowed'[t] = now /\ t \notin Tries(u)
        BY <3>2, <3>5 DEF TypeOK, Tries
      <4>2. Lower(ask'[t].email) # u => SameTries(u)
        BY <1>1, <4>1 DEF SameTries, Tries
      <4>3. Lower(ask'[t].email) = u => OneMore(u, t)
        BY <1>1, <3>3, <4>1 DEF OneMore, Tries
      <4>4. \/ Lower(ask'[t].email) # u /\ Attempts(u)' = Attempts(u)
            \/ /\ Lower(ask'[t].email) = u /\ Attempts(u)' = Counted(Attempts(u))
               /\ Counted(Attempts(u)).count <= Cap
            \/ allowed' = allowed
        BY <2>1, <3>1, SpendLogin
      <4>5. allowed' # allowed
        BY <3>2, <3>3, <4>1
      <4> QED BY <1>2, <1>4, <4>2, <4>3, <4>4, <4>5
    <3> QED BY <2>1, <3>1, <3>4, <3>5, SpendLogin
  <2>2. CASE UNCHANGED <<buckets, allowed>>
    BY <1>2, <1>4, <1>6, <2>2
  <2> QED BY <1>8, <2>1, <2>2 DEF PostLogin
<1>9. CASE RunResetPassword(t) \/ Request(t) \/ Abort(t) \/ Victim(t)
  <2>1. buckets' = buckets /\ allowed' = allowed
    BY <1>9 DEF RunResetPassword, Request, Abort, Victim, history
  <2> QED BY <1>2, <1>4, <1>6, <2>1
<1>10. CASE Progress(t) /\ ~ CheckPassword(t)
  <2>1. buckets' = buckets /\ allowed' = allowed
    BY <1>10 DEF Progress, Authenticate, RenewSession, CheckEmail, CreateUser,
       SeedDefaultNoteTypes, Login, OpenSession, DeleteSession, PeekLink, ConsumeLink,
       CreatePasswordReset, UpdateUserPassword, PurgeSessions, ScanLinks, RevokeLinks,
       Commit, history
  <2> QED BY <1>2, <1>4, <1>6, <2>1
<1> QED BY <1>7, <1>8, <1>9, <1>10 DEF Step

(* Of a subset no more than of the whole; of two parts no more than both.  *)
LEMMA Fewer ==
    ASSUME NEW S, IsFiniteSet(S), NEW T \in SUBSET S
    PROVE  /\ IsFiniteSet(T) /\ Cardinality(T) \in Nat /\ Cardinality(S) \in Nat
           /\ Cardinality(T) <= Cardinality(S)
  BY FS_Subset, FS_CardinalityType

LEMMA TwoParts ==
    ASSUME NEW S, IsFiniteSet(S), NEW T, IsFiniteSet(T), NEW R \in SUBSET (S \cup T)
    PROVE  Cardinality(R) <= Cardinality(S) + Cardinality(T)
<1>1. IsFiniteSet(S \cup T) /\ IsFiniteSet(S \cap T)
  BY FS_Union, FS_Subset, S \cap T \in SUBSET S
<1>2. Cardinality(S \cup T) = Cardinality(S) + Cardinality(T) - Cardinality(S \cap T)
  BY FS_Union
<1>3. /\ Cardinality(R) <= Cardinality(S \cup T)
      /\ Cardinality(S \cap T) \in Nat /\ Cardinality(S) \in Nat /\ Cardinality(T) \in Nat
      /\ Cardinality(R) \in Nat
  BY <1>1, Fewer, FS_CardinalityType
<1> QED BY <1>2, <1>3

LEMMA BudgetTypes ==
    ASSUME TypeOK, NEW u \in Users
    PROVE  /\ now \in Nat /\ Window \in Nat /\ Window > 0 /\ Cap \in Nat
           /\ Attempts(u) # None =>
                /\ Attempts(u) \in Buckets
                /\ Attempts(u).count \in Nat /\ Attempts(u).resetAt \in Nat
           /\ \A t \in Tries(u) : allowed[t] \in Nat
<1>1. Attempts(u) \in Buckets \cup {None}
  BY BucketKey DEF TypeOK, Attempts
<1>2. Cap \in Nat
  BY AccountsAssumption DEF Cap, Limiters
<1>3. now \in Nat /\ Window \in Nat /\ Window > 0
  BY AccountsAssumption DEF TypeOK
<1> QED BY <1>1, <1>2, <1>3 DEF Buckets, Tries, TypeOK

(* Before a new bucket is opened, the last window has had its one budget,  *)
(* whether the bucket before it has elapsed or been swept.                 *)
LEMMA FreshWindow ==
    ASSUME TypeOK, NEW u \in Users, BudgetOf(u),
           Attempts(u) = None \/ now >= Attempts(u).resetAt
    PROVE  /\ \A t \in Tries(u) : allowed[t] < now
           /\ Cardinality(Between(u, now - Window, now)) <= Cap
<1>1. CASE Attempts(u) = None
  <2>1. Between(u, now - Window, now) \in SUBSET Since(u, now - Window)
    BY DEF Between, Since
  <2>2. IsFiniteSet(Since(u, now - Window))
    BY Fewer DEF BudgetOf, Since
  <2>3. Cardinality(Since(u, now - Window)) <= Cap
    BY <1>1 DEF BudgetOf, Forgets
  <2> QED BY <1>1, <2>1, <2>2, <2>3, Fewer, BudgetTypes DEF BudgetOf, Forgets
<1>2. CASE Attempts(u) # None
  <2> DEFINE opened == Attempts(u).resetAt - Window
  <2>1. /\ \A t \in Tries(u) : allowed[t] < Attempts(u).resetAt
        /\ Cardinality(Since(u, opened)) <= Cap
    BY <1>2 DEF BudgetOf, Counts
  <2>2. now >= Attempts(u).resetAt /\ opened <= now - Window /\ opened \in Int
    BY <1>2, BudgetTypes
  <2>3. Between(u, now - Window, now) \in SUBSET Since(u, opened)
    BY <2>2, BudgetTypes DEF Between, Since
  <2>4. IsFiniteSet(Since(u, opened))
    BY Fewer DEF BudgetOf, Since
  <2>5. Cardinality(Between(u, now - Window, now)) <= Cap
    BY <2>1, <2>3, <2>4, Fewer, BudgetTypes
  <2> QED BY <1>2, <2>1, <2>2, <2>5, BudgetTypes
<1> QED BY <1>1, <1>2

LEMMA CountedCases ==
    ASSUME TypeOK, NEW u \in Users
    PROVE  \/ /\ Attempts(u) = None \/ now >= Attempts(u).resetAt
              /\ Counted(Attempts(u)) = [count |-> 1, resetAt |-> now + Window]
           \/ /\ Attempts(u) # None /\ now < Attempts(u).resetAt
              /\ Counted(Attempts(u)) = [count |-> Attempts(u).count + 1,
                                         resetAt |-> Attempts(u).resetAt]
<1>1. CASE Attempts(u) = None \/ now >= Attempts(u).resetAt
  BY <1>1 DEF Counted
<1>2. CASE Attempts(u) # None /\ ~ (now >= Attempts(u).resetAt)
  <2>1. Counted(Attempts(u)) = [Attempts(u) EXCEPT !.count = @ + 1]
    BY <1>2 DEF Counted
  <2> QED BY <1>2, <2>1, BudgetTypes DEF Buckets
<1> QED BY <1>1, <1>2

(* An attempt that is counted and refused. *)
LEMMA RefusedBudget ==
    ASSUME TypeOK, TypeOK', NEW u \in Users, BudgetOf(u), now' = now,
           Attempts(u)' = Counted(Attempts(u)), SameTries(u)
    PROVE  BudgetOf(u)'
<1>1. \A i, j : Since(u, i)' = Since(u, i) /\ Between(u, i, j)' = Between(u, i, j)
  BY DEF SameTries, Since, Between
<1>2. /\ IsFiniteSet(Tries(u))' /\ \A t \in Tries(u)' : allowed'[t] <= now'
      /\ Spread(u)'
  BY <1>1 DEF SameTries, BudgetOf, Spread
<1>3. Attempts(u)' # None /\ Attempts(u)' = Counted(Attempts(u))
  BY CountedType, BudgetTypes, AccountsAssumption
<1>4. Counts(u)'
  <2>1. CASE /\ Attempts(u) = None \/ now >= Attempts(u).resetAt
             /\ Counted(Attempts(u)) = [count |-> 1, resetAt |-> now + Window]
    <3>1. Attempts(u)'.resetAt - Window = now /\ Attempts(u)'.count = 1
          /\ Attempts(u)'.resetAt = now + Window
      BY <1>3, <2>1, BudgetTypes
    <3>2. /\ \A t \in Tries(u) : allowed[t] < now
          /\ Cardinality(Between(u, now - Window, now)) <= Cap
      BY <2>1, FreshWindow
    <3>3. Since(u, now) = {}
      BY <3>2, BudgetTypes DEF Since
    <3>4. Cardinality(Since(u, now)) = 0
      BY <3>3, FS_EmptySet
    <3>5. \A t \in Tries(u)' : allowed'[t] < now + Window
      BY <3>2, BudgetTypes DEF SameTries
    <3> QED BY <1>1, <3>1, <3>2, <3>4, <3>5, BudgetTypes DEF Counts, Cap
  <2>2. CASE /\ Attempts(u) # None /\ now < Attempts(u).resetAt
             /\ Counted(Attempts(u)) = [count |-> Attempts(u).count + 1,
                                        resetAt |-> Attempts(u).resetAt]
    <3>1. /\ Attempts(u)'.resetAt = Attempts(u).resetAt
          /\ Attempts(u)'.count = Attempts(u).count + 1
      BY <1>3, <2>2
    <3>2. Cardinality(Since(u, Attempts(u).resetAt - Window)) \in Nat
      BY Fewer DEF BudgetOf, Since
    <3> QED BY <1>1, <2>2, <3>1, <3>2, BudgetTypes DEF BudgetOf, Counts, SameTries, Cap
  <2> QED BY <2>1, <2>2, CountedCases
<1>5. Forgets(u)'
  BY <1>3 DEF Forgets
<1> QED BY <1>2, <1>4, <1>5 DEF BudgetOf

(* An attempt that is counted and let through. *)
LEMMA AllowedBudget ==
    ASSUME TypeOK, TypeOK', NEW u \in Users, BudgetOf(u), now' = now, NEW t,
           Attempts(u)' = Counted(Attempts(u)), OneMore(u, t),
           Counted(Attempts(u)).count <= Cap
    PROVE  BudgetOf(u)'
<1>1. /\ \A i \in Int : now >= i => Since(u, i)' = Since(u, i) \cup {t}
      /\ \A i, j \in Int : now >= j => Between(u, i, j)' = Between(u, i, j)
  <2>1. ASSUME NEW i \in Int, now >= i PROVE Since(u, i)' = Since(u, i) \cup {t}
    BY <2>1 DEF OneMore, Since
  <2>2. ASSUME NEW i \in Int, NEW j \in Int, now >= j
        PROVE  Between(u, i, j)' = Between(u, i, j)
    BY <2>2, BudgetTypes DEF OneMore, Between
  <2> QED BY <2>1, <2>2
<1>2. IsFiniteSet(Tries(u))'
  BY FS_AddElement DEF BudgetOf, OneMore
<1>3. \A v \in Tries(u)' : allowed'[v] <= now'
  BY BudgetTypes DEF BudgetOf, OneMore
<1>4. Attempts(u)' # None /\ Attempts(u)' = Counted(Attempts(u))
  BY CountedType, BudgetTypes, AccountsAssumption
<1>5. Counts(u)'
  <2>1. CASE /\ Attempts(u) = None \/ now >= Attempts(u).resetAt
             /\ Counted(Attempts(u)) = [count |-> 1, resetAt |-> now + Window]
    <3>1. Attempts(u)'.resetAt - Window = now /\ Attempts(u)'.count = 1
          /\ Attempts(u)'.resetAt = now + Window /\ Cap >= 1
      BY <1>4, <2>1, BudgetTypes
    <3>2. /\ \A v \in Tries(u) : allowed[v] < now
          /\ Cardinality(Between(u, now - Window, now)) <= Cap
      BY <2>1, FreshWindow
    <3>3. Since(u, now)' = {t}
      <4>1. Since(u, now) = {}
        BY <3>2, BudgetTypes DEF Since
      <4> QED BY <1>1, <4>1, BudgetTypes
    <3>4. Cardinality(Since(u, now)') = 1
      BY <3>3, FS_Singleton
    <3>5. Between(u, now - Window, now)' = Between(u, now - Window, now)
      BY <1>1, BudgetTypes
    <3>6. \A v \in Tries(u)' : allowed'[v] < now + Window
      BY <3>2, BudgetTypes DEF OneMore
    <3> QED BY <3>1, <3>2, <3>4, <3>5, <3>6, BudgetTypes DEF Counts, Cap
  <2>2. CASE /\ Attempts(u) # None /\ now < Attempts(u).resetAt
             /\ Counted(Attempts(u)) = [count |-> Attempts(u).count + 1,
                                        resetAt |-> Attempts(u).resetAt]
    <3>0. PICK opened \in Int : opened = Attempts(u).resetAt - Window
      BY <2>2, BudgetTypes
    <3>1. /\ Attempts(u)'.resetAt = Attempts(u).resetAt
          /\ Attempts(u)'.count = Attempts(u).count + 1
          /\ Attempts(u).count + 1 <= Cap
      BY <1>4, <2>2
    <3>2. /\ opened \in Int /\ opened <= now
          /\ \A v \in Tries(u) : allowed[v] < Attempts(u).resetAt
          /\ Cardinality(Since(u, opened)) <= Attempts(u).count
          /\ Cardinality(Between(u, opened - Window, opened)) <= Cap
      BY <2>2, <3>0, BudgetTypes DEF BudgetOf, Counts
    <3>3. Since(u, opened)' = Since(u, opened) \cup {t} /\ t \notin Since(u, opened)
      BY <1>1, <3>2 DEF OneMore, Since
    <3>4. Between(u, opened - Window, opened)' = Between(u, opened - Window, opened)
      BY <1>1, <3>2, BudgetTypes
    <3>5. IsFiniteSet(Since(u, opened)) /\ Cardinality(Since(u, opened)) \in Nat
      BY Fewer DEF BudgetOf, Since
    <3>6. Cardinality(Since(u, opened)') = Cardinality(Since(u, opened)) + 1
      BY <3>3, <3>5, FS_AddElement
    <3>7. \A v \in Tries(u)' : allowed'[v] < Attempts(u).resetAt
      BY <2>2, <3>2 DEF OneMore
    <3>8. Attempts(u)'.resetAt - Window = opened
      BY <3>0, <3>1
    <3>9. /\ Cardinality(Since(u, opened)') <= Attempts(u)'.count
          /\ Cardinality(Since(u, opened)') <= Cap
      BY <2>2, <3>1, <3>2, <3>5, <3>6, BudgetTypes
    <3>10. opened <= now' /\ Cap' = Cap
      BY <3>2 DEF Cap
    <3> QED BY <3>1, <3>2, <3>4, <3>7, <3>8, <3>9, <3>10 DEF Counts
  <2> QED BY <2>1, <2>2, CountedCases
<1>6. Forgets(u)'
  BY <1>4 DEF Forgets
<1>7. Spread(u)'
  <2>0. PICK opened \in Int : opened = Attempts(u)'.resetAt - Window
    <3>1. Attempts(u)' \in Buckets
      BY <1>4, CountedType, BudgetTypes
    <3> QED BY <3>1, BudgetTypes DEF Buckets
  <2>1. SUFFICES ASSUME NEW start \in 0..MaxTime
                 PROVE  Cardinality(Between(u, start, start + Window)') <= 2 * Cap
    BY DEF Spread, Cap
  <2>2. start \in Int /\ start + Window \in Int
    BY BudgetTypes
  <2>3. CASE start <= now /\ now < start + Window
    <3>1. /\ opened \in Int /\ opened <= now
          /\ Cardinality(Since(u, opened)') <= Cap
          /\ Cardinality(Between(u, opened - Window, opened)') <= Cap
      BY <1>4, <1>5, <2>0 DEF Counts, Cap
    <3>2. \A v \in Tries(u)' : allowed'[v] \in Nat
      BY BudgetTypes DEF OneMore
    <3>3. Between(u, start, start + Window)' \in
             SUBSET (Since(u, opened)' \cup Between(u, opened - Window, opened)')
      <4>1. start > opened - Window
        BY <2>2, <2>3, <3>1, BudgetTypes
      <4> QED BY <2>2, <3>1, <3>2, <4>1, BudgetTypes DEF Between, Since
    <3>4. /\ IsFiniteSet(Since(u, opened)')
          /\ IsFiniteSet(Between(u, opened - Window, opened)')
          /\ IsFiniteSet(Between(u, start, start + Window)')
      <4>1. /\ Since(u, opened)' \in SUBSET Tries(u)'
            /\ Between(u, opened - Window, opened)' \in SUBSET Tries(u)'
            /\ Between(u, start, start + Window)' \in SUBSET Tries(u)'
        BY DEF Since, Between
      <4> QED BY <1>2, <4>1, Fewer
    <3>5. /\ Cardinality(Since(u, opened)') \in Nat
          /\ Cardinality(Between(u, opened - Window, opened)') \in Nat
          /\ Cardinality(Between(u, start, start + Window)') \in Nat
      BY <3>4, FS_CardinalityType
    <3>6. Cardinality(Between(u, start, start + Window)') <=
             Cardinality(Since(u, opened)') + Cardinality(Between(u, opened - Window, opened)')
      BY <3>3, <3>4, TwoParts
    <3> QED BY <3>1, <3>5, <3>6, BudgetTypes
  <2>4. CASE ~ (start <= now /\ now < start + Window)
    <3>1. Between(u, start, start + Window)' = Between(u, start, start + Window)
      BY <2>2, <2>4, BudgetTypes DEF OneMore, Between
    <3> QED BY <3>1 DEF BudgetOf, Spread
  <2> QED BY <2>3, <2>4
<1> QED BY <1>2, <1>3, <1>5, <1>6, <1>7 DEF BudgetOf

LEMMA BudgetStep ==
    ASSUME TypeOK, TypeOK', PlaceInv, BudgetInv, NEW t \in Requests, Step(t)
    PROVE  BudgetInv'
<1>1. Untried'
  <2>1. Holder \in Users
    BY AccountsAssumption
  <2> QED BY <2>1, TriesEffect DEF BudgetInv
<1>2. ASSUME NEW u \in Users PROVE BudgetOf(u)'
  <2>1. now' = now /\ BudgetOf(u)
    BY TriesEffect DEF BudgetInv
  <2>2. CASE Attempts(u)' = Attempts(u) /\ SameTries(u)
    <3>1. \A i, j : Since(u, i)' = Since(u, i) /\ Between(u, i, j)' = Between(u, i, j)
      BY <2>2 DEF SameTries, Since, Between
    <3>2. Counts(u)' /\ Forgets(u)' /\ Spread(u)'
      BY <2>1, <2>2, <3>1 DEF SameTries, BudgetOf, Counts, Forgets, Spread, Cap
    <3> QED BY <2>1, <2>2, <3>2 DEF SameTries, BudgetOf
  <2>3. CASE Attempts(u)' = Counted(Attempts(u)) /\ SameTries(u)
    BY <2>1, <2>3, RefusedBudget
  <2>4. CASE /\ Attempts(u)' = Counted(Attempts(u)) /\ OneMore(u, t)
             /\ Counted(Attempts(u)).count <= Cap
    BY <2>1, <2>4, AllowedBudget
  <2> QED BY <2>2, <2>3, <2>4, TriesEffect DEF BudgetInv
<1> QED BY <1>1, <1>2 DEF BudgetInv

(* Time passes, and the sweep drops a bucket whose window is over.         *)
LEMMA IdleBudget ==
    ASSUME TypeOK, BudgetInv, Tick \/ CleanUp \/ UNCHANGED vars
    PROVE  BudgetInv'
<1>1. UNCHANGED <<pc, ask, allowed>>
  BY DEF Tick, CleanUp, vars, history
<1>2. now' = now \/ now' = now + 1
  BY DEF Tick, CleanUp, vars
<1>3. ASSUME NEW u \in Users PROVE BudgetOf(u)'
  <2>0. BudgetOf(u)
    BY DEF BudgetInv
  <2>1. /\ Tries(u)' = Tries(u)
        /\ \A i, j : Since(u, i)' = Since(u, i) /\ Between(u, i, j)' = Between(u, i, j)
    BY <1>1 DEF Tries, Since, Between
  <2>2. IsFiniteSet(Tries(u))' /\ Spread(u)'
    BY <2>0, <2>1 DEF BudgetOf, Spread
  <2>3. \A t \in Tries(u)' : allowed'[t] <= now'
    BY <1>1, <1>2, <2>0, <2>1, BudgetTypes DEF BudgetOf
  <2>4. CASE Attempts(u)' = Attempts(u)
    <3>1. Counts(u)'
      BY <1>1, <1>2, <2>0, <2>1, <2>4, BudgetTypes DEF BudgetOf, Counts, Cap
    <3>2. Forgets(u)'
      <4>1. SUFFICES ASSUME Attempts(u) = None
                     PROVE  /\ \A t \in Tries(u) : allowed[t] < now'
                            /\ Cardinality(Since(u, now' - Window)) <= Cap
        BY <1>1, <2>1, <2>4 DEF Forgets, Cap
      <4>2. /\ \A t \in Tries(u) : allowed[t] < now
            /\ Cardinality(Since(u, now - Window)) <= Cap
        BY <2>0, <4>1 DEF BudgetOf, Forgets
      <4>3. Since(u, now' - Window) \in SUBSET Since(u, now - Window)
        BY <1>2, BudgetTypes DEF Since
      <4>4. IsFiniteSet(Since(u, now - Window))
        BY <2>0, Fewer DEF BudgetOf, Since
      <4> QED BY <1>2, <4>2, <4>3, <4>4, Fewer, BudgetTypes
    <3> QED BY <2>2, <2>3, <3>1, <3>2 DEF BudgetOf
  <2>5. CASE /\ Attempts(u)' = None /\ Attempts(u) # None
             /\ now > Attempts(u).resetAt /\ now' = now
    <3>1. Counts(u)'
      BY <2>5 DEF Counts
    <3>2. Forgets(u)'
      <4> DEFINE opened == Attempts(u).resetAt - Window
      <4>1. /\ \A t \in Tries(u) : allowed[t] < Attempts(u).resetAt
            /\ Cardinality(Since(u, opened)) <= Cap
        BY <2>0, <2>5 DEF BudgetOf, Counts
      <4>2. Since(u, now - Window) \in SUBSET Since(u, opened)
        BY <2>5, BudgetTypes DEF Since
      <4>3. IsFiniteSet(Since(u, opened))
        BY <2>0, Fewer DEF BudgetOf, Since
      <4>4. Cardinality(Since(u, now - Window)) <= Cap
        BY <4>1, <4>2, <4>3, Fewer, BudgetTypes
      <4>5. \A t \in Tries(u) : allowed[t] < now
        BY <2>5, <4>1, BudgetTypes
      <4>6. Since(u, now - Window)' = Since(u, now - Window) /\ Cap' = Cap
        BY <1>1, <2>1, <2>5 DEF Since, Cap
      <4> QED BY <1>1, <2>1, <2>5, <4>4, <4>5, <4>6 DEF Forgets
    <3> QED BY <2>2, <2>3, <3>1, <3>2 DEF BudgetOf
  <2>6. CASE Tick \/ UNCHANGED vars
    <3>1. Attempts(u)' = Attempts(u)
      BY <2>6 DEF Tick, vars, Attempts
    <3> QED BY <2>4, <3>1
  <2>7. CASE CleanUp
    <3>1. Attempts(u)' = IF Elapsed(Attempts(u)) THEN None ELSE Attempts(u)
      BY <2>7, BucketKey DEF CleanUp, Attempts, TypeOK
    <3>2. now' = now
      BY <2>7 DEF CleanUp
    <3> QED BY <2>4, <2>5, <3>1, <3>2 DEF Elapsed
  <2> QED BY <2>6, <2>7
<1> QED BY <1>1, <1>3 DEF BudgetInv, Untried

LEMMA BudgetInit == Init => BudgetInv
<1> SUFFICES ASSUME Init PROVE BudgetInv
  OBVIOUS
<1>1. Untried
  BY DEF Init, Untried
<1>2. ASSUME NEW u \in Users PROVE BudgetOf(u)
  <2>1. Tries(u) = {} /\ Attempts(u) = None
    BY BucketKey DEF Init, Tries, Attempts
  <2>2. \A i, j : Since(u, i) = {} /\ Between(u, i, j) = {}
    BY <2>1 DEF Since, Between
  <2>3. Cap \in Nat
    BY AccountsAssumption DEF Cap, Limiters
  <2> QED BY <2>1, <2>2, <2>3, FS_EmptySet DEF BudgetOf, Counts, Forgets, Spread
<1> QED BY <1>1, <1>2 DEF BudgetInv

LEMMA BudgetNext ==
    TypeOK /\ TypeOK' /\ PlaceInv /\ BudgetInv /\ [Next]_vars => BudgetInv'
  BY BudgetStep, IdleBudget, NextCases

(* However the sweep and the windows fall, no stretch as long as a window  *)
(* lets more than two budgets of logins through for one address.           *)
THEOREM TwoBudgetsPerWindow == Spec => []BudgetHolds
<1>1. TypeOK /\ BudgetInv => BudgetHolds
  <2> SUFFICES ASSUME TypeOK, BudgetInv, NEW u \in Users, NEW start \in 0..MaxTime
               PROVE  Cardinality({t \in Requests :
                          /\ allowed[t] # None /\ Lower(ask[t].email) = u
                          /\ allowed[t] \in start..start + Window - 1})
                      <= 2 * Limit["loginEmail"]
    BY DEF BudgetHolds
  <2>1. {t \in Requests :
            /\ allowed[t] # None /\ Lower(ask[t].email) = u
            /\ allowed[t] \in start..start + Window - 1} = Between(u, start, start + Window)
    BY BudgetTypes DEF Between, Tries, TypeOK
  <2> QED BY <2>1 DEF BudgetInv, BudgetOf, Spread, Cap
<1> QED BY <1>1, PlaceInit, PlaceStep, BudgetInit, BudgetNext, PTL DEF Spec
=============================================================================
