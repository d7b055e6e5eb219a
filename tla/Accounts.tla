------------------------------- MODULE Accounts -------------------------------
(* Users: login with a counter of failed attempts and a lock that expires,    *)
(* tokens that carry the version of the account, and the edits of accounts.   *)
(* Login holds the row of its user. Every other request reads the user        *)
(* without a lock and writes the columns it has changed, later.               *)
EXTENDS Integers, FiniteSets

CONSTANTS Session, User,
          Admin,             \* the user of bootstrap_admin
          Warehouse,
          Payload,           \* bodies of PATCH /users/{id}; a missing field is Unset
          Unset,
          MaxAttempts,       \* login_max_attempts
          LockTime,          \* login_lock_minutes
          MaxTime,           \* bound: the clock
          MaxRequests        \* bound: requests that edit

VARIABLES user,              \* rows of users, with roles and warehouses
          warehouse,         \* warehouses there are
          now,
          tokens,            \* tokens that were handed out: user, version, revoked
          session,
          streak,            \* history: wrong passwords tried since the last right one,
                             \*   or since a lock ran out
          helped,            \* history: a new password has cleared the count since then
          revoked,           \* history: how often the tokens of a user were revoked
          temporary,         \* history: the password was given by an administrator
          overlapped,        \* history: users of whom two edits overlapped
          requests

Role == {"admin", "viewer", "logist"}

\* A body names roles and warehouses there are, or leaves them out; CreateUser needs both.
ASSUME Bodies ==
  \A p \in Payload : /\ p.active \in BOOLEAN \cup {Unset} /\ p.password \in BOOLEAN
                     /\ p.roles \in (SUBSET Role) \cup {Unset}
                     /\ p.warehouses \in (SUBSET Warehouse) \cup {Unset}
\* The limits of login are positive (config.py).
ASSUME Limits == MaxAttempts \in Nat \ {0} /\ LockTime \in Nat \ {0}
ASSUME Bounds == MaxTime \in Nat \ {0} /\ MaxRequests \in Nat
ASSUME Sessions == IsFiniteSet(Session)

vars == <<user, warehouse, now, tokens, session, streak, helped, revoked, temporary,
          overlapped, requests>>
history == <<streak, helped, revoked, temporary, overlapped>>
-----------------------------------------------------------------------------
Absent == [exists |-> FALSE, active |-> FALSE, must |-> FALSE, failed |-> 0, locked |-> 0,
           version |-> 0, roles |-> {}, warehouses |-> {}]
Idle == [op |-> "idle"]

TypeOK ==
  /\ \A u \in User : /\ user[u].roles \subseteq Role
                     /\ user[u].warehouses \subseteq warehouse
                     /\ user[u].failed \in Nat
                     /\ user[u].locked \in 0 .. MaxTime + LockTime
                     /\ user[u].version \in 0 .. requests
                     /\ revoked[u] \in 0 .. requests
  /\ warehouse \subseteq Warehouse
  /\ now \in 1 .. MaxTime
  /\ tokens \subseteq [user : User, version : Nat, revoked : Nat]

Init ==
  /\ user = [u \in User |-> IF u = Admin THEN [Absent EXCEPT !.exists = TRUE, !.active = TRUE,
                                                             !.roles = {"admin"}]
                            ELSE Absent]
  /\ warehouse = Warehouse
  /\ now = 1 /\ tokens = {} /\ requests = 0
  /\ session = [s \in Session |-> Idle]
  /\ streak = [u \in User |-> 0] /\ helped = {}
  /\ revoked = [u \in User |-> 0] /\ temporary = {} /\ overlapped = {}
-----------------------------------------------------------------------------
\* locked_until is in the future.
Locked(u) == user[u].locked > now

\* The count goes on where it was when the lock ran out.
KeptCount(x) == IF x.locked # 0 THEN [x EXCEPT !.locked = 0] ELSE x
\* A lock that has run out is taken away, and the count starts again.
Expired(x) == IF x.locked # 0 THEN [x EXCEPT !.failed = 0, !.locked = 0] ELSE x

WrongPassword(u) ==
  /\ user[u].active /\ ~ Locked(u)
  /\ LET x == Expired(user[u])
         n == x.failed + 1
     IN  user' = [user EXCEPT ![u] =
           [x EXCEPT !.failed = n, !.locked = IF n >= MaxAttempts THEN now + LockTime ELSE @]]
  /\ streak' = [streak EXCEPT ![u] = IF user[u].locked # 0 THEN 1 ELSE @ + 1]
  /\ helped' = IF user[u].locked # 0 THEN helped \ {u} ELSE helped
  /\ UNCHANGED <<warehouse, now, tokens, session, revoked, temporary, overlapped, requests>>

\* The token carries the version of the account.
RightPassword(u) ==
  /\ user[u].active /\ ~ Locked(u)
  /\ user' = [user EXCEPT ![u].failed = 0, ![u].locked = 0]
  /\ tokens' = tokens \cup {[user |-> u, version |-> user[u].version, revoked |-> revoked[u]]}
  /\ streak' = [streak EXCEPT ![u] = 0] /\ helped' = helped \ {u}
  /\ UNCHANGED <<warehouse, now, session, revoked, temporary, overlapped, requests>>

Tick == now < MaxTime /\ now' = now + 1
        /\ UNCHANGED <<user, warehouse, tokens, session, history, requests>>

\* get_current_user: a token of this version of an active account.
Accepted(t) == user[t.user].active /\ t.version = user[t.user].version
Authenticated(u) == \E t \in tokens : t.user = u /\ Accepted(t)

\* require_permission: not with a temporary password.
MayManage(u) == Authenticated(u) /\ ~ user[u].must /\ "admin" \in user[u].roles
-----------------------------------------------------------------------------
\* A logist has no other role, and works in a warehouse.
ValidAssignment(roles, places) ==
  "logist" \in roles => roles = {"logist"} /\ places # {}

Given(value, otherwise) == IF value = Unset THEN otherwise ELSE value

\* What is not given is taken from the user that was read.
Assignable(x, p) == ValidAssignment(Given(p.roles, x.roles), Given(p.warehouses, x.warehouses))

\* The tokens are forgotten.
NewPasswordOnly(x, must) == [x EXCEPT !.must = must, !.failed = 0, !.locked = 0]

\* A new password revokes the tokens, and clears the count and the lock.
NewPassword(x, must) ==
  [x EXCEPT !.must = must, !.failed = 0, !.locked = 0, !.version = @ + 1]

\* What update_user makes of the user it has read.
Updated(x, p) ==
  LET y == [x EXCEPT !.active = Given(p.active, @), !.roles = Given(p.roles, @),
                     !.warehouses = Given(p.warehouses, @)]
  IN  IF p.password THEN NewPassword(y, TRUE) ELSE y

\* The request has read the user; next is what it will make of it.
Edit(s, op, u, next) ==
  /\ session[s] = Idle /\ requests < MaxRequests
  /\ session' = [session EXCEPT ![s] = [op |-> op, user |-> u, seen |-> user[u], next |-> next]]
  /\ requests' = requests + 1
  /\ UNCHANGED <<user, warehouse, now, tokens, history>>

ChangePassword(s, u) ==
  Authenticated(u) /\ Edit(s, "change_password", u, NewPassword(user[u], FALSE))
Logout(s, u) ==
  Authenticated(u) /\ Edit(s, "logout", u, [user[u] EXCEPT !.version = @ + 1])
\* Nobody deactivates himself.
UpdateUser(s, u, actor, p) ==
  /\ MayManage(actor) /\ user[u].exists
  /\ ~ (p.active = FALSE /\ u = actor)
  /\ Given(p.warehouses, {}) \subseteq warehouse
  /\ Assignable(user[u], p)
  /\ Edit(s, IF p.password THEN "reset" ELSE "update", u, Updated(user[u], p))

\* The rows of a relation: those that were read and are gone now are deleted,
\* the new ones inserted; another request may have done either already.
Fits(rows, seen, next) == (seen \ next) \subseteq rows /\ (next \ seen) \cap rows = {}
Relation(rows, seen, next) == (rows \ (seen \ next)) \cup (next \ seen)

\* UPDATE sets the columns that differ from what was read, and no other.
ChangedColumns(x, seen, next) ==
  [c \in DOMAIN x |->
     CASE c \in {"roles", "warehouses"} -> Relation(x[c], seen[c], next[c])
       [] OTHER -> IF next[c] = seen[c] THEN x[c] ELSE next[c]]

Stale(x, seen) == \E c \in DOMAIN x \ {"failed", "locked"} : x[c] # seen[c]

Write(s) ==
  LET v == session[s]  u == v.user  x == user[u]
      password == v.op \in {"change_password", "reset"}
  IN  /\ v # Idle
      /\ Fits(x.roles, v.seen.roles, v.next.roles)
      /\ Fits(x.warehouses, v.seen.warehouses, v.next.warehouses)
      /\ v.next.warehouses \ v.seen.warehouses \subseteq warehouse
      /\ user' = [user EXCEPT ![u] = ChangedColumns(x, v.seen, v.next)]
      /\ helped' = IF password THEN helped \cup {u} ELSE helped
      /\ revoked' = IF v.op = "update" THEN revoked ELSE [revoked EXCEPT ![u] = @ + 1]
      /\ temporary' = CASE v.op = "reset" -> temporary \cup {u}
                        [] v.op = "change_password" -> temporary \ {u}
                        [] OTHER -> temporary
      /\ overlapped' = IF Stale(x, v.seen) THEN overlapped \cup {u} ELSE overlapped
      /\ session' = [session EXCEPT ![s] = Idle]
      /\ UNCHANGED <<warehouse, now, tokens, streak, requests>>

\* IntegrityError, StaleDataError, or the connection is lost.
Rollback(s) ==
  /\ session[s] # Idle
  /\ session' = [session EXCEPT ![s] = Idle]
  /\ UNCHANGED <<user, warehouse, now, tokens, history, requests>>

CreateUser(u, actor, p) ==
  /\ MayManage(actor) /\ ~ user[u].exists /\ p.roles # Unset /\ p.warehouses # Unset
  /\ p.warehouses \subseteq warehouse /\ ValidAssignment(p.roles, p.warehouses)
  /\ user' = [user EXCEPT ![u] =
       [Absent EXCEPT !.exists = TRUE, !.active = TRUE, !.must = TRUE,
                      !.roles = p.roles, !.warehouses = p.warehouses]]
  /\ temporary' = temporary \cup {u}
  /\ UNCHANGED <<warehouse, now, tokens, session, streak, helped, revoked, overlapped, requests>>

\* delete_warehouse takes the users' rows with it.
DeleteWarehouse(w) ==
  /\ w \in warehouse
  /\ warehouse' = warehouse \ {w}
  /\ user' = [u \in User |-> [user[u] EXCEPT !.warehouses = @ \ {w}]]
  /\ overlapped' = overlapped \cup {u \in User : w \in user[u].warehouses}
  /\ UNCHANGED <<now, tokens, session, streak, helped, revoked, temporary, requests>>

Next ==
  \/ \E u \in User : WrongPassword(u) \/ RightPassword(u)
  \/ Tick
  \/ \E s \in Session, u \in User :
       \/ ChangePassword(s, u) \/ Logout(s, u)
       \/ \E actor \in User, p \in Payload : UpdateUser(s, u, actor, p)
  \/ \E s \in Session : Write(s) \/ Rollback(s)
  \/ \E u, actor \in User, p \in Payload : CreateUser(u, actor, p)
  \/ \E w \in Warehouse : DeleteWarehouse(w)

Spec == Init /\ [][Next]_vars
-----------------------------------------------------------------------------
\* An account is locked exactly after MaxAttempts wrong passwords in a row: those
\* from before an expired lock or a right password do not count, a new password
\* lifts the lock, and an edit of the account that was under way changes nothing.
LockIsEarned ==
  \A u \in User : /\ user[u].locked # 0 => streak[u] >= MaxAttempts
                  /\ streak[u] >= MaxAttempts /\ u \notin helped => user[u].locked # 0

\* Unless edits of the account overlapped (or a warehouse of it was deleted): no
\* token outlives a logout or a new password, who has the administrator's
\* password has to change it, a logist is nothing else and has a warehouse.
SerialEdits ==
  \A u \in User \ overlapped :
    /\ \A t \in tokens : t.user = u /\ Accepted(t) => t.revoked = revoked[u]
    /\ u \in temporary => user[u].must
    /\ ValidAssignment(user[u].roles, user[u].warehouses)
=============================================================================
