--------------------------- MODULE BackOfficeProofs ---------------------------
(* The back office for any sets of rows and files and any limits, part by     *)
(* part, and as the whole the parts make. Each part has its inductive         *)
(* invariant: LockInv and EditInv of the accounts, DirectoryInv, ImportInv,   *)
(* FiguresInv of the reports, UpgradeInv of the migrations. At the end a      *)
(* behaviour of the back office is shown to be, of each part, one of the      *)
(* module of that part.                                                       *)
EXTENDS BackOffice, SumLemmas, FiniteSetTheorems, SequenceTheorems, TLAPS

-----------------------------------------------------------------------------
(* Accounts. The lock: the count of a row is the number of wrong passwords in *)
(* a row, but for new passwords, which may have cleared it while an attempt   *)
(* was counted; what an edit read of the count stays out of what it writes,   *)
(* unless it carries a new password. The edits: what one of them will write   *)
(* follows from what it has read, which, unless another has overlapped, is    *)
(* the account at its commit.                                                 *)
Column == {"exists", "active", "must", "failed", "locked", "version", "roles", "warehouses"}
\* A row of users, as far as the lock is concerned.
Shaped(x) == /\ x = [c \in Column |-> x[c]]
             /\ x.failed \in Nat /\ x.locked \in Nat

\* The count and the lock of u and what was tried.
Counted(u) ==
  /\ user[u].failed <= streak[u]
  /\ user[u].locked # 0 => streak[u] >= MaxAttempts
  /\ u \notin helped => /\ user[u].failed = streak[u]
                        /\ streak[u] >= MaxAttempts => user[u].locked # 0
  /\ user[u].active => user[u].exists
  /\ ~ user[u].exists => streak[u] = 0

\* What an open edit will write: only a new password touches the count.
Harmless(v) ==
  \/ v = Idle
  \/ /\ v.op # "idle" /\ v.user \in User /\ user[v.user].exists
     /\ Shaped(v.seen) /\ Shaped(v.next)
     /\ v.next.exists = v.seen.exists
     /\ IF v.op \in {"change_password", "reset"}
        THEN v.next.failed = 0 /\ v.next.locked = 0
        ELSE v.next.failed = v.seen.failed /\ v.next.locked = v.seen.locked

\* The inductive invariant.
LockInv ==
  /\ now \in Nat /\ streak \in [User -> Nat]
  /\ user = [u \in User |-> user[u]]
  /\ session = [s \in Session |-> session[s]]
  /\ \A u \in User : Shaped(user[u]) /\ Counted(u)
  /\ \A s \in Session : Harmless(session[s])

-----------------------------------------------------------------------------
\* Nobody has tried a password yet.
LEMMA LockInit == ASSUME Init PROVE LockInv
<1>1. Shaped(Absent)
  BY DEF Shaped, Absent, Column
<1>2. \A u \in User : /\ Shaped(user[u]) /\ user[u].failed = 0 /\ user[u].locked = 0
                      /\ user[u].active => user[u].exists
  BY DEF Init, Shaped, Absent, Column
<1>3. QED
  BY <1>2, Limits DEF Init, LockInv, Counted, Harmless

\* One row is replaced.
LEMMA OneUser ==
  ASSUME LockInv, NEW u \in User, NEW z, user' = [user EXCEPT ![u] = z]
  PROVE  /\ user'[u] = z /\ \A w \in User \ {u} : user'[w] = user[w]
         /\ user' = [w \in User |-> user'[w]]
  BY DEF LockInv

\* Steps that leave the rows of users and what was tried as they are.
LEMMA RowsKept ==
  ASSUME LockInv, UNCHANGED <<user, streak, helped>>, now' \in Nat,
         session' = [s \in Session |-> session'[s]],
         \A s \in Session : Harmless(session'[s])
  PROVE  LockInv'
<1>1. \A u \in User : Shaped(user'[u]) /\ Counted(u)'
  BY DEF LockInv, Counted
<1>2. \A s \in Session : Harmless(session[s])'
  BY DEF Harmless
<1>3. QED
  BY <1>1, <1>2 DEF LockInv

\* Steps that change one row, and at most end edits that are open.
LEMMA OneUserChanged ==
  ASSUME LockInv, NEW u \in User, NEW z, user' = [user EXCEPT ![u] = z],
         UNCHANGED now, streak' \in [User -> Nat],
         session' = [s \in Session |-> session'[s]],
         \A s \in Session : session'[s] \in {session[s], Idle},
         Shaped(z), user[u].exists => z.exists, Counted(u)',
         \A w \in User \ {u} : streak'[w] = streak[w] /\ (w \in helped' <=> w \in helped)
  PROVE  LockInv'
<1>1. /\ user'[u] = z /\ \A w \in User \ {u} : user'[w] = user[w]
      /\ user' = [w \in User |-> user'[w]]
  BY OneUser
<1>2. \A w \in User : Shaped(user'[w]) /\ Counted(w)'
  BY <1>1 DEF LockInv, Counted
<1>3. \A w \in User : user[w].exists => user'[w].exists
  BY <1>1
<1>4. \A s \in Session : Harmless(session[s])'
  BY <1>3 DEF LockInv, Harmless
<1>5. QED
  BY <1>1, <1>2, <1>4 DEF LockInv

\* A wrong password counts in the row what it counts in what was tried.
LEMMA WrongKeeps ==
  ASSUME LockInv, NEW u \in User, WrongPassword(u) PROVE LockInv'
<1> DEFINE x == Expired(user[u])
           n == x.failed + 1
           k == IF n >= MaxAttempts THEN now + LockTime ELSE x.locked
           z == [x EXCEPT !.failed = n, !.locked = k]
<1>1. Shaped(user[u]) /\ Counted(u) /\ now \in Nat /\ streak \in [User -> Nat]
  BY DEF LockInv
<1>2. /\ Shaped(x) /\ x.exists = user[u].exists /\ x.active = user[u].active /\ x.locked = 0
      /\ x.failed = IF user[u].locked # 0 THEN 0 ELSE user[u].failed
  BY <1>1 DEF Shaped, Expired, Column
<1>3. n \in Nat /\ k \in Nat
  BY <1>1, <1>2, Limits DEF Shaped
<1>4. user' = [user EXCEPT ![u] = z]
  BY DEF WrongPassword
<1>5. /\ Shaped(z) /\ z.failed = n /\ z.locked = k
      /\ z.exists = user[u].exists /\ z.active = user[u].active
  <2> HIDE DEF x, n, k
  <2> QED BY <1>2, <1>3 DEF Shaped, Column
<1>6. user'[u] = z
  <2> HIDE DEF z
  <2> QED BY <1>4, OneUser
<1>7. streak' \in [User -> Nat]
  BY <1>1 DEF WrongPassword
<1>8. Counted(u)'
  <2>1. streak'[u] = IF user[u].locked # 0 THEN 1 ELSE streak[u] + 1
    BY <1>1 DEF WrongPassword
  <2>2. u \notin helped' => user[u].locked # 0 \/ u \notin helped
    BY DEF WrongPassword
  <2>3. user[u].active
    BY DEF WrongPassword
  <2> HIDE DEF x, z
  <2> QED BY <1>1, <1>2, <1>5, <1>6, <2>1, <2>2, <2>3, Limits DEF Counted, Shaped
<1>9. \A w \in User \ {u} : streak'[w] = streak[w] /\ (w \in helped' <=> w \in helped)
  BY <1>1 DEF WrongPassword
<1>10. /\ UNCHANGED now /\ session' = [s \in Session |-> session'[s]]
       /\ \A s \in Session : session'[s] \in {session[s], Idle}
  BY DEF WrongPassword, LockInv
<1> HIDE DEF z
<1>11. QED
  BY <1>4, <1>5, <1>7, <1>8, <1>9, <1>10, OneUserChanged

\* The right password clears both.
LEMMA RightKeeps ==
  ASSUME LockInv, NEW u \in User, RightPassword(u) PROVE LockInv'
<1> DEFINE z == [user[u] EXCEPT !.failed = 0, !.locked = 0]
<1>1. Shaped(user[u]) /\ Counted(u) /\ streak \in [User -> Nat]
  BY DEF LockInv
<1>2. user' = [user EXCEPT ![u] = z]
  BY <1>1 DEF RightPassword, Shaped, Column, LockInv
<1>3. /\ Shaped(z) /\ z.failed = 0 /\ z.locked = 0
      /\ z.exists = user[u].exists /\ z.active = user[u].active
  BY <1>1 DEF Shaped, Column
<1>4. /\ streak' \in [User -> Nat] /\ streak'[u] = 0 /\ UNCHANGED now
      /\ session' = [s \in Session |-> session'[s]]
      /\ \A s \in Session : session'[s] \in {session[s], Idle}
      /\ \A w \in User \ {u} : streak'[w] = streak[w] /\ (w \in helped' <=> w \in helped)
  BY <1>1 DEF RightPassword, LockInv
<1> HIDE DEF z
<1>5. user'[u] = z
  BY <1>2, OneUser
<1>6. Counted(u)'
  BY <1>1, <1>3, <1>4, <1>5, Limits DEF Counted
<1>7. QED
  BY <1>2, <1>3, <1>4, <1>6, OneUserChanged
-----------------------------------------------------------------------------
\* An edit that is opened is harmless, if what it will write is.
LEMMA EditKeeps ==
  ASSUME LockInv, NEW s \in Session, NEW op, NEW u \in User, NEW goal, Edit(s, op, u, goal),
         op # "idle", user[u].exists, Shaped(goal), goal.exists = user[u].exists,
         IF op \in {"change_password", "reset"}
         THEN goal.failed = 0 /\ goal.locked = 0
         ELSE goal.failed = user[u].failed /\ goal.locked = user[u].locked
  PROVE  LockInv'
<1> DEFINE v == [op |-> op, user |-> u, seen |-> user[u], next |-> goal]
<1>1. session' = [session EXCEPT ![s] = v] /\ UNCHANGED <<user, streak, helped, now>>
  BY DEF Edit, history
<1>2. Harmless(v)
  BY DEF LockInv, Harmless
<1> HIDE DEF v
<1>3. \A r \in Session : session'[r] = IF r = s THEN v ELSE session[r]
  BY <1>1 DEF LockInv
<1>4. session' = [r \in Session |-> session'[r]]
  BY <1>1 DEF LockInv
<1>5. \A r \in Session : Harmless(session'[r])
  <2>1. \A r \in Session : Harmless(session[r])
    BY DEF LockInv
  <2>2. QED
    BY <1>2, <1>3, <2>1
<1>6. now' \in Nat
  BY <1>1 DEF LockInv
<1>7. QED
  BY <1>1, <1>4, <1>5, <1>6, RowsKept

\* The three requests that open an edit.
LEMMA ChangePasswordKeeps ==
  ASSUME LockInv, NEW s \in Session, NEW u \in User, ChangePassword(s, u) PROVE LockInv'
<1> DEFINE z == NewPassword(user[u], FALSE)
<1>1. user[u].exists /\ Shaped(user[u])
  BY DEF ChangePassword, Authenticated, Accepted, LockInv, Counted
<1>2. Shaped(z) /\ z.exists = user[u].exists /\ z.failed = 0 /\ z.locked = 0
  BY <1>1 DEF NewPassword, Shaped, Column
<1>3. Edit(s, "change_password", u, z)
  BY DEF ChangePassword
<1> HIDE DEF z
<1>4. QED
  BY <1>1, <1>2, <1>3, EditKeeps

\* A logout changes the version only.
LEMMA LogoutKeeps ==
  ASSUME LockInv, NEW s \in Session, NEW u \in User, Logout(s, u) PROVE LockInv'
<1> DEFINE z == [user[u] EXCEPT !.version = @ + 1]
<1>1. user[u].exists /\ Shaped(user[u])
  BY DEF Logout, Authenticated, Accepted, LockInv, Counted
<1>2. /\ Shaped(z) /\ z.exists = user[u].exists
      /\ z.failed = user[u].failed /\ z.locked = user[u].locked
  BY <1>1 DEF Shaped, Column
<1>3. Edit(s, "logout", u, z)
  BY DEF Logout
<1> HIDE DEF z
<1>4. QED
  BY <1>1, <1>2, <1>3, EditKeeps

\* update_user: neither the count nor the lock is among what it writes.
LEMMA UpdateKeeps ==
  ASSUME LockInv, NEW s \in Session, NEW u \in User, NEW actor \in User, NEW p \in Payload,
         UpdateUser(s, u, actor, p)
  PROVE  LockInv'
<1> DEFINE op == IF p.password THEN "reset" ELSE "update"
           y == [user[u] EXCEPT !.active = Given(p.active, @), !.roles = Given(p.roles, @),
                                !.warehouses = Given(p.warehouses, @)]
           z == Updated(user[u], p)
<1>1. user[u].exists /\ Shaped(user[u]) /\ Edit(s, op, u, z)
  BY DEF UpdateUser, LockInv
<1>2. /\ Shaped(y) /\ y.exists = user[u].exists
      /\ y.failed = user[u].failed /\ y.locked = user[u].locked
  BY <1>1 DEF Shaped, Column
<1>3. z = IF p.password THEN NewPassword(y, TRUE) ELSE y
  BY DEF Updated
<1> HIDE DEF y, z
<1>4. /\ Shaped(z) /\ z.exists = user[u].exists
      /\ IF p.password THEN z.failed = 0 /\ z.locked = 0
         ELSE z.failed = user[u].failed /\ z.locked = user[u].locked
  BY <1>2, <1>3 DEF NewPassword, Shaped, Column
<1>5. IF op \in {"change_password", "reset"} THEN z.failed = 0 /\ z.locked = 0
      ELSE z.failed = user[u].failed /\ z.locked = user[u].locked
  BY <1>4
<1>6. op # "idle"
  OBVIOUS
<1> HIDE DEF op
<1>7. QED
  BY <1>1, <1>4, <1>5, <1>6, EditKeeps
-----------------------------------------------------------------------------
\* An edit that is written leaves count and lock alone, or clears them for a new
\* password.
LEMMA WriteKeeps ==
  ASSUME LockInv, NEW s \in Session, Write(s) PROVE LockInv'
<1> DEFINE v == session[s]
           password == v.op \in {"change_password", "reset"}
<1>1. v # Idle /\ Harmless(v)
  BY DEF Write, LockInv
<1> PICK u \in User : u = v.user
  BY <1>1 DEF Harmless
<1> DEFINE x == user[u]
           z == ChangedColumns(x, v.seen, v.next)
<1>2. /\ x.exists /\ Shaped(v.seen) /\ Shaped(v.next)
      /\ v.next.exists = v.seen.exists
      /\ IF password THEN v.next.failed = 0 /\ v.next.locked = 0
         ELSE v.next.failed = v.seen.failed /\ v.next.locked = v.seen.locked
  BY <1>1 DEF Harmless
<1>3. Shaped(x) /\ Counted(u)
  BY <1>2 DEF LockInv
<1>4. /\ user' = [user EXCEPT ![u] = z]
      /\ helped' = IF password THEN helped \cup {u} ELSE helped
      /\ UNCHANGED <<now, streak>> /\ session' = [session EXCEPT ![s] = Idle]
  BY DEF Write
<1> HIDE DEF v, x
<1>5. DOMAIN x = Column
  BY <1>3 DEF Shaped
<1>6. /\ z = [c \in Column |-> z[c]] /\ z.exists = x.exists
      /\ z.failed = IF v.next.failed = v.seen.failed THEN x.failed ELSE v.next.failed
      /\ z.locked = IF v.next.locked = v.seen.locked THEN x.locked ELSE v.next.locked
  BY <1>2, <1>5 DEF ChangedColumns, Column
<1> HIDE DEF z
<1>7. /\ z.failed \in {0, x.failed} /\ z.locked \in {0, x.locked}
      /\ ~ password => z.failed = x.failed /\ z.locked = x.locked
  BY <1>2, <1>6
<1>8. Shaped(z)
  BY <1>3, <1>6, <1>7 DEF Shaped
<1>9. user'[u] = z
  BY <1>2, <1>4, OneUser
<1> HIDE DEF password
<1>10. x = user[u] /\ streak \in [User -> Nat]
  BY DEF x, LockInv
<1>11. Counted(u)'
  <2>1. /\ x.failed <= streak[u] /\ (x.locked # 0 => streak[u] >= MaxAttempts)
        /\ u \notin helped => /\ x.failed = streak[u]
                              /\ streak[u] >= MaxAttempts => x.locked # 0
    BY <1>3, <1>10 DEF Counted
  <2>2. user'[u].failed <= streak'[u]
    BY <1>2, <1>4, <1>7, <1>9, <1>10, <2>1
  <2>3. user'[u].locked # 0 => streak'[u] >= MaxAttempts
    BY <1>4, <1>7, <1>9, <2>1
  <2>4. u \notin helped' => /\ user'[u].failed = streak'[u]
                            /\ streak'[u] >= MaxAttempts => user'[u].locked # 0
    BY <1>4, <1>7, <1>9, <2>1
  <2>5. user'[u].exists
    BY <1>2, <1>6, <1>9
  <2>6. QED
    BY <2>2, <2>3, <2>4, <2>5 DEF Counted
<1>12. \A w \in User \ {u} : streak'[w] = streak[w] /\ (w \in helped' <=> w \in helped)
  BY <1>4
<1>13. /\ session' = [r \in Session |-> session'[r]]
       /\ \A r \in Session : session'[r] \in {session[r], Idle}
  BY <1>4 DEF LockInv
<1>14. streak' \in [User -> Nat] /\ (user[u].exists => z.exists)
  BY <1>4, <1>2, <1>6, <1>10
<1>15. QED
  BY <1>2, <1>4, <1>8, <1>11, <1>12, <1>13, <1>14, OneUserChanged

\* An edit that is given up.
LEMMA RollbackKeeps ==
  ASSUME LockInv, NEW s \in Session, Rollback(s) PROVE LockInv'
<1>1. session' = [session EXCEPT ![s] = Idle] /\ UNCHANGED <<user, streak, helped, now>>
  BY DEF Rollback, history
<1>2. /\ session' = [r \in Session |-> session'[r]] /\ now' \in Nat
      /\ \A r \in Session : session'[r] = IF r = s THEN Idle ELSE session[r]
  BY <1>1 DEF LockInv
<1>3. \A r \in Session : Harmless(session[r]) /\ Harmless(Idle)
  BY DEF LockInv, Harmless
<1>4. \A r \in Session : Harmless(session'[r])
  BY <1>2, <1>3
<1>5. QED
  BY <1>1, <1>2, <1>4, RowsKept

\* A user that is created has tried no password: a wrong one counts only for an
\* active user, and those exist.
LEMMA CreateKeeps ==
  ASSUME LockInv, NEW u \in User, NEW actor \in User, NEW p \in Payload,
         CreateUser(u, actor, p)
  PROVE  LockInv'
<1> DEFINE z == [Absent EXCEPT !.exists = TRUE, !.active = TRUE, !.must = TRUE,
                               !.roles = p.roles, !.warehouses = p.warehouses]
<1>1. user' = [user EXCEPT ![u] = z] /\ UNCHANGED <<now, session, streak, helped>>
  BY DEF CreateUser
<1>2. Shaped(z) /\ z.exists /\ z.failed = 0 /\ z.locked = 0
  BY DEF Absent, Shaped, Column
<1> HIDE DEF z
<1>3. user'[u] = z /\ streak[u] = 0
  BY <1>1, OneUser DEF CreateUser, LockInv, Counted
<1>4. Counted(u)'
  BY <1>1, <1>2, <1>3, Limits DEF Counted
<1>5. /\ session' = [r \in Session |-> session'[r]] /\ streak' \in [User -> Nat]
      /\ \A r \in Session : session'[r] \in {session[r], Idle}
  BY <1>1 DEF LockInv
<1>6. QED
  BY <1>1, <1>2, <1>4, <1>5, OneUserChanged

\* A warehouse that is deleted leaves count and lock of every user.
LEMMA DeleteKeeps ==
  ASSUME LockInv, NEW w \in Warehouse, DeleteWarehouse(w) PROVE LockInv'
<1>1. /\ user' = [u \in User |-> [user[u] EXCEPT !.warehouses = @ \ {w}]]
      /\ UNCHANGED <<now, session, streak, helped>>
  BY DEF DeleteWarehouse
<1>2. \A u \in User : Shaped(user[u]) /\ Counted(u)
  BY DEF LockInv
<1>3. \A u \in User : /\ user'[u] = [user[u] EXCEPT !.warehouses = @ \ {w}]
                      /\ Shaped(user'[u])
                      /\ \A c \in Column \ {"warehouses"} : user'[u][c] = user[u][c]
  BY <1>1, <1>2 DEF Shaped, Column
<1>4. \A u \in User : /\ user'[u].failed = user[u].failed /\ user'[u].locked = user[u].locked
                      /\ user'[u].exists = user[u].exists /\ user'[u].active = user[u].active
  BY <1>3 DEF Column
<1>5. \A u \in User : Counted(u)'
  BY <1>1, <1>2, <1>4 DEF Counted
<1>6. \A s \in Session : Harmless(session[s])'
  BY <1>1, <1>4 DEF LockInv, Harmless
<1>7. user' = [u \in User |-> user'[u]]
  BY <1>1
<1>8. QED
  BY <1>1, <1>3, <1>5, <1>6, <1>7 DEF LockInv

\* Time passes.
LEMMA TickKeeps == ASSUME LockInv, Tick PROVE LockInv'
  BY RowsKept DEF Tick, history, LockInv
\* Every step keeps it.
LEMMA LockStep == ASSUME LockInv, [Next]_vars PROVE LockInv'
<1>1. ASSUME NEW u \in User, WrongPassword(u) \/ RightPassword(u) PROVE LockInv'
  BY <1>1, WrongKeeps, RightKeeps
<1>2. CASE Tick
  BY <1>2, TickKeeps
<1>3. ASSUME NEW s \in Session, NEW u \in User, ChangePassword(s, u) \/ Logout(s, u)
      PROVE  LockInv'
  BY <1>3, ChangePasswordKeeps, LogoutKeeps
<1>4. ASSUME NEW s \in Session, NEW u \in User, NEW actor \in User, NEW p \in Payload,
             UpdateUser(s, u, actor, p)
      PROVE  LockInv'
  BY <1>4, UpdateKeeps
<1>5. ASSUME NEW s \in Session, Write(s) \/ Rollback(s) PROVE LockInv'
  BY <1>5, WriteKeeps, RollbackKeeps
<1>6. ASSUME NEW u \in User, NEW actor \in User, NEW p \in Payload, CreateUser(u, actor, p)
      PROVE  LockInv'
  BY <1>6, CreateKeeps
<1>7. ASSUME NEW w \in Warehouse, DeleteWarehouse(w) PROVE LockInv'
  BY <1>7, DeleteKeeps
<1>8. CASE UNCHANGED vars
  <2>1. UNCHANGED <<user, streak, helped, now, session>>
    BY <1>8 DEF vars
  <2>2. QED
    BY <2>1, RowsKept DEF LockInv
<1>9. QED
  BY <1>1, <1>2, <1>3, <1>4, <1>5, <1>6, <1>7, <1>8 DEF Next

\* An account is locked exactly after MaxAttempts wrong passwords in a row, for
\* any users, sessions, edits and limits of login (auth.login, users_service).
THEOREM LockEarned == Spec => []LockIsEarned
<1>1. Init => LockInv
  BY LockInit
<1>2. LockInv /\ [Next]_vars => LockInv'
  BY LockStep
<1>3. LockInv => LockIsEarned
  BY DEF LockInv, Counted, LockIsEarned
<1>4. QED
  BY <1>1, <1>2, <1>3, PTL DEF Spec
-----------------------------------------------------------------------------
(* Edits of accounts that do not overlap *)

\* The edits that are open.
Open(edits) == {s \in Session : edits[s] # Idle}

\* What an edit will write follows from what it has read.
Follows(v) ==
  v # Idle =>
    /\ v.user \in User /\ v.seen.version \in Nat
    /\ v.next.version = IF v.op = "update" THEN v.seen.version ELSE v.seen.version + 1
    /\ v.seen.roles \subseteq Role /\ v.next.roles \subseteq Role
    /\ v.op = "reset" => v.next.must = TRUE
    /\ v.op \in {"update", "logout"} => v.next.must = v.seen.must
    /\ \/ v.op \in {"update", "reset"} /\ ValidAssignment(v.next.roles, v.next.warehouses)
       \/ v.next.roles = v.seen.roles /\ v.next.warehouses = v.seen.warehouses
    /\ v.op \in {"change_password", "logout", "update", "reset"}

\* The account of u, when no two edits of it have overlapped.
Orderly(u) ==
  /\ user[u].version = revoked[u]
  /\ \A t \in tokens : t.user = u => t.version = t.revoked
  /\ u \in temporary => user[u].must = TRUE
  /\ ValidAssignment(user[u].roles, user[u].warehouses)

\* A row of users, as far as its edits are concerned.
Kept(u) ==
  /\ user[u].roles \subseteq Role /\ user[u].warehouses \subseteq warehouse
  /\ user[u].locked <= MaxTime + LockTime
  /\ user[u].version \in 0 .. requests
  /\ ~ user[u].exists => user[u].version = 0

\* The inductive invariant of the edits, beside LockInv.
EditInv ==
  /\ now \in 1 .. MaxTime /\ requests \in Nat
  /\ warehouse \subseteq Warehouse
  /\ tokens \subseteq [user : User, version : Nat, revoked : Nat]
  /\ revoked \in [User -> Nat]
  /\ \A u \in User : revoked[u] + Cardinality(Open(session)) <= requests
  /\ \A u \in User : Kept(u)
  /\ \A u \in User \ overlapped : Orderly(u)
  /\ \A s \in Session : /\ Follows(session[s])
                        /\ session[s] # Idle => session[s].next.version <= requests
-----------------------------------------------------------------------------
\* The open edits can be counted.
LEMMA OpenIsCounted ==
  ASSUME NEW edits
  PROVE  IsFiniteSet(Open(edits)) /\ Cardinality(Open(edits)) \in Nat
BY Sessions, FS_Subset, FS_CardinalityType DEF Open

\* Edits that end leave fewer open.
LEMMA FewerOpen ==
  ASSUME NEW edits, NEW edits2, \A s \in Session : edits2[s] \in {edits[s], Idle}
  PROVE  Cardinality(Open(edits2)) <= Cardinality(Open(edits))
<1>1. Open(edits2) \subseteq Open(edits)
  BY DEF Open
<1>2. QED
  BY <1>1, OpenIsCounted, FS_Subset

\* A session that ends leaves one edit less.
LEMMA OneLessOpen ==
  ASSUME LockInv, NEW s \in Session, session[s] # Idle, session' = [session EXCEPT ![s] = Idle]
  PROVE  Cardinality(Open(session')) = Cardinality(Open(session)) - 1
<1>1. \A r \in Session : session'[r] = IF r = s THEN Idle ELSE session[r]
  BY DEF LockInv
<1>2. Open(session') = Open(session) \ {s} /\ s \in Open(session)
  BY <1>1 DEF Open
<1>3. QED
  BY <1>2, OpenIsCounted, FS_RemoveElement

\* A session that begins is one edit more.
LEMMA OneMoreOpen ==
  ASSUME LockInv, NEW s \in Session, session[s] = Idle, NEW v, v # Idle,
         session' = [session EXCEPT ![s] = v]
  PROVE  Cardinality(Open(session')) = Cardinality(Open(session)) + 1
<1>1. \A r \in Session : session'[r] = IF r = s THEN v ELSE session[r]
  BY DEF LockInv
<1>2. Open(session') = Open(session) \cup {s} /\ s \notin Open(session)
  BY <1>1 DEF Open
<1>3. QED
  BY <1>2, OpenIsCounted, FS_AddElement

\* One row changes, and at most edits end.
LEMMA RowEdited ==
  ASSUME LockInv, EditInv, NEW u \in User, NEW z, user' = [user EXCEPT ![u] = z],
         UNCHANGED <<now, warehouse, requests>>,
         \A s \in Session : session'[s] \in {session[s], Idle},
         revoked' \in [User -> Nat], tokens' \subseteq [user : User, version : Nat, revoked : Nat],
         revoked'[u] + Cardinality(Open(session')) <= requests,
         Kept(u)', u \notin overlapped' => Orderly(u)', overlapped \subseteq overlapped',
         \A w \in User \ {u} : /\ revoked'[w] = revoked[w]
                               /\ w \in temporary' => w \in temporary
                               /\ \A t \in tokens' : t.user = w => t \in tokens
  PROVE  EditInv'
<1>1. \A w \in User \ {u} : user'[w] = user[w]
  BY OneUser
<1>2. \A w \in User : Kept(w)'
  <2>1. ASSUME NEW w \in User \ {u} PROVE Kept(w)'
    BY <1>1 DEF EditInv, Kept
  <2>2. QED
    BY <2>1
<1>3. \A w \in User \ overlapped' : Orderly(w)'
  <2>1. ASSUME NEW w \in User \ {u}, w \notin overlapped' PROVE Orderly(w)'
    <3>1. Orderly(w)
      BY <2>1 DEF EditInv
    <3>2. QED
      BY <1>1, <3>1 DEF Orderly
  <2>2. QED
    BY <2>1
<1>4. \A w \in User : revoked'[w] + Cardinality(Open(session')) <= requests
  <2>1. ASSUME NEW w \in User \ {u}
        PROVE  revoked'[w] + Cardinality(Open(session')) <= requests
    <3>1. Cardinality(Open(session')) <= Cardinality(Open(session))
      BY FewerOpen
    <3>2. revoked[w] + Cardinality(Open(session)) <= requests /\ revoked[w] \in Nat
      BY DEF EditInv
    <3>3. requests \in Nat
      BY DEF EditInv
    <3>4. QED
      BY <3>1, <3>2, <3>3, OpenIsCounted
  <2>2. QED
    BY <2>1
<1>5. \A s \in Session : /\ Follows(session'[s])
                         /\ session'[s] # Idle => session'[s].next.version <= requests
  <2>1. Follows(Idle)
    BY DEF Follows
  <2>2. QED
    BY <2>1 DEF EditInv
<1>6. QED
  BY <1>2, <1>3, <1>4, <1>5 DEF EditInv

\* What an edit looks at stays as it is while passwords are tried.
LEMMA LoginEdits ==
  ASSUME LockInv, EditInv, NEW u \in User, WrongPassword(u) \/ RightPassword(u)
  PROVE  EditInv'
<1> DEFINE x == user[u]
           Tried(z) == /\ user' = [user EXCEPT ![u] = z]
                       /\ z.version = x.version /\ z.must = x.must /\ z.roles = x.roles
                       /\ z.warehouses = x.warehouses /\ z.exists = x.exists
                       /\ z.locked <= MaxTime + LockTime
<1>1. Shaped(x) /\ Kept(u) /\ now \in 1 .. MaxTime
  BY DEF LockInv, EditInv
<1>2. \E z : Tried(z)
  <2>1. CASE WrongPassword(u)
    <3> DEFINE y == Expired(x)
               n == y.failed + 1
               k == IF n >= MaxAttempts THEN now + LockTime ELSE y.locked
               z == [y EXCEPT !.failed = n, !.locked = k]
    <3>1. /\ Shaped(y) /\ y.version = x.version /\ y.must = x.must /\ y.roles = x.roles
          /\ y.warehouses = x.warehouses /\ y.exists = x.exists /\ y.locked = 0
      BY <1>1 DEF Shaped, Expired, Column
    <3>2. k <= MaxTime + LockTime
      BY <1>1, <3>1, Limits, Bounds
    <3>3. user' = [user EXCEPT ![u] = z]
      BY <2>1 DEF WrongPassword
    <3>4. /\ z.version = y.version /\ z.must = y.must /\ z.roles = y.roles
          /\ z.warehouses = y.warehouses /\ z.exists = y.exists /\ z.locked = k
      <4> HIDE DEF y, n, k
      <4>1. QED
        BY <3>1 DEF Shaped, Column
    <3> HIDE DEF x, y, k, z
    <3>5. Tried(z)
      BY <3>1, <3>2, <3>3, <3>4
    <3>6. QED
      BY <3>5
  <2>2. CASE RightPassword(u)
    <3> DEFINE z == [x EXCEPT !.failed = 0, !.locked = 0]
    <3>1. user' = [user EXCEPT ![u] = z]
      BY <1>1, <2>2 DEF RightPassword, Shaped, Column, LockInv
    <3>2. /\ z.version = x.version /\ z.must = x.must /\ z.roles = x.roles
          /\ z.warehouses = x.warehouses /\ z.exists = x.exists /\ z.locked = 0
      BY <1>1 DEF Shaped, Column
    <3>3. 0 <= MaxTime + LockTime
      BY Limits, Bounds
    <3> HIDE DEF x, z
    <3>4. Tried(z)
      BY <3>1, <3>2, <3>3
    <3>5. QED
      BY <3>4
  <2>3. QED
    BY <2>1, <2>2
<1>3. PICK z : Tried(z)
  BY <1>2
<1>4. user'[u] = z
  BY <1>3, OneUser
<1>5. /\ UNCHANGED <<warehouse, now, session, revoked, temporary, overlapped, requests>>
      /\ \A t \in tokens' : t \in tokens \/ t = [user |-> u, version |-> x.version,
                                                 revoked |-> revoked[u]]
  BY DEF WrongPassword, RightPassword
<1>6. revoked \in [User -> Nat] /\ x.version \in Nat
  BY <1>1 DEF EditInv, Kept
<1>7. tokens' \subseteq [user : User, version : Nat, revoked : Nat]
  BY <1>5, <1>6 DEF EditInv
<1>8. Kept(u)'
  BY <1>1, <1>3, <1>4, <1>5 DEF Kept
<1>9. u \notin overlapped' => Orderly(u)'
  <2>1. ASSUME u \notin overlapped PROVE Orderly(u)'
    <3>1. Orderly(u)
      BY <2>1 DEF EditInv
    <3>2. \A t \in tokens' : t.user = u => t.version = t.revoked
      BY <1>5, <3>1 DEF Orderly
    <3>3. QED
      BY <1>3, <1>4, <1>5, <3>1, <3>2 DEF Orderly
  <2>2. QED
    BY <1>5, <2>1
<1>10. \A w \in User \ {u} : \A t \in tokens' : t.user = w => t \in tokens
  BY <1>5
<1>11. revoked'[u] + Cardinality(Open(session')) <= requests
  BY <1>5 DEF EditInv
<1>12. user' = [user EXCEPT ![u] = z]
  BY <1>3
<1> HIDE DEF Tried, x
<1>13. QED
  BY <1>5, <1>6, <1>7, <1>8, <1>9, <1>10, <1>11, <1>12, RowEdited

\* An edit that is opened has read its user: what it will write follows.
LEMMA OpenedEdits ==
  ASSUME LockInv, EditInv, NEW s \in Session, NEW op, NEW u \in User, NEW goal,
         Edit(s, op, u, goal),
         op \in {"change_password", "logout", "update", "reset"},
         goal.version = (IF op = "update" THEN user[u].version ELSE user[u].version + 1),
         goal.roles \subseteq Role,
         op = "reset" => goal.must = TRUE,
         op \in {"update", "logout"} => goal.must = user[u].must,
         \/ op \in {"update", "reset"} /\ ValidAssignment(goal.roles, goal.warehouses)
         \/ goal.roles = user[u].roles /\ goal.warehouses = user[u].warehouses
  PROVE  EditInv'
<1> DEFINE v == [op |-> op, user |-> u, seen |-> user[u], next |-> goal]
<1>1. /\ session[s] = Idle /\ session' = [session EXCEPT ![s] = v] /\ requests' = requests + 1
      /\ UNCHANGED <<user, warehouse, now, tokens, revoked, temporary, overlapped>>
  BY DEF Edit, history
<1>2. Kept(u) /\ requests \in Nat
  BY DEF EditInv
<1>3. v # Idle /\ Follows(v) /\ v.next.version <= requests + 1
  <2>1. v.op = op /\ v.user = u /\ v.seen = user[u] /\ v.next = goal
    OBVIOUS
  <2>2. v # Idle
    BY <2>1 DEF Idle
  <2>3. user[u].version \in Nat /\ user[u].version <= requests /\ user[u].roles \subseteq Role
    BY <1>2 DEF Kept
  <2> HIDE DEF v
  <2>4. Follows(v)
    BY <2>1, <2>3 DEF Follows
  <2>5. QED
    BY <1>2, <2>1, <2>2, <2>3, <2>4
<1> HIDE DEF v
<1>4. \A r \in Session : session'[r] = IF r = s THEN v ELSE session[r]
  BY <1>1 DEF LockInv
<1>5. Cardinality(Open(session')) = Cardinality(Open(session)) + 1
  BY <1>1, <1>3, OneMoreOpen
<1>6. \A w \in User : revoked'[w] + Cardinality(Open(session')) <= requests'
  <2>1. \A w \in User : /\ revoked[w] + Cardinality(Open(session)) <= requests
                        /\ revoked[w] \in Nat
    BY DEF EditInv
  <2>2. QED
    BY <1>1, <1>2, <1>5, <2>1, OpenIsCounted
<1>7. \A w \in User : Kept(w)'
  BY <1>1, <1>2 DEF EditInv, Kept
<1>8. \A w \in User \ overlapped' : Orderly(w)'
  BY <1>1 DEF EditInv, Orderly
<1>9. \A r \in Session : /\ Follows(session'[r])
                         /\ session'[r] # Idle => session'[r].next.version <= requests'
  <2>1. ASSUME NEW r \in Session, r # s
        PROVE  /\ Follows(session[r])
               /\ session[r] # Idle => session[r].next.version <= requests + 1
    <3>1. /\ Follows(session[r])
          /\ session[r] # Idle => session[r].next.version <= requests
      BY DEF EditInv
    <3>2. session[r] # Idle => session[r].next.version \in Nat
      BY <3>1 DEF Follows
    <3>3. QED
      BY <1>2, <3>1, <3>2
  <2>2. QED
    BY <1>1, <1>3, <1>4, <2>1
<1>10. /\ now' \in 1 .. MaxTime /\ requests' \in Nat /\ warehouse' \subseteq Warehouse
       /\ tokens' \subseteq [user : User, version : Nat, revoked : Nat]
       /\ revoked' \in [User -> Nat]
  BY <1>1, <1>2 DEF EditInv
<1>11. QED
  BY <1>6, <1>7, <1>8, <1>9, <1>10 DEF EditInv

\* A new password and a logout raise the version read, and leave roles alone.
LEMMA OwnEdits ==
  ASSUME LockInv, EditInv, NEW s \in Session, NEW u \in User,
         ChangePassword(s, u) \/ Logout(s, u)
  PROVE  EditInv'
<1>1. Shaped(user[u]) /\ user[u].roles \subseteq Role
  BY DEF LockInv, EditInv, Kept
<1>2. CASE ChangePassword(s, u)
  <2> DEFINE z == NewPassword(user[u], FALSE)
  <2>1. Edit(s, "change_password", u, z)
    BY <1>2 DEF ChangePassword
  <2>2. /\ z.version = user[u].version + 1
        /\ z.roles = user[u].roles /\ z.warehouses = user[u].warehouses
    BY <1>1 DEF NewPassword, Shaped, Column
  <2> HIDE DEF z
  <2>3. QED
    BY <1>1, <2>1, <2>2, OpenedEdits
<1>3. CASE Logout(s, u)
  <2> DEFINE z == [user[u] EXCEPT !.version = @ + 1]
  <2>1. Edit(s, "logout", u, z)
    BY <1>3 DEF Logout
  <2>2. /\ z.version = user[u].version + 1 /\ z.must = user[u].must
        /\ z.roles = user[u].roles /\ z.warehouses = user[u].warehouses
    BY <1>1 DEF Shaped, Column
  <2> HIDE DEF z
  <2>3. QED
    BY <1>1, <2>1, <2>2, OpenedEdits
<1>4. QED
  BY <1>2, <1>3

\* update_user keeps the version, or raises it by one, and checks the roles.
LEMMA UpdateEdits ==
  ASSUME LockInv, EditInv, NEW s \in Session, NEW u \in User, NEW actor \in User,
         NEW p \in Payload, UpdateUser(s, u, actor, p)
  PROVE  EditInv'
<1> DEFINE op == IF p.password THEN "reset" ELSE "update"
           roles == Given(p.roles, user[u].roles)
           places == Given(p.warehouses, user[u].warehouses)
           active == Given(p.active, user[u].active)
           y == [user[u] EXCEPT !.active = active, !.roles = roles, !.warehouses = places]
           z == Updated(user[u], p)
<1>1. Shaped(user[u]) /\ user[u].roles \subseteq Role
  BY DEF LockInv, EditInv, Kept
<1>2. Edit(s, op, u, z) /\ ValidAssignment(roles, places)
  <2>1. Edit(s, op, u, z)
    BY DEF UpdateUser
  <2>2. Assignable(user[u], p)
    BY DEF UpdateUser
  <2>3. QED
    BY <2>1, <2>2 DEF Assignable
<1>3. roles \subseteq Role
  BY <1>1, Bodies DEF Given
<1>4. z = IF p.password THEN NewPassword(y, TRUE) ELSE y
  BY <1>1 DEF Updated, Shaped, Column
<1> HIDE DEF roles, places, active, z
<1>5. /\ y.roles = roles /\ y.warehouses = places /\ y.version = user[u].version
      /\ y.must = user[u].must /\ Shaped(y)
  BY <1>1 DEF Shaped, Column
<1> HIDE DEF y
<1>6. /\ z.roles = roles /\ z.warehouses = places
      /\ p.password => z.version = user[u].version + 1 /\ z.must = TRUE
      /\ ~ p.password => z.version = user[u].version /\ z.must = user[u].must
  <2>1. CASE p.password
    BY <1>4, <1>5, <2>1 DEF NewPassword, Shaped, Column
  <2>2. CASE ~ p.password
    BY <1>4, <1>5, <2>2
  <2>3. QED
    BY <2>1, <2>2
<1>7. /\ op \in {"update", "reset"} /\ (op = "reset" <=> p.password)
  OBVIOUS
<1> HIDE DEF op
<1>8. z.version = (IF op = "update" THEN user[u].version ELSE user[u].version + 1)
  BY <1>6, <1>7
<1>9. ValidAssignment(z.roles, z.warehouses) /\ z.roles \subseteq Role
  BY <1>2, <1>3, <1>6
<1>10. (op = "reset" => z.must = TRUE) /\ (op \in {"update", "logout"} => z.must = user[u].must)
  BY <1>6, <1>7
<1>11. QED
  BY <1>2, <1>7, <1>8, <1>9, <1>10, OpenedEdits

\* An edit that is given up, and time that passes.
LEMMA OtherEdits ==
  ASSUME LockInv, EditInv,
         Tick \/ (\E s \in Session : Rollback(s)) \/ UNCHANGED vars
  PROVE  EditInv'
<1>1. /\ now' \in 1 .. MaxTime
      /\ UNCHANGED <<user, warehouse, tokens, history, requests>>
  BY Bounds DEF EditInv, Tick, Rollback, vars, history
<1>2. \A s \in Session : session'[s] \in {session[s], Idle}
  BY DEF Tick, Rollback, vars, LockInv
<1>3. Cardinality(Open(session')) <= Cardinality(Open(session))
  BY <1>2, FewerOpen
<1>4. \A w \in User : revoked'[w] + Cardinality(Open(session')) <= requests'
  <2>1. \A w \in User : /\ revoked[w] + Cardinality(Open(session)) <= requests
                        /\ revoked[w] \in Nat
    BY DEF EditInv
  <2>2. requests \in Nat
    BY DEF EditInv
  <2>3. QED
    BY <1>1, <1>3, <2>1, <2>2, OpenIsCounted DEF history
<1>5. \A w \in User : Kept(w)'
  BY <1>1 DEF EditInv, Kept, history
<1>6. \A w \in User \ overlapped' : Orderly(w)'
  BY <1>1 DEF EditInv, Orderly, history
<1>7. \A s \in Session : /\ Follows(session'[s])
                         /\ session'[s] # Idle => session'[s].next.version <= requests'
  <2>1. Follows(Idle)
    BY DEF Follows
  <2>2. QED
    BY <1>1, <1>2, <2>1 DEF EditInv
<1>8. QED
  BY <1>1, <1>4, <1>5, <1>6, <1>7 DEF EditInv, history

\* A new user has a temporary password and nothing to be revoked.
LEMMA CreateEdits ==
  ASSUME LockInv, EditInv, NEW u \in User, NEW actor \in User, NEW p \in Payload,
         CreateUser(u, actor, p)
  PROVE  EditInv'
<1> DEFINE z == [Absent EXCEPT !.exists = TRUE, !.active = TRUE, !.must = TRUE,
                               !.roles = p.roles, !.warehouses = p.warehouses]
<1>1. /\ user' = [user EXCEPT ![u] = z]
      /\ UNCHANGED <<warehouse, now, tokens, session, revoked, overlapped, requests>>
      /\ temporary' = temporary \cup {u} /\ ~ user[u].exists
      /\ p.roles # Unset /\ p.warehouses \subseteq warehouse
      /\ ValidAssignment(p.roles, p.warehouses)
  BY DEF CreateUser
<1>2. /\ z.roles = p.roles /\ z.warehouses = p.warehouses /\ z.locked = 0 /\ z.version = 0
      /\ z.must = TRUE /\ z.exists
  <2>1. z.roles = p.roles /\ z.warehouses = p.warehouses /\ z.locked = 0 /\ z.version = 0
    BY DEF Absent
  <2>2. z.must = TRUE
    BY DEF Absent
  <2>3. z.exists
    BY DEF Absent
  <2>4. QED
    BY <2>1, <2>2, <2>3
<1>3. p.roles \subseteq Role
  BY <1>1, Bodies
<1> HIDE DEF z
<1>4. user'[u] = z
  BY <1>1, OneUser
<1>5. requests \in Nat /\ Kept(u)
  BY DEF EditInv
<1>6. Kept(u)'
  BY <1>1, <1>2, <1>3, <1>4, <1>5, Limits, Bounds DEF Kept
<1>7. u \notin overlapped' => Orderly(u)'
  <2>1. ASSUME u \notin overlapped PROVE Orderly(u)'
    <3>1. Orderly(u) /\ user[u].version = 0
      BY <1>1, <1>5, <2>1 DEF EditInv, Kept
    <3>2. QED
      BY <1>1, <1>2, <1>4, <3>1 DEF Orderly
  <2>2. QED
    BY <1>1, <2>1
<1>8. /\ revoked' \in [User -> Nat] /\ revoked'[u] + Cardinality(Open(session')) <= requests
      /\ tokens' \subseteq [user : User, version : Nat, revoked : Nat]
  BY <1>1 DEF EditInv
<1>9. QED
  BY <1>1, <1>6, <1>7, <1>8, RowEdited

\* Who has worked in the warehouse counts as edited by somebody else.
LEMMA DeleteEdits ==
  ASSUME LockInv, EditInv, NEW w \in Warehouse, DeleteWarehouse(w)
  PROVE  EditInv'
<1>1. /\ user' = [u \in User |-> [user[u] EXCEPT !.warehouses = @ \ {w}]]
      /\ warehouse' = warehouse \ {w}
      /\ overlapped' = overlapped \cup {u \in User : w \in user[u].warehouses}
      /\ UNCHANGED <<now, tokens, session, streak, helped, revoked, temporary, requests>>
  BY DEF DeleteWarehouse
<1>2. \A u \in User : /\ user'[u].warehouses = user[u].warehouses \ {w}
                      /\ user'[u].roles = user[u].roles /\ user'[u].must = user[u].must
                      /\ user'[u].version = user[u].version /\ user'[u].locked = user[u].locked
                      /\ user'[u].exists = user[u].exists
  <2>1. \A u \in User : Shaped(user[u])
    BY DEF LockInv
  <2>2. QED
    BY <1>1, <2>1 DEF Shaped, Column
<1>3. ASSUME NEW u \in User PROVE Kept(u)'
  <2>1. Kept(u)
    BY DEF EditInv
  <2>2. user[u].warehouses \ {w} \subseteq warehouse \ {w}
    BY <2>1 DEF Kept
  <2>3. QED
    BY <1>1, <1>2, <2>1, <2>2 DEF Kept
<1>4. \A u \in User \ overlapped' : Orderly(u)'
  <2>1. ASSUME NEW u \in User \ overlapped' PROVE Orderly(u)'
    <3>1. u \notin overlapped /\ w \notin user[u].warehouses
      BY <1>1, <2>1
    <3>2. Orderly(u) /\ user[u].warehouses \ {w} = user[u].warehouses
      BY <3>1 DEF EditInv
    <3>3. QED
      BY <1>1, <1>2, <3>2 DEF Orderly
  <2>2. QED
    BY <2>1
<1>5. QED
  BY <1>1, <1>3, <1>4 DEF EditInv

\* What nobody else has touched becomes what the edit says.
LEMMA RelationIs == ASSUME NEW seen, NEW goal PROVE Relation(seen, seen, goal) = goal
BY DEF Relation

\* An edit is written: unless the row is not what it was, its columns follow.
LEMMA WriteEdits ==
  ASSUME LockInv, EditInv, NEW s \in Session, Write(s)
  PROVE  EditInv'
<1> DEFINE v == session[s]
<1>1. v # Idle /\ Harmless(v) /\ Follows(v) /\ v.next.version <= requests
  BY DEF Write, LockInv, EditInv
<1> PICK u \in User : u = v.user
  BY <1>1 DEF Harmless
<1> DEFINE x == user[u]
           z == ChangedColumns(x, v.seen, v.next)
<1>2. /\ x.exists /\ v.next.exists = v.seen.exists
      /\ v.next.locked = 0 \/ v.next.locked = v.seen.locked
  BY <1>1 DEF Harmless
<1>3. Shaped(x) /\ Kept(u) /\ requests \in Nat /\ revoked \in [User -> Nat]
  BY DEF LockInv, EditInv
<1>4. /\ user' = [user EXCEPT ![u] = z] /\ session' = [session EXCEPT ![s] = Idle]
      /\ revoked' = IF v.op = "update" THEN revoked ELSE [revoked EXCEPT ![u] = @ + 1]
      /\ UNCHANGED <<warehouse, now, tokens, requests>>
      /\ v.next.warehouses \ v.seen.warehouses \subseteq warehouse
  BY DEF Write
<1>5. /\ temporary' = CASE v.op = "reset" -> temporary \cup {u}
                        [] v.op = "change_password" -> temporary \ {u}
                        [] OTHER -> temporary
      /\ overlapped' = IF Stale(x, v.seen) THEN overlapped \cup {u} ELSE overlapped
  BY DEF Write
<1> DEFINE seen == v.seen
           goal == v.next
<1>6. /\ goal.version = IF v.op = "update" THEN seen.version ELSE seen.version + 1
      /\ seen.version \in Nat /\ goal.version <= requests
      /\ seen.roles \subseteq Role /\ goal.roles \subseteq Role
      /\ v.op \in {"change_password", "logout", "update", "reset"}
      /\ v.op = "reset" => goal.must = TRUE
      /\ v.op \in {"update", "logout"} => goal.must = seen.must
      /\ \/ ValidAssignment(goal.roles, goal.warehouses)
         \/ goal.roles = seen.roles /\ goal.warehouses = seen.warehouses
  BY <1>1 DEF Follows
<1>7. /\ z.version = IF goal.version = seen.version THEN x.version ELSE goal.version
      /\ z.must = IF goal.must = seen.must THEN x.must ELSE goal.must
      /\ z.exists = IF goal.exists = seen.exists THEN x.exists ELSE goal.exists
      /\ z.locked = IF goal.locked = seen.locked THEN x.locked ELSE goal.locked
      /\ z.roles = Relation(x.roles, seen.roles, goal.roles)
      /\ z.warehouses = Relation(x.warehouses, seen.warehouses, goal.warehouses)
  <2>1. DOMAIN x = Column
    BY <1>3 DEF Shaped
  <2> HIDE DEF v, x, seen, goal
  <2>2. z = [c \in Column |->
               CASE c \in {"roles", "warehouses"} -> Relation(x[c], seen[c], goal[c])
                 [] OTHER -> IF goal[c] = seen[c] THEN x[c] ELSE goal[c]]
    BY <2>1 DEF ChangedColumns, seen, goal
  <2> HIDE DEF z
  <2>3. QED
    BY <2>2 DEF Column
<1> HIDE DEF v, z, seen, goal
<1>8. user'[u] = z
  BY <1>4, OneUser
<1>9. Kept(u)'
  <2>1. z.roles \subseteq Role
    BY <1>3, <1>6, <1>7 DEF Relation, Kept
  <2>2. z.warehouses \subseteq warehouse
    BY <1>3, <1>4, <1>7 DEF Relation, Kept, seen, goal
  <2>3. z.locked <= MaxTime + LockTime
    BY <1>2, <1>3, <1>7, Limits, Bounds DEF Kept, seen, goal
  <2>4. z.version \in 0 .. requests
    BY <1>3, <1>6, <1>7 DEF Kept
  <2>5. z.exists
    BY <1>2, <1>7 DEF seen, goal
  <2>6. QED
    BY <1>4, <1>8, <2>1, <2>2, <2>3, <2>4, <2>5 DEF Kept
<1>10. u \notin overlapped' => Orderly(u)'
  <2> SUFFICES ASSUME u \notin overlapped' PROVE Orderly(u)'
    OBVIOUS
  <2>1. u \notin overlapped /\ ~ Stale(x, seen)
    BY <1>5 DEF seen
  <2>2. Orderly(u)
    BY <2>1 DEF EditInv
  <2>3. /\ x.version = seen.version /\ x.must = seen.must /\ x.roles = seen.roles
        /\ x.warehouses = seen.warehouses
    BY <1>3, <2>1 DEF Stale, Shaped, Column
  <2>4. z.version = revoked'[u]
    <3>1. x.version = revoked[u] /\ revoked[u] \in Nat
      BY <1>3, <2>2 DEF Orderly
    <3>2. QED
      BY <1>3, <1>4, <1>6, <1>7, <2>3, <3>1
  <2>5. u \in temporary' => z.must = TRUE
    <3>1. u \in temporary => x.must = TRUE
      BY <2>2 DEF Orderly
    <3>2. z.must = goal.must
      BY <1>7, <2>3
    <3>3. CASE v.op = "reset"
      BY <1>6, <3>2, <3>3
    <3>4. CASE v.op = "change_password"
      BY <1>5, <3>4
    <3>5. CASE v.op \in {"update", "logout"}
      BY <1>5, <1>6, <2>3, <3>1, <3>2, <3>5
    <3>6. QED
      BY <1>6, <3>3, <3>4, <3>5
  <2>6. ValidAssignment(z.roles, z.warehouses)
    <3>1. z.roles = goal.roles /\ z.warehouses = goal.warehouses
      BY <1>7, <2>3, RelationIs
    <3>2. ValidAssignment(x.roles, x.warehouses)
      BY <2>2 DEF Orderly
    <3>3. QED
      BY <1>6, <2>3, <3>1, <3>2
  <2>7. \A t \in tokens' : t.user = u => t.version = t.revoked
    BY <1>4, <2>2 DEF Orderly
  <2>8. QED
    BY <1>8, <2>4, <2>5, <2>6, <2>7 DEF Orderly
<1>11. revoked' \in [User -> Nat] /\ \A w \in User \ {u} : revoked'[w] = revoked[w]
  BY <1>3, <1>4
<1>12. revoked'[u] + Cardinality(Open(session')) <= requests
  <2>1. Cardinality(Open(session')) = Cardinality(Open(session)) - 1
    BY <1>1, <1>4, OneLessOpen DEF v
  <2>2. revoked[u] + Cardinality(Open(session)) <= requests
    BY DEF EditInv
  <2>3. revoked'[u] <= revoked[u] + 1 /\ revoked[u] \in Nat
    BY <1>3, <1>4
  <2>4. QED
    BY <1>3, <1>11, <2>1, <2>2, <2>3, OpenIsCounted
<1>13. \A r \in Session : session'[r] \in {session[r], Idle}
  BY <1>4 DEF LockInv
<1>14. /\ tokens' \subseteq [user : User, version : Nat, revoked : Nat]
       /\ overlapped \subseteq overlapped'
       /\ \A w \in User \ {u} : /\ w \in temporary' => w \in temporary
                                /\ \A t \in tokens' : t.user = w => t \in tokens
  BY <1>4, <1>5 DEF EditInv
<1>15. QED
  BY <1>4, <1>9, <1>10, <1>11, <1>12, <1>13, <1>14, RowEdited
-----------------------------------------------------------------------------
\* No token is issued and no edit is open.
LEMMA EditInit == ASSUME Init PROVE EditInv
<1>1. Open(session) = {}
  BY DEF Init, Open
<1>2. \A u \in User : /\ Kept(u) /\ Orderly(u)
                      /\ revoked[u] = 0
  <2> SUFFICES ASSUME NEW u \in User PROVE Kept(u) /\ Orderly(u) /\ revoked[u] = 0
    OBVIOUS
  <2>1. /\ user[u].roles \subseteq Role /\ user[u].warehouses = {} /\ user[u].locked = 0
        /\ user[u].version = 0 /\ "logist" \notin user[u].roles
    BY DEF Init, Absent, Role
  <2>2. revoked[u] = 0 /\ requests = 0 /\ tokens = {} /\ temporary = {}
    BY DEF Init
  <2>3. QED
    BY <2>1, <2>2, Limits, Bounds DEF Kept, Orderly, ValidAssignment
<1>3. \A s \in Session : session[s] = Idle
  BY DEF Init
<1>4. QED
  BY <1>1, <1>2, <1>3, FS_EmptySet, Bounds DEF Init, EditInv, Follows

\* Every step keeps what edits and tokens have in common with the accounts.
LEMMA EditStep == ASSUME LockInv, EditInv, [Next]_vars PROVE EditInv'
<1>1. ASSUME NEW u \in User, WrongPassword(u) \/ RightPassword(u) PROVE EditInv'
  BY <1>1, LoginEdits
<1>2. ASSUME NEW s \in Session, NEW u \in User, ChangePassword(s, u) \/ Logout(s, u)
      PROVE  EditInv'
  BY <1>2, OwnEdits
<1>3. ASSUME NEW s \in Session, NEW u \in User, NEW actor \in User, NEW p \in Payload,
             UpdateUser(s, u, actor, p)
      PROVE  EditInv'
  BY <1>3, UpdateEdits
<1>4. ASSUME NEW s \in Session, Write(s) PROVE EditInv'
  BY <1>4, WriteEdits
<1>5. ASSUME NEW u \in User, NEW actor \in User, NEW p \in Payload, CreateUser(u, actor, p)
      PROVE  EditInv'
  BY <1>5, CreateEdits
<1>6. ASSUME NEW w \in Warehouse, DeleteWarehouse(w) PROVE EditInv'
  BY <1>6, DeleteEdits
<1>7. CASE Tick \/ (\E s \in Session : Rollback(s)) \/ UNCHANGED vars
  BY <1>7, OtherEdits
<1>8. QED
  BY <1>1, <1>2, <1>3, <1>4, <1>5, <1>6, <1>7 DEF Next

\* Both invariants of the accounts, of the lock and of the edits, always hold.
THEOREM AccountInvariant == Spec => [](LockInv /\ EditInv)
<1>1. Init => LockInv /\ EditInv
  BY LockInit, EditInit
<1>2. LockInv /\ EditInv /\ [Next]_vars => LockInv' /\ EditInv'
  BY LockStep, EditStep
<1>3. QED
  BY <1>1, <1>2, PTL DEF Spec

\* Rows of users, their warehouses, the counters and the tokens are well-formed: no
\* user keeps a warehouse that was deleted while it was being assigned.
THEOREM AccountTypes == Spec => []TypeOK
<1>1. LockInv /\ EditInv => TypeOK
  <2> SUFFICES ASSUME LockInv, EditInv PROVE TypeOK
    OBVIOUS
  <2>1. ASSUME NEW u \in User
        PROVE  /\ user[u].roles \subseteq Role /\ user[u].warehouses \subseteq warehouse
               /\ user[u].failed \in Nat /\ user[u].locked \in 0 .. MaxTime + LockTime
               /\ user[u].version \in 0 .. requests /\ revoked[u] \in 0 .. requests
    <3>1. Shaped(user[u]) /\ Kept(u)
      BY DEF LockInv, EditInv
    <3>2. revoked[u] \in Nat /\ revoked[u] + Cardinality(Open(session)) <= requests
      BY DEF EditInv
    <3>3. requests \in Nat
      BY DEF EditInv
    <3>4. revoked[u] \in 0 .. requests
      BY <3>2, <3>3, OpenIsCounted
    <3>5. user[u].locked \in 0 .. MaxTime + LockTime
      BY <3>1, Limits, Bounds DEF Shaped, Kept
    <3>6. QED
      BY <3>1, <3>4, <3>5 DEF Shaped, Kept
  <2>2. QED
    BY <2>1 DEF EditInv, TypeOK
<1>2. QED
  BY <1>1, AccountInvariant, PTL

\* Unless edits of an account overlapped, no token outlives a logout or a new
\* password, who has the administrator's password has to change it, and a logist is
\* nothing else and has a warehouse (users_service, auth.change_password, logout).
THEOREM EditsInOrder == Spec => []SerialEdits
<1>1. EditInv => SerialEdits
  <2> SUFFICES ASSUME EditInv, NEW u \in User \ overlapped
               PROVE  /\ \A t \in tokens : t.user = u /\ Accepted(t) => t.revoked = revoked[u]
                      /\ u \in temporary => user[u].must
                      /\ ValidAssignment(user[u].roles, user[u].warehouses)
    BY DEF SerialEdits
  <2>1. Orderly(u)
    BY DEF EditInv
  <2>2. QED
    BY <2>1 DEF Orderly, Accepted
<1>2. QED
  BY <1>1, AccountInvariant, PTL
-----------------------------------------------------------------------------
(* The directory. What a request has read is what the tables hold, as long as *)
(* no other has overlapped it: so a forest stays one, and what a card refers  *)
(* to is there.                                                               *)
\* What a forest is made of: the nodes above p along par, and no node above its
\* own parent.
Up(par, p) ==
  {h \in Group : \A S \in SUBSET Group :
     (p # None => p \in S) /\ (\A x \in S : par[x] \in S \cup {None}) => h \in S}
Forest(par) == \A g \in Group : g \notin Up(par, par[g])
Parents == [g \in Group |-> group[g].parent]
Closed(par, S) == S \subseteq Group /\ \A x \in S : par[x] \in S \cup {None}

\* What is above p has p, is closed, and lies in every such set.
LEMMA UpFacts ==
  ASSUME NEW par \in [Group -> Group \cup {None}], NEW p \in Group \cup {None}
  PROVE  /\ Closed(par, Up(par, p))
         /\ p # None => p \in Up(par, p)
         /\ \A S : Closed(par, S) /\ (p # None => p \in S) => Up(par, p) \subseteq S
<1>1. Up(par, p) \subseteq Group
  BY DEF Up
<1>2. ASSUME NEW x \in Up(par, p), par[x] # None PROVE par[x] \in Up(par, p)
  <2>1. x \in Group /\ par[x] \in Group
    BY <1>1, <1>2
  <2>2. ASSUME NEW S \in SUBSET Group, p # None => p \in S, \A y \in S : par[y] \in S \cup {None}
        PROVE  par[x] \in S
    <3>1. x \in S
      BY <1>2, <2>2 DEF Up
    <3>2. QED
      BY <3>1, <2>2, <1>2
  <2>3. QED
    BY <2>1, <2>2 DEF Up
<1>3. p # None => p \in Up(par, p)
  BY DEF Up
<1>4. ASSUME NEW S, Closed(par, S), p # None => p \in S PROVE Up(par, p) \subseteq S
  <2>1. S \in SUBSET Group
    BY <1>4 DEF Closed
  <2>2. QED
    BY <2>1, <1>4 DEF Up, Closed
<1>5. Closed(par, Up(par, p))
  BY <1>1, <1>2 DEF Closed
<1>6. QED
  BY <1>3, <1>4, <1>5

\* A node moves under another it is not above.
LEMMA Move ==
  ASSUME NEW par \in [Group -> Group \cup {None}], NEW i \in Group, NEW q \in Group \cup {None},
         Forest(par), i \notin Up(par, q)
  PROVE  Forest([par EXCEPT ![i] = q])
<1> DEFINE new == [par EXCEPT ![i] = q]
           A == Up(par, q)
<1>1. new \in [Group -> Group \cup {None}] /\ new[i] = q /\ \A g \in Group \ {i} : new[g] = par[g]
  OBVIOUS
<1> HIDE DEF new
<1>2. Closed(par, A) /\ (q # None => q \in A) /\ i \notin A
  BY UpFacts
<1> HIDE DEF A
<1>3. Closed(new, A)
  BY <1>1, <1>2 DEF Closed
<1>4. i \notin Up(new, new[i])
  BY <1>1, <1>2, <1>3, UpFacts
<1>5. ASSUME NEW g \in Group \ {i}, g \in Up(new, new[g]) PROVE FALSE
  <2> DEFINE p == par[g]
             B == Up(par, p)
  <2>1. p \in Group \cup {None} /\ new[g] = p
    BY <1>1
  <2>2. Closed(par, B) /\ (p # None => p \in B) /\ g \notin B
    BY <2>1, UpFacts DEF Forest
  <2>3. \A S : Closed(par, S) /\ (p # None => p \in S) => B \subseteq S
    BY <2>1, UpFacts
  <2>4. \A S : Closed(new, S) /\ (p # None => p \in S) => g \in S
    BY <2>1, <1>1, <1>5, UpFacts
  <2> HIDE DEF p, B
  <2>5. Closed(new, A \cup B)
    BY <1>1, <1>2, <2>2 DEF Closed
  <2>6. g \in A
    BY <2>2, <2>4, <2>5
  <2>7. p # None => p \in A
    BY <2>6, <1>2 DEF Closed, p
  <2>8. B \subseteq A
    BY <2>3, <2>7, <1>2
  <2>9. Closed(new, B)
    BY <2>8, <1>1, <1>2, <2>2 DEF Closed
  <2>10. QED
    BY <2>9, <2>4, <2>2
<1>6. QED
  BY <1>4, <1>5 DEF Forest, new

\* A node nothing hangs on is taken away.
LEMMA Cut ==
  ASSUME NEW par \in [Group -> Group \cup {None}], NEW i \in Group, Forest(par), None \notin Group
  PROVE  Forest([par EXCEPT ![i] = None])
<1>1. Up(par, None) = {}
  <2>1. Closed(par, {})
    BY DEF Closed
  <2>2. QED
    BY <2>1, UpFacts
<1>2. QED
  BY <1>1, Move

\* What the module says of parents, in terms of the forest.
LEMMA Trees ==
  /\ \A p : Cards!Above(p) = Up(Parents, p)
  /\ (\A g \in Group : ~ Cards!InCycle(g)) <=> Forest(Parents)
  /\ (\A g \in Group : ~ Cards!InCycle(g)') <=> Forest(Parents)'
<1>1. \A q : Cards!Above(q) = Up(Parents, q)
  BY DEF Cards!Above, Up, Parents
<1>2. \A q : Cards!Above(q)' = Up(Parents, q)'
  BY DEF Cards!Above, Up, Parents
<1>3. \A g \in Group : Parents[g] = group[g].parent /\ Parents'[g] = group'[g].parent
  BY DEF Parents
<1>4. QED
  BY <1>1, <1>2, <1>3 DEF Cards!InCycle, Forest
-----------------------------------------------------------------------------
\* What a request has in hand, as long as nothing overlaps still right.
CardsShaped(v) ==
  \/ v = Cards!Idle
  \/ /\ v.op \in {"create", "update"} /\ v.id \in Group
     /\ v.seen.name \in Name \cup {None} /\ v.seen.parent \in Group \cup {None}
     /\ v.next.name \in Name /\ v.next.parent \in Group \cup {None}
  \/ v.op = "delete" /\ v.id \in Group \cup Cards!Card
Checked(v) ==
  IF v.op \in {"create", "update"}
  THEN /\ v.seen = group[v.id]
       /\ Cards!NameIsFree(v.next.name, v.id) /\ Cards!ParentFits(v.next.parent, v.id)
  ELSE v.op = "delete" => Cards!Unused(v.id)

UniqueNames == \A g, h \in Group : group[g].exists /\ group[h].exists /\ group[g].name = group[h].name => g = h

\* As long as nothing has overlapped.
Serial ==
  /\ \A s, u \in Session : change[s] # Cards!Idle /\ change[u] # Cards!Idle => s = u
  /\ \A s \in Session : Checked(change[s])
  /\ Forest(Parents) /\ UniqueNames

DirectoryInv ==
  /\ Cards!TypeOK
  /\ \A g \in Group : ~ group[g].exists => group[g] = Cards!NoGroup
  /\ \A r \in Referrer : row[r].to # None => row[r].ref \in Cards!ReferencesTo(row[r].to)
  /\ change = [s \in Session |-> change[s]] /\ \A s \in Session : CardsShaped(change[s])
  /\ crossed \in BOOLEAN /\ (~ crossed => Serial)

\* What a step may do to the tables.
GoodStep ==
  /\ Forest(Parents)' /\ UniqueNames'
  /\ \A x \in Group \cup Cards!Card, r \in Referrer :
        Cards!There(x) /\ ~ Cards!There(x)' /\ row'[r] # row[r] => row[r].ref = "user.warehouse"

\* An empty directory is a forest.
LEMMA DirectoryInit == ASSUME Cards!Init PROVE DirectoryInv
<1>1. \A g \in Group : Parents[g] = None
  BY DEF Cards!Init, Parents, Cards!NoGroup
<1>2. Parents \in [Group -> Group \cup {None}]
  BY <1>1 DEF Parents
<1>3. Up(Parents, None) = {}
  <2>1. Closed(Parents, {})
    BY DEF Closed
  <2>2. QED
    BY <1>2, <2>1, UpFacts
<1>4. Forest(Parents)
  BY <1>1, <1>3 DEF Forest
<1>5. Cards!TypeOK
  BY Ids DEF Cards!Init, Cards!TypeOK, Cards!NoGroup, Cards!NoRow
<1>6. Serial
  BY <1>4 DEF Cards!Init, Serial, Checked, UniqueNames, Cards!NoGroup, Cards!Idle
<1>7. QED
  BY <1>5, <1>6 DEF Cards!Init, DirectoryInv, CardsShaped, Cards!NoRow
-----------------------------------------------------------------------------
\* The tables do not change, and no request of before has another in its way.
LEMMA NewCheck ==
  ASSUME DirectoryInv, NEW s \in Session, NEW v, CardsShaped(v), Checked(v), Cards!Check(s, v)
  PROVE  DirectoryInv' /\ (~ crossed => GoodStep)
<1>1. change'[s] = v /\ \A u \in Session \ {s} : change'[u] = change[u]
  BY DEF Cards!Check, DirectoryInv
<1>2. UNCHANGED <<group, card, row>> /\ change[s] = Cards!Idle
      /\ change' = [u \in Session |-> change'[u]]
  BY DEF Cards!Check, DirectoryInv
<1>3. crossed' \in BOOLEAN /\ (~ crossed' => ~ crossed /\ \A u \in Session : change[u] = Cards!Idle)
  BY DEF Cards!Check, DirectoryInv
<1>4. Cards!TypeOK'
  BY <1>2 DEF DirectoryInv, Cards!TypeOK, Cards!There
<1>5. Parents' = Parents /\ UniqueNames' = UniqueNames
  BY <1>2 DEF Parents, UniqueNames
<1>6. \A u \in Session : CardsShaped(change'[u])
  BY <1>1 DEF DirectoryInv
<1>7. ASSUME ~ crossed' PROVE Serial'
  <2>1. Checked(v)'
    BY <1>2 DEF Checked, Cards!NameIsFree, Cards!ParentFits, Cards!Above, Cards!InCycle, Cards!Unused,
                Cards!HasNoChild, Cards!HasNoRow
  <2>2. QED
    BY <1>1, <1>3, <1>5, <1>7, <2>1 DEF Serial, DirectoryInv, Checked, Cards!Idle
<1>8. QED
  BY <1>2, <1>3, <1>4, <1>5, <1>6, <1>7 DEF DirectoryInv, GoodStep, Serial, Cards!There, CardsShaped

\* A group is written: if nothing overlapped, as it was checked.
LEMMA GroupWritten ==
  ASSUME DirectoryInv, NEW s \in Session, Cards!FlushGroup(s)
  PROVE  DirectoryInv' /\ (~ crossed => GoodStep)
<1> DEFINE v == change[s]
           q == IF v.next.parent = v.seen.parent THEN group[v.id].parent ELSE v.next.parent
           n == IF v.next.name = v.seen.name THEN group[v.id].name ELSE v.next.name
           row1 == [exists |-> TRUE, name |-> n, parent |-> q]
<1>1. /\ v.op \in {"create", "update"} /\ v # Cards!Idle /\ v.id \in Group
      /\ v.next.name \in Name /\ v.next.parent \in Group \cup {None}
  BY DEF Cards!FlushGroup, DirectoryInv, CardsShaped, Cards!Idle
<1>2. /\ group' = [group EXCEPT ![v.id] = row1]
      /\ q # None => group[q].exists
      /\ group[v.id].exists = (v.op = "update")
      /\ UNCHANGED <<card, row, crossed, changes>>
      /\ change' = [change EXCEPT ![s] = Cards!Idle]
  BY DEF Cards!FlushGroup, Cards!Done
<1>3. q \in Group \cup {None} /\ n \in Name \cup {None}
  BY <1>1 DEF DirectoryInv, Cards!TypeOK
<1>4. /\ group'[v.id] = row1 /\ \A g \in Group \ {v.id} : group'[g] = group[g]
      /\ group' \in [Group -> [exists : BOOLEAN, name : Name \cup {None}, parent : Group \cup {None}]]
  <2>1. row1 \in [exists : BOOLEAN, name : Name \cup {None}, parent : Group \cup {None}]
    BY <1>3
  <2>2. QED
    BY <1>1, <1>2, <2>1 DEF DirectoryInv, Cards!TypeOK
<1>5. /\ change'[s] = Cards!Idle /\ \A u \in Session \ {s} : change'[u] = change[u]
      /\ change' = [u \in Session |-> change'[u]]
  BY <1>2 DEF DirectoryInv
<1>6. row1.exists = TRUE /\ row1.name = n /\ row1.parent = q
  OBVIOUS
<1>7. v.op = "create" => ~ group[v.id].exists
  BY <1>2
<1> HIDE DEF row1, q, n
<1>8. Cards!TypeOK'
  <2>1. ASSUME NEW g \in Group, group'[g].parent # None PROVE group'[group'[g].parent].exists
    BY <2>1, <1>1, <1>2, <1>3, <1>4, <1>6 DEF DirectoryInv, Cards!TypeOK
  <2>2. ASSUME NEW r \in Referrer, row'[r].to # None PROVE Cards!There(row[r].to)'
    BY <2>2, <1>1, <1>2, <1>4, <1>6 DEF DirectoryInv, Cards!TypeOK, Cards!There
  <2>3. QED
    BY <2>1, <2>2, <1>2, <1>4 DEF DirectoryInv, Cards!TypeOK
<1>9. \A x : Cards!There(x) => Cards!There(x)'
  BY <1>1, <1>2, <1>4, <1>6 DEF Cards!There
<1>10. ASSUME ~ crossed PROVE Forest(Parents)' /\ UniqueNames' /\ \A u \in Session : change'[u] = Cards!Idle
  <2>1. Serial
    BY <1>10 DEF DirectoryInv
  <2>2. /\ v.seen = group[v.id] /\ Cards!NameIsFree(v.next.name, v.id)
        /\ Cards!ParentFits(v.next.parent, v.id)
    BY <2>1, <1>1 DEF Serial, Checked
  <2>3. q = v.next.parent /\ n = v.next.name
    BY <2>2 DEF q, n
  <2>4. Parents \in [Group -> Group \cup {None}] /\ Parents' = [Parents EXCEPT ![v.id] = q]
    BY <1>1, <1>4, <1>6 DEF Parents, DirectoryInv, Cards!TypeOK
  <2>5. Forest(Parents)'
    <3>1. CASE q = None
      BY <3>1, <2>1, <2>4, <1>1, Cut, Ids DEF Serial, Forest, Up
    <3>2. CASE q # None
      <4>1. v.id \notin Up(Parents, q)
        BY <3>2, <2>2, <2>3, Trees DEF Cards!ParentFits
      <4>2. QED
        <5>1. Forest([Parents EXCEPT ![v.id] = q])
          BY <4>1, <2>1, <2>4, <1>1, <1>3, Move DEF Serial
        <5>2. QED
          BY <5>1, <2>4 DEF Forest, Up
    <3>3. QED
      BY <3>1, <3>2
  <2>6. UniqueNames'
    BY <2>1, <2>2, <2>3, <1>1, <1>4, <1>6 DEF Serial, UniqueNames, Cards!NameIsFree
  <2>7. QED
    BY <2>1, <2>5, <2>6, <1>1, <1>5 DEF Serial
<1>11. GoodStep \/ crossed
  BY <1>9, <1>10 DEF GoodStep
<1>12. \A g \in Group : ~ group'[g].exists => group'[g] = Cards!NoGroup
  BY <1>1, <1>4, <1>6 DEF DirectoryInv
<1>13. \A r \in Referrer : row'[r].to # None => row'[r].ref \in Cards!ReferencesTo(row'[r].to)
  BY <1>2 DEF DirectoryInv
<1>14. \A u \in Session : CardsShaped(change'[u])
  BY <1>5 DEF DirectoryInv, CardsShaped
<1>15. ~ crossed => Serial'
  BY <1>10 DEF Serial, Checked, Cards!Idle
<1>16. QED
  BY <1>2, <1>5, <1>8, <1>11, <1>12, <1>13, <1>14, <1>15 DEF DirectoryInv, CardsShaped

\* Something is deleted: what referred to it was not asked for and is cleared.
LEMMA Deleted ==
  ASSUME DirectoryInv, NEW s \in Session, Cards!FlushDelete(s)
  PROVE  DirectoryInv' /\ (~ crossed => GoodStep)
<1> DEFINE x == change[s].id
<1>1. /\ change[s].op = "delete" /\ change[s] # Cards!Idle /\ x \in Group \cup Cards!Card
      /\ Cards!There(x) /\ Cards!HasNoChild(x)
      /\ Cards!HasNoRow(x, Cards!Reference \ Cards!Cleared)
      /\ group' = [g \in Group |-> IF g = x THEN Cards!NoGroup ELSE group[g]]
      /\ card' = [c \in Cards!Card |-> IF c = x THEN "deleted" ELSE card[c]]
      /\ row' = [r \in Referrer |-> IF row[r].to = x THEN [row[r] EXCEPT !.to = None] ELSE row[r]]
      /\ change' = [change EXCEPT ![s] = Cards!Idle] /\ UNCHANGED <<crossed, changes>>
  BY DEF Cards!FlushDelete, Cards!Done, DirectoryInv, CardsShaped, Cards!Idle
<1> HIDE DEF x
<1>2. x # None
  BY <1>1, Ids DEF Cards!Card
<1>3. /\ change'[s] = Cards!Idle /\ \A u \in Session \ {s} : change'[u] = change[u]
      /\ change' = [u \in Session |-> change'[u]]
  BY <1>1 DEF DirectoryInv
<1>4. \A y : Cards!There(y) /\ y # x /\ y \in Group \cup Cards!Card => Cards!There(y)'
  BY <1>1 DEF Cards!There
<1>5. \A r \in Referrer : row'[r].to # x /\ (row[r].to # x => row'[r] = row[r])
                           /\ (row[r].to = x => row'[r].to = None /\ row'[r].ref = row[r].ref)
  BY <1>1, <1>2 DEF DirectoryInv, Cards!TypeOK
<1>6. Cards!TypeOK'
  <2>1. group' \in [Group -> [exists : BOOLEAN, name : Name \cup {None}, parent : Group \cup {None}]]
    BY <1>1 DEF DirectoryInv, Cards!TypeOK, Cards!NoGroup
  <2>2. card' \in [Cards!Card -> {"new", "there", "deleted"}]
    BY <1>1 DEF DirectoryInv, Cards!TypeOK
  <2>3. row' \in [Referrer -> [ref : Cards!Reference \cup {None}, to : Cards!Card \cup Group \cup {None}]]
    BY <1>1 DEF DirectoryInv, Cards!TypeOK
  <2>4. ASSUME NEW g \in Group, group'[g].parent # None PROVE group'[group'[g].parent].exists
    BY <2>4, <1>1, <1>2 DEF DirectoryInv, Cards!TypeOK, Cards!NoGroup, Cards!HasNoChild
  <2>5. ASSUME NEW r \in Referrer, row'[r].to # None PROVE Cards!There(row[r].to)'
    BY <2>5, <1>4, <1>5 DEF DirectoryInv, Cards!TypeOK
  <2>6. QED
    BY <2>1, <2>2, <2>3, <2>4, <2>5 DEF Cards!TypeOK
<1>7. ASSUME ~ crossed PROVE GoodStep
  <2>1. Serial /\ Checked(change[s])
    BY <1>7 DEF DirectoryInv, Serial
  <2>2. Cards!Unused(x)
    BY <2>1, <1>1 DEF Checked, x
  <2>3. Parents \in [Group -> Group \cup {None}]
    BY DEF Parents, DirectoryInv, Cards!TypeOK
  <2>4. Forest(Parents)'
    <3>1. CASE x \in Group
      <4>1. Parents' = [Parents EXCEPT ![x] = None]
        BY <3>1, <1>1 DEF Parents, Cards!NoGroup
      <4>2. Forest([Parents EXCEPT ![x] = None])
        BY <3>1, <2>1, <2>3, Cut, Ids DEF Serial
      <4>3. QED
        BY <4>1, <4>2 DEF Forest, Up
    <3>2. CASE x \notin Group
      <4>1. Parents' = Parents
        BY <3>2, <1>1 DEF Parents
      <4>2. QED
        BY <4>1, <2>1 DEF Forest, Up, Serial
    <3>3. QED
      BY <3>1, <3>2
  <2>5. UniqueNames'
    BY <2>1, <1>1 DEF Serial, UniqueNames, Cards!NoGroup
  <2>6. ASSUME NEW y \in Group \cup Cards!Card, NEW r \in Referrer,
               Cards!There(y), ~ Cards!There(y)', row'[r] # row[r]
        PROVE  row[r].ref = "user.warehouse"
    <3>1. row[r].to = x
      BY <2>6, <1>5
    <3>2. row[r].ref \in Cards!ReferencesTo(x)
      BY <3>1, <1>2 DEF DirectoryInv
    <3>3. row[r].ref \in Cards!Reference
      <4>1. CASE x \in Cards!Card
        BY <4>1, <3>2 DEF Cards!Reference
      <4>2. CASE x \notin Cards!Card
        BY <4>2, <3>2, Ids DEF Cards!Reference, Cards!ReferencesTo, Cards!Card
      <4>3. QED
        BY <4>1, <4>2
    <3>4. row[r].ref \in Cards!Cleared
      BY <3>1, <3>3, <1>1 DEF Cards!HasNoRow
    <3>5. row[r].ref \notin Cards!Asked
      BY <3>1, <2>2 DEF Cards!Unused, Cards!HasNoRow
    <3>6. QED
      BY <3>4, <3>5 DEF Cards!Cleared, Cards!Asked
  <2>7. QED
    BY <2>4, <2>5, <2>6 DEF GoodStep
<1>8. \A g \in Group : ~ group'[g].exists => group'[g] = Cards!NoGroup
  BY <1>1 DEF DirectoryInv
<1>9. \A r \in Referrer : row'[r].to # None => row'[r].ref \in Cards!ReferencesTo(row'[r].to)
  BY <1>5 DEF DirectoryInv
<1>10. \A u \in Session : CardsShaped(change'[u])
  BY <1>3 DEF DirectoryInv, CardsShaped
<1>11. ~ crossed => Serial'
  BY <1>1, <1>3, <1>7 DEF Serial, GoodStep, Checked, Cards!Idle, DirectoryInv
<1>12. QED
  BY <1>1, <1>3, <1>6, <1>7, <1>8, <1>9, <1>10, <1>11 DEF DirectoryInv, CardsShaped

\* A request gives up; the tables do not change.
LEMMA GaveUp ==
  ASSUME DirectoryInv, NEW s \in Session, Cards!Rollback(s)
  PROVE  DirectoryInv' /\ (~ crossed => GoodStep)
<1>1. /\ change'[s] = Cards!Idle /\ \A u \in Session \ {s} : change'[u] = change[u]
      /\ change' = [u \in Session |-> change'[u]] /\ UNCHANGED <<group, card, row, crossed>>
  BY DEF Cards!Rollback, Cards!Done, DirectoryInv
<1>2. \A v : Checked(v)' <=> Checked(v')
  BY <1>1 DEF Checked, Cards!NameIsFree, Cards!ParentFits, Cards!Above, Cards!InCycle, Cards!Unused,
              Cards!HasNoChild, Cards!HasNoRow
<1>3. Cards!TypeOK'
  BY <1>1 DEF DirectoryInv, Cards!TypeOK, Cards!There
<1>4. Parents' = Parents /\ UniqueNames' = UniqueNames
  BY <1>1 DEF Parents, UniqueNames
<1>5. \A u \in Session : CardsShaped(change'[u])
  BY <1>1 DEF DirectoryInv, CardsShaped
<1>6. ASSUME ~ crossed PROVE Serial'
  <2>1. ASSUME NEW u \in Session PROVE Checked(change[u])'
    <3>1. CASE u = s
      BY <3>1, <1>1 DEF Checked, Cards!Idle
    <3>2. CASE u # s
      <4>1. change'[u] = change[u] /\ Checked(change[u])
        BY <3>2, <1>1, <1>6 DEF DirectoryInv, Serial
      <4>2. QED
        BY <4>1, <1>1 DEF Checked, Cards!NameIsFree, Cards!ParentFits, Cards!Above, Cards!InCycle,
                          Cards!Unused, Cards!HasNoChild, Cards!HasNoRow
    <3>3. QED
      BY <3>1, <3>2
  <2>2. QED
    BY <2>1, <1>1, <1>4, <1>6 DEF Serial, DirectoryInv
<1>7. QED
  BY <1>1, <1>3, <1>4, <1>5, <1>6 DEF DirectoryInv, GoodStep, Serial, Cards!There, CardsShaped

\* A card is entered.
LEMMA CardEntered ==
  ASSUME DirectoryInv, NEW c \in Cards!Card, Cards!CreateCard(c)
  PROVE  DirectoryInv' /\ (~ crossed => GoodStep)
<1>1. card' = [card EXCEPT ![c] = "there"] /\ UNCHANGED <<group, row, change, crossed>>
  BY DEF Cards!CreateCard
<1>2. \A x : Cards!There(x) => Cards!There(x)'
  BY <1>1, Ids DEF Cards!There, DirectoryInv, Cards!TypeOK
<1>3. Cards!TypeOK'
  BY <1>1, <1>2 DEF DirectoryInv, Cards!TypeOK
<1>4. Parents' = Parents /\ UniqueNames' = UniqueNames
  BY <1>1 DEF Parents, UniqueNames
<1>5. Serial => Serial'
  BY <1>1, <1>4 DEF Serial, Checked, Cards!NameIsFree, Cards!ParentFits, Cards!Above, Cards!InCycle,
                    Cards!Unused, Cards!HasNoChild, Cards!HasNoRow
<1>6. QED
  BY <1>1, <1>3, <1>4, <1>5 DEF DirectoryInv, GoodStep, Serial, CardsShaped

\* A row refers to something else: a request that has looked at it overlaps.
LEMMA RowSaved ==
  ASSUME DirectoryInv, NEW r \in Referrer, NEW ref \in Cards!Reference,
         NEW x \in Group \cup Cards!Card, Cards!SaveRow(r, ref, x)
  PROVE  DirectoryInv' /\ (~ crossed => GoodStep)
<1>1. /\ ref \in Cards!ReferencesTo(x) /\ Cards!There(x)
      /\ row' = [row EXCEPT ![r] = [ref |-> ref, to |-> x]]
      /\ crossed' = (crossed \/ \E s \in Session : change[s] # Cards!Idle /\ change[s].id = x)
      /\ UNCHANGED <<group, card, change>>
  BY DEF Cards!SaveRow
<1>2. row'[r] = [ref |-> ref, to |-> x] /\ \A q \in Referrer \ {r} : row'[q] = row[q]
  BY <1>1 DEF DirectoryInv, Cards!TypeOK
<1>3. \A y : Cards!There(y) = Cards!There(y)'
  BY <1>1 DEF Cards!There
<1>4. Cards!TypeOK'
  <2>1. row' \in [Referrer -> [ref : Cards!Reference \cup {None}, to : Cards!Card \cup Group \cup {None}]]
    BY <1>1 DEF DirectoryInv, Cards!TypeOK
  <2>2. ASSUME NEW q \in Referrer, row'[q].to # None PROVE Cards!There(row[q].to)'
    BY <2>2, <1>1, <1>2, <1>3 DEF DirectoryInv, Cards!TypeOK
  <2>3. QED
    BY <2>1, <2>2, <1>1 DEF DirectoryInv, Cards!TypeOK
<1>5. Parents' = Parents /\ UniqueNames' = UniqueNames
  BY <1>1 DEF Parents, UniqueNames
<1>6. crossed' \in BOOLEAN
      /\ (~ crossed' => ~ crossed /\ \A s \in Session : change[s] # Cards!Idle => change[s].id # x)
  BY <1>1 DEF DirectoryInv
<1>7. ASSUME ~ crossed' PROVE Serial'
  <2>1. Serial
    BY <1>6, <1>7 DEF DirectoryInv
  <2>2. ASSUME NEW s \in Session PROVE Checked(change[s])'
    <3>1. Checked(change[s]) /\ CardsShaped(change[s])
      BY <2>1 DEF Serial, DirectoryInv
    <3>2. CASE change[s].op \in {"create", "update"}
      BY <3>1, <3>2, <1>1 DEF Checked, Cards!NameIsFree, Cards!ParentFits, Cards!Above, Cards!InCycle
    <3>3. CASE change[s].op = "delete"
      <4>1. change[s] # Cards!Idle /\ change[s].id # x
        BY <3>3, <1>6, <1>7 DEF Cards!Idle
      <4>2. Cards!Unused(change[s].id)
        BY <3>1, <3>3 DEF Checked
      <4>3. Cards!Unused(change[s].id)'
        BY <4>1, <4>2, <1>1, <1>2 DEF Cards!Unused, Cards!HasNoChild, Cards!HasNoRow
      <4>4. QED
        BY <4>3, <3>3, <1>1 DEF Checked
    <3>4. QED
      BY <3>1, <3>2, <3>3, <1>1 DEF Checked
  <2>3. QED
    BY <2>1, <2>2, <1>1, <1>5 DEF Serial
<1>8. QED
  BY <1>1, <1>2, <1>3, <1>4, <1>5, <1>6, <1>7 DEF DirectoryInv, GoodStep, Serial, CardsShaped

\* A row goes, and takes no card with it.
LEMMA RowDeleted ==
  ASSUME DirectoryInv, NEW r \in Referrer, Cards!DeleteRow(r)
  PROVE  DirectoryInv' /\ (~ crossed => GoodStep)
<1>1. row' = [row EXCEPT ![r] = Cards!NoRow] /\ UNCHANGED <<group, card, change, crossed>>
  BY DEF Cards!DeleteRow
<1>2. row'[r].to = None /\ \A q \in Referrer \ {r} : row'[q] = row[q]
  BY <1>1 DEF DirectoryInv, Cards!TypeOK, Cards!NoRow
<1>3. \A y : Cards!There(y) = Cards!There(y)'
  BY <1>1 DEF Cards!There
<1>4. Cards!TypeOK'
  <2>1. row' \in [Referrer -> [ref : Cards!Reference \cup {None}, to : Cards!Card \cup Group \cup {None}]]
    BY <1>1 DEF DirectoryInv, Cards!TypeOK, Cards!NoRow
  <2>2. ASSUME NEW q \in Referrer, row'[q].to # None PROVE Cards!There(row[q].to)'
    BY <2>2, <1>2, <1>3 DEF DirectoryInv, Cards!TypeOK
  <2>3. QED
    BY <2>1, <2>2, <1>1 DEF DirectoryInv, Cards!TypeOK
<1>5. Parents' = Parents /\ UniqueNames' = UniqueNames
  BY <1>1 DEF Parents, UniqueNames
<1>6. ASSUME Serial PROVE Serial'
  <2>1. ASSUME NEW s \in Session PROVE Checked(change[s])'
    <3>1. Checked(change[s]) /\ CardsShaped(change[s])
      BY <1>6 DEF Serial, DirectoryInv
    <3>2. CASE change[s].op \in {"create", "update"}
      BY <3>1, <3>2, <1>1 DEF Checked, Cards!NameIsFree, Cards!ParentFits, Cards!Above, Cards!InCycle
    <3>3. CASE change[s].op = "delete"
      <4>1. change[s].id # None
        BY <3>1, <3>3, Ids DEF CardsShaped, Cards!Idle, Cards!Card
      <4>2. Cards!Unused(change[s].id)
        BY <3>1, <3>3 DEF Checked
      <4>3. Cards!Unused(change[s].id)'
        BY <4>1, <4>2, <1>1, <1>2 DEF Cards!Unused, Cards!HasNoChild, Cards!HasNoRow
      <4>4. QED
        BY <4>3, <3>3, <1>1 DEF Checked
    <3>4. QED
      BY <3>1, <3>2, <3>3, <1>1 DEF Checked
  <2>2. QED
    BY <2>1, <1>1, <1>5, <1>6 DEF Serial
<1>7. QED
  BY <1>1, <1>2, <1>3, <1>4, <1>5, <1>6 DEF DirectoryInv, GoodStep, Serial, CardsShaped
-----------------------------------------------------------------------------
\* Every request of the directory keeps the invariant, and, where none overlaps, does
\* what it would do alone.
LEMMA DirectoryStep ==
  ASSUME DirectoryInv, [Cards!Next]_directoryVars
  PROVE  DirectoryInv' /\ (~ crossed /\ Cards!Next => GoodStep)
<1>1. CASE UNCHANGED directoryVars
  <2>1. ASSUME Cards!Next PROVE ~ crossed => GoodStep
    BY <1>1 DEF GoodStep, DirectoryInv, Serial, Forest, Up, Parents, UniqueNames, directoryVars
  <2>2. UNCHANGED <<group, card, row, change, crossed, Parents, UniqueNames, Forest(Parents)>>
    BY <1>1 DEF directoryVars, Parents, UniqueNames, Forest, Up
  <2>3. Cards!TypeOK'
    BY <2>2 DEF DirectoryInv, Cards!TypeOK, Cards!There
  <2>4. \A s \in Session : Checked(change[s]) => Checked(change[s])'
    BY <2>2 DEF Checked, Cards!NameIsFree, Cards!ParentFits, Cards!Above, Cards!InCycle, Cards!Unused,
                Cards!HasNoChild, Cards!HasNoRow
  <2>5. Serial => Serial'
    BY <2>2, <2>4 DEF Serial
  <2>6. DirectoryInv'
    BY <2>2, <2>3, <2>5 DEF DirectoryInv, CardsShaped
  <2>7. QED
    BY <2>1, <2>6
<1>2. CASE Cards!Next
  <2>1. ASSUME NEW s \in Session, NEW g \in Group, NEW n \in Name, NEW p \in Group \cup {None},
               Cards!CreateGroup(s, g, n, p) \/ Cards!UpdateGroup(s, g, n, p)
        PROVE  DirectoryInv' /\ (~ crossed => GoodStep)
    <3>1. CASE Cards!CreateGroup(s, g, n, p)
      <4> DEFINE v == [op |-> "create", id |-> g, seen |-> Cards!NoGroup,
                       next |-> [exists |-> TRUE, name |-> n, parent |-> p]]
      <4>1. Cards!Check(s, v) /\ ~ group[g].exists /\ Cards!NameIsFree(n, g) /\ Cards!ParentFits(p, g)
        BY <3>1 DEF Cards!CreateGroup
      <4>2. CardsShaped(v)
        BY DEF CardsShaped, Cards!NoGroup
      <4>3. Checked(v)
        BY <4>1 DEF Checked, DirectoryInv
      <4> HIDE DEF v
      <4>4. QED
        BY <4>1, <4>2, <4>3, NewCheck
    <3>2. CASE Cards!UpdateGroup(s, g, n, p)
      <4> DEFINE v == [op |-> "update", id |-> g, seen |-> group[g],
                       next |-> [exists |-> TRUE, name |-> n, parent |-> p]]
      <4>1. Cards!Check(s, v) /\ Cards!NameIsFree(n, g) /\ Cards!ParentFits(p, g)
        BY <3>2 DEF Cards!UpdateGroup
      <4>2. CardsShaped(v)
        BY DEF CardsShaped, DirectoryInv, Cards!TypeOK
      <4>3. Checked(v)
        BY <4>1 DEF Checked
      <4> HIDE DEF v
      <4>4. QED
        BY <4>1, <4>2, <4>3, NewCheck
    <3>3. QED
      BY <2>1, <3>1, <3>2
  <2>2. ASSUME NEW s \in Session, NEW x \in Group \cup Cards!Card, Cards!Delete(s, x)
        PROVE  DirectoryInv' /\ (~ crossed => GoodStep)
    <3> DEFINE v == [op |-> "delete", id |-> x]
    <3>1. Cards!Check(s, v) /\ Cards!Unused(x)
      BY <2>2 DEF Cards!Delete
    <3>2. CardsShaped(v) /\ Checked(v)
      BY <3>1 DEF CardsShaped, Checked
    <3> HIDE DEF v
    <3>3. QED
      BY <3>1, <3>2, NewCheck
  <2>3. QED
    BY <1>2, <2>1, <2>2, GroupWritten, Deleted, GaveUp, CardEntered, RowSaved, RowDeleted DEF Cards!Next
<1>3. QED
  BY <1>1, <1>2

\* The types of the directories, with the foreign keys of groups and rows.
THEOREM DirectoryTypes == Cards!Spec => []Cards!TypeOK
<1>1. Cards!Init => DirectoryInv
  BY DirectoryInit
<1>2. DirectoryInv /\ [Cards!Next]_Cards!vars => DirectoryInv'
  BY DirectoryStep DEF Cards!vars, directoryVars
<1>3. DirectoryInv => Cards!TypeOK
  BY DEF DirectoryInv
<1>4. QED
  BY <1>1, <1>2, <1>3, PTL DEF Cards!Spec

\* Where no two requests overlap, the groups stay a forest without two of one
\* name, and a deletion takes no row's card away but a warehouse from its users.
THEOREM DirectoryInOrder == Cards!Spec => SerialDirectory
<1>1. Cards!Init => DirectoryInv
  BY DirectoryInit
<1>2. DirectoryInv /\ [Cards!Next]_Cards!vars => DirectoryInv'
  BY DirectoryStep DEF Cards!vars, directoryVars
<1> DEFINE good == \/ crossed
                   \/ /\ \A g \in Group : ~ Cards!InCycle(g)'
                      /\ \A g, h \in Group :
                           group'[g].exists /\ group'[h].exists /\ group'[g].name = group'[h].name => g = h
                      /\ \A x \in Group \cup Cards!Card, r \in Referrer :
                           Cards!There(x) /\ ~ Cards!There(x)' /\ row'[r] # row[r]
                             => row[r].ref = "user.warehouse"
<1>3. DirectoryInv /\ [Cards!Next]_Cards!vars => [good]_Cards!vars
  <2> SUFFICES ASSUME DirectoryInv, Cards!Next PROVE good
    OBVIOUS
  <2>1. crossed \/ GoodStep
    BY DirectoryStep
  <2>2. QED
    BY <2>1, Trees DEF GoodStep, UniqueNames
<1>4. QED
  BY <1>1, <1>2, <1>3, PTL DEF Cards!Spec, SerialDirectory, Cards!SerialDirectory
-----------------------------------------------------------------------------
(* Imports. A file works on a copy of the tables, flushed row by row; what it *)
(* has flushed follows from the rows before the current one, so that at the   *)
(* commit it follows from all of them. A file that is sent again finds each   *)
(* of its rows as the first attempt left it.                                  *)
\* The least of some numbers.
LEMMA FirstIn ==
  ASSUME NEW n \in Nat, NEW S \in SUBSET (1 .. n)
  PROVE  /\ Imports!FirstOf(S) = 0 <=> S = {}
         /\ S # {} => Imports!FirstOf(S) \in S
<1>1. CASE S = {}
  BY <1>1 DEF Imports!FirstOf
<1>2. CASE S # {}
  <2>1. S \subseteq 1 .. n /\ S \subseteq Int
    OBVIOUS
  <2>2. IsFiniteSet(S)
    BY <2>1, FS_Interval, FS_Subset, IsFiniteSet(1 .. n)
  <2>3. \E x \in S : \A y \in S : x <= y
    BY <1>2, <2>1, <2>2, LeastAndGreatest
  <2>4. Imports!FirstOf(S) \in S
    BY <1>2, <2>3 DEF Imports!FirstOf
  <2>5. QED
    <3>1. Imports!FirstOf(S) \in 1 .. n
      BY <2>1, <2>4
    <3>2. QED
      BY <1>2, <2>4, <3>1
<1>3. QED
  BY <1>1, <1>2

\* What a query by sku and name, or by name, finds among some rows.
Known(rows, sku, name) ==
  \E p \in rows : (sku # None /\ p.sku = sku) \/ (name # None /\ p.name = name)
Named(rows, name) == name # None /\ \E p \in rows : p.name = name

\* A product is found by its sku or name, a card by its name: an index of a row that fits, 0 where there is none.
LEMMA Found ==
  ASSUME NEW T, NEW rows \in Seq(T), NEW sku, NEW name
  PROVE  LET i == Imports!FindProduct(rows, sku, name)
             k == Imports!FindByName(rows, name)
         IN  /\ i = 0 <=> ~ Known(Imports!Elements(rows), sku, name)
             /\ i # 0 => i \in 1 .. Len(rows) /\ (rows[i].sku = sku \/ rows[i].name = name)
             /\ k = 0 <=> ~ Named(Imports!Elements(rows), name)
             /\ k # 0 => k \in 1 .. Len(rows) /\ rows[k].name = name
<1> DEFINE bySku == {i \in DOMAIN rows : sku # None /\ rows[i].sku = sku}
           byName == {i \in DOMAIN rows : name # None /\ rows[i].name = name}
<1>1. DOMAIN rows = 1 .. Len(rows) /\ Len(rows) \in Nat
  BY LenProperties
<1>2. bySku \in SUBSET (1 .. Len(rows)) /\ byName \in SUBSET (1 .. Len(rows))
  BY <1>1
<1>3. Known(Imports!Elements(rows), sku, name) <=> (bySku # {} \/ byName # {})
  BY DEF Known, Imports!Elements
<1>4. Named(Imports!Elements(rows), name) <=> byName # {}
  BY DEF Named, Imports!Elements
<1>5. /\ Imports!FindProduct(rows, sku, name) = Imports!FirstOf(IF bySku # {} THEN bySku ELSE byName)
      /\ Imports!FindByName(rows, name) = Imports!FirstOf(byName)
  BY DEF Imports!FindProduct, Imports!FindByName
<1>6. /\ Imports!FirstOf(byName) = 0 <=> byName = {}
      /\ byName # {} => Imports!FirstOf(byName) \in byName
      /\ Imports!FirstOf(bySku) = 0 <=> bySku = {}
      /\ bySku # {} => Imports!FirstOf(bySku) \in bySku
  <2> HIDE DEF bySku, byName
  <2>1. \A S \in SUBSET (1 .. Len(rows)) :
          (Imports!FirstOf(S) = 0 <=> S = {}) /\ (S # {} => Imports!FirstOf(S) \in S)
    BY <1>1, FirstIn
  <2>2. QED
    BY <2>1, <1>2
<1>7. \A j \in byName : j \in 1 .. Len(rows) /\ rows[j].name = name
  BY <1>1
<1>8. \A j \in bySku : j \in 1 .. Len(rows) /\ rows[j].sku = sku
  BY <1>1
<1> HIDE DEF bySku, byName
<1>9. QED
  BY <1>3, <1>4, <1>5, <1>6, <1>7, <1>8

\* More rows: what was found is still found.
LEMMA StillFound ==
  ASSUME NEW A, NEW B, A \subseteq B, NEW sku, NEW name
  PROVE  (Known(A, sku, name) => Known(B, sku, name)) /\ (Named(A, name) => Named(B, name))
BY DEF Known, Named

\* Rows added at the end of a table.
LEMMA Joined ==
  ASSUME NEW T, NEW s \in Seq(T), NEW t \in Seq(T)
  PROVE  /\ s \o t \in Seq(T) /\ Len(s) <= Len(s \o t) /\ Len(s) \in Nat /\ Len(s \o t) \in Nat
         /\ \A i \in 1 .. Len(s) : (s \o t)[i] = s[i]
         /\ Imports!Elements(s \o t) = Imports!Elements(s) \cup Imports!Elements(t)
<1>1. /\ s \o t \in Seq(T) /\ Len(s \o t) = Len(s) + Len(t)
      /\ \A i \in 1 .. Len(s) + Len(t) : (s \o t)[i] = IF i <= Len(s) THEN s[i] ELSE t[i - Len(s)]
  BY ConcatProperties
<1>2. /\ Len(s) \in Nat /\ DOMAIN s = 1 .. Len(s) /\ Len(t) \in Nat /\ DOMAIN t = 1 .. Len(t)
      /\ DOMAIN (s \o t) = 1 .. Len(s) + Len(t)
  BY <1>1, LenProperties
<1>3. Imports!Elements(s \o t) \subseteq Imports!Elements(s) \cup Imports!Elements(t)
  <2>1. ASSUME NEW i \in 1 .. Len(s) + Len(t)
        PROVE  (s \o t)[i] \in Imports!Elements(s) \cup Imports!Elements(t)
    <3>1. CASE i <= Len(s)
      BY <3>1, <1>1, <1>2 DEF Imports!Elements
    <3>2. CASE ~ i <= Len(s)
      <4>1. i - Len(s) \in DOMAIN t
        BY <3>2, <1>2
      <4>2. QED
        BY <4>1, <3>2, <1>1 DEF Imports!Elements
    <3>3. QED
      BY <3>1, <3>2
  <2>2. QED
    BY <2>1, <1>2 DEF Imports!Elements
<1>4. Imports!Elements(s) \subseteq Imports!Elements(s \o t)
  <2>1. \A i \in 1 .. Len(s) : s[i] = (s \o t)[i] /\ i \in DOMAIN (s \o t)
    BY <1>1, <1>2
  <2>2. QED
    BY <2>1, <1>2 DEF Imports!Elements
<1>5. Imports!Elements(t) \subseteq Imports!Elements(s \o t)
  <2>1. \A i \in 1 .. Len(t) : t[i] = (s \o t)[i + Len(s)] /\ i + Len(s) \in DOMAIN (s \o t)
    BY <1>1, <1>2
  <2>2. QED
    BY <2>1, <1>2 DEF Imports!Elements
<1>6. QED
  BY <1>1, <1>2, <1>3, <1>4, <1>5

\* One row added at the end of a table.
LEMMA Appended ==
  ASSUME NEW T, NEW s \in Seq(T), NEW e \in T
  PROVE  /\ Append(s, e) \in Seq(T) /\ Len(Append(s, e)) = Len(s) + 1 /\ Len(s) \in Nat
         /\ Append(s, e)[Len(s) + 1] = e /\ \A i \in 1 .. Len(s) : Append(s, e)[i] = s[i]
         /\ Imports!Elements(Append(s, e)) = Imports!Elements(s) \cup {e}
<1>1. /\ Append(s, e) \in Seq(T) /\ Len(Append(s, e)) = Len(s) + 1
      /\ \A i \in 1 .. Len(s) : Append(s, e)[i] = s[i]
      /\ Append(s, e)[Len(s) + 1] = e
  BY AppendProperties
<1>2. Len(s) \in Nat /\ DOMAIN s = 1 .. Len(s) /\ DOMAIN Append(s, e) = 1 .. Len(s) + 1
  BY <1>1, LenProperties
<1>3. Imports!Elements(Append(s, e)) = {Append(s, e)[i] : i \in 1 .. Len(s)} \cup {Append(s, e)[Len(s) + 1]}
  BY <1>2 DEF Imports!Elements
<1>4. {Append(s, e)[i] : i \in 1 .. Len(s)} = {s[i] : i \in 1 .. Len(s)}
  BY <1>1
<1>5. QED
  BY <1>1, <1>2, <1>3, <1>4 DEF Imports!Elements

\* A single row.
LEMMA OneRow ==
  ASSUME NEW T, NEW e \in T PROVE <<e>> \in Seq(T) /\ Imports!Elements(<<e>>) = {e}
<1>1. DOMAIN <<e>> = {1} /\ <<e>>[1] = e
  OBVIOUS
<1>2. QED
  BY <1>1 DEF Imports!Elements
-----------------------------------------------------------------------------
ImportColumn == {"pc", "file", "row", "pending", "flushed", "groups", "base", "local", "delta",
                 "keys", "locked", "overtaken", "again"}
\* Whatever a file may write into a card.
Cells ==
  {None, "a", "p", "w"}
    \cup (UNION {{f.rows[i][c] : i \in DOMAIN f.rows,
                                 c \in {"name", "sku", "category", "code", "place"}} : f \in ImportFile})
ProductCard == [sku : Cells, name : Cells, group : Cells]
OtherCard == [name : Cells, code : Cells]
CardOf(kind) == IF kind = "products" THEN ProductCard ELSE OtherCard

ImportTables ==
  /\ products \in Seq(ProductCard) /\ groups \in Seq(Cells)
  /\ partners \in Seq(OtherCard) /\ warehouses \in Seq(OtherCard)
  /\ stock = [k \in DOMAIN stock |-> stock[k]] /\ moved = [k \in DOMAIN moved |-> moved[k]]
  /\ DOMAIN stock \subseteq Imports!Key /\ DOMAIN moved = DOMAIN stock
  /\ \A k \in DOMAIN stock : stock[k] \in Nat /\ moved[k] \in Int
  /\ disturbed \subseteq DOMAIN stock
  /\ debts = [p \in DOMAIN debts |-> debts[p]] /\ DOMAIN debts \subseteq 1 .. Len(partners)

\* What the validation of a file has found of a row stays so: cards are only added.
RowFits(kind, r) ==
  /\ kind \in {"products", "partners", "warehouses"} => r.name # None
  /\ kind = "opening-stock" =>
       /\ r.number \in Nat /\ Known(Imports!Elements(products), r.sku, r.name)
       /\ Named(Imports!Elements(warehouses), r.place)
  /\ kind = "opening-partner-balances" => Named(Imports!Elements(partners), r.name)

\* A request that applies a file.
ImportShaped(s) ==
  LET v == import[s] IN
  /\ v = [c \in ImportColumn |-> v[c]]
  /\ v.again \in BOOLEAN /\ v.row \in Nat \ {0}
  /\ \/ v.pc = "idle" /\ v.row = 1 /\ ~ v.again /\ v.file = Imports!NoFile
     \/ /\ v.pc = "apply" /\ v.file \in ImportFile
        /\ Len(v.file.rows) <= MaxRows /\ v.row <= Len(v.file.rows) + 1
        /\ \A i \in 1 .. Len(v.file.rows) : RowFits(v.file.kind, v.file.rows[i])
  /\ v.flushed \in Seq(ProductCard) /\ v.groups \in Seq(Cells)
  /\ v.pending \in Seq(CardOf(v.file.kind))

\* What a session holds of a balance: the differences it will write are those to the
\* balance it has read, and to the one there is unless others have committed to it.
Agrees(v, k) ==
  /\ v.delta[k] \in Int
  /\ k \notin v.locked =>
       /\ k \in DOMAIN stock
       /\ v.delta[k] = IF k \in DOMAIN v.local THEN v.local[k] - v.base[k] ELSE 0
  /\ k \in DOMAIN v.local /\ k \notin v.overtaken =>
       v.delta[k] = v.local[k] - Imports!OrZero(stock, k)
Balances(v) ==
  /\ v.local = [k \in DOMAIN v.local |-> v.local[k]]
  /\ v.base = [k \in DOMAIN v.local |-> v.base[k]]
  /\ v.delta = [k \in DOMAIN v.delta |-> v.delta[k]]
  /\ v.locked \subseteq DOMAIN v.local /\ DOMAIN v.local \subseteq DOMAIN v.delta
  /\ DOMAIN v.delta \subseteq Imports!Key
  /\ \A k \in DOMAIN v.local : v.local[k] \in Nat /\ v.base[k] \in Nat
  /\ \A k \in DOMAIN v.delta : Agrees(v, k)
Explains(s) == Balances(import[s])

\* The rows it has gone through are there, or in what it will write.
Gone(v, P, R, W) ==
  LET rows == v.file.rows IN
  /\ v.file.kind = "products" => \A i \in 1 .. v.row - 1 :
       Known(Imports!Elements(P) \cup Imports!Elements(v.flushed) \cup Imports!Elements(v.pending),
             rows[i].sku, rows[i].name)
  /\ v.file.kind = "partners" => \A i \in 1 .. v.row - 1 :
       Named(Imports!Elements(R) \cup Imports!Elements(v.pending), rows[i].name)
  /\ v.file.kind = "warehouses" => \A i \in 1 .. v.row - 1 :
       Named(Imports!Elements(W) \cup Imports!Elements(v.pending), rows[i].name)
  /\ v.file.kind = "opening-stock" => \A i \in 1 .. v.row - 1 :
       /\ v.keys[i] \in DOMAIN v.delta
       /\ P[v.keys[i][1]].name = rows[i].name \/ P[v.keys[i][1]].sku = rows[i].sku
       /\ W[v.keys[i][2]].name = rows[i].place
Progress(s) == Gone(import[s], products, partners, warehouses)

\* The rows of opening stock: the last one of a balance is what the session holds, or
\* what it found there and has forgotten, unless others have committed to it.
Held(v, k, n) ==
  IF k \in DOMAIN v.local THEN v.local[k] = n
  ELSE k \in v.overtaken \/ Imports!OrZero(stock, k) = n
Lasts(f, done, v) ==
  /\ v.keys \in Seq(Nat \X Nat) /\ (f.kind = "opening-stock" => Len(v.keys) = done)
  /\ \A k \in DOMAIN v.delta : \E i \in 1 .. done :
       /\ f.kind = "opening-stock" /\ v.keys[i] = k /\ \A j \in i + 1 .. done : v.keys[j] # k
       /\ Held(v, k, f.rows[i].number)
LastCounts(s) == Lasts(import[s].file, import[s].row - 1, import[s])

\* Two states of a session that hold the same of the balances.
SameBalances(v, w) ==
  /\ w.base = v.base /\ w.local = v.local /\ w.delta = v.delta /\ w.locked = v.locked
  /\ w.overtaken = v.overtaken /\ w.keys = v.keys

\* A file that was just applied finds everything there.
Repeats(s) ==
  LET v == import[s] IN
  v.again =>
    /\ latest = [file |-> v.file, keys |-> Imports!KeysOf(v.file), spared |-> {}]
    /\ v.flushed = <<>> /\ v.pending = <<>> /\ v.groups = <<>>
    /\ v.file.kind = "opening-stock" => \A i \in 1 .. v.row - 1 : v.keys[i] = latest.keys[i]

SessionOK(s) == ImportShaped(s) /\ Explains(s) /\ Progress(s) /\ LastCounts(s) /\ Repeats(s)

ImportInv ==
  /\ ImportTables /\ OpeningExplained /\ Imports!Applied
  /\ import = [s \in Session |-> import[s]]
  /\ \A s \in Session : SessionOK(s)

\* Files: a sequence of rows, whatever is in them.
LEMMA Rows ==
  ASSUME NEW f \in ImportFile
  PROVE  /\ Len(f.rows) \in Nat /\ DOMAIN f.rows = 1 .. Len(f.rows)
         /\ f.kind \in ImportKind
         /\ \A i \in 1 .. Len(f.rows) :
              /\ f.rows[i].number \in Int \cup {None, NaN}
              /\ {f.rows[i].name, f.rows[i].sku, f.rows[i].category, f.rows[i].code, f.rows[i].place}
                   \subseteq Cells
<1>1. f.rows \in Seq({f.rows[i] : i \in DOMAIN f.rows})
  BY Files
<1>2. Len(f.rows) \in Nat /\ DOMAIN f.rows = 1 .. Len(f.rows)
  BY <1>1, LenProperties
<1>3. \A i \in DOMAIN f.rows, c \in {"name", "sku", "category", "code", "place"} : f.rows[i][c] \in Cells
  <2> DEFINE C(g) == {g.rows[i][c] : i \in DOMAIN g.rows,
                                     c \in {"name", "sku", "category", "code", "place"}}
  <2>1. Cells = {None, "a", "p", "w"} \cup (UNION {C(g) : g \in ImportFile})
    BY DEF Cells
  <2>2. C(f) \subseteq Cells
    BY <2>1
  <2>3. QED
    BY <2>2
<1>4. QED
  BY <1>2, <1>3, Files

\* A session that does nothing.
LEMMA NothingDone ==
  ASSUME NEW s, import[s] = Imports!Idle
  PROVE  SessionOK(s)
<1>1. Imports!Idle.pc = "idle" /\ Imports!Idle.file = Imports!NoFile /\ Imports!Idle.row = 1
      /\ Imports!Idle.pending = <<>> /\ Imports!Idle.flushed = <<>> /\ Imports!Idle.groups = <<>>
      /\ Imports!Idle.local = <<>> /\ Imports!Idle.delta = <<>> /\ Imports!Idle.keys = <<>>
      /\ Imports!Idle.base = <<>> /\ Imports!Idle.locked = {} /\ Imports!Idle.overtaken = {}
      /\ Imports!Idle.again = FALSE
      /\ Imports!Idle = [c \in ImportColumn |-> Imports!Idle[c]]
  BY DEF Imports!Idle, ImportColumn
<1>2. <<>> \in Seq(ProductCard) /\ <<>> \in Seq(Cells) /\ <<>> \in Seq(OtherCard)
      /\ <<>> \in Seq(Nat \X Nat)
  BY EmptySeq
<1>3. DOMAIN <<>> = {} /\ <<>> = [k \in {} |-> <<>>[k]]
  OBVIOUS
<1>4. Imports!NoFile.kind = "none"
  BY DEF Imports!NoFile
<1>5. ImportShaped(s)
  <2>1. import[s].file.kind # "products"
    BY <1>1, <1>4
  <2>2. import[s].pending \in Seq(CardOf(import[s].file.kind))
    BY <2>1, <1>1, <1>2 DEF CardOf
  <2>3. import[s] = [c \in ImportColumn |-> import[s][c]]
    BY <1>1
  <2>4. /\ import[s].pc = "idle" /\ import[s].row = 1 /\ import[s].file = Imports!NoFile
        /\ import[s].flushed \in Seq(ProductCard) /\ import[s].groups \in Seq(Cells)
    BY <1>1, <1>2
  <2>5. ~ import[s].again /\ import[s].again \in BOOLEAN
    BY <1>1
  <2>6. QED
    BY <2>2, <2>3, <2>4, <2>5 DEF ImportShaped
<1>6. Explains(s)
  BY <1>1, <1>3 DEF Explains, Balances
<1>7. Progress(s)
  BY <1>1, <1>4 DEF Progress, Gone
<1>8. LastCounts(s)
  BY <1>1, <1>2, <1>3, <1>4 DEF LastCounts, Lasts
<1>9. Repeats(s)
  BY <1>1 DEF Repeats
<1>10. QED
  BY <1>5, <1>6, <1>7, <1>8, <1>9 DEF SessionOK

\* No file is being imported.
LEMMA ImportInit == ASSUME Imports!Init PROVE ImportInv
<1>1. "a" \in Cells /\ "p" \in Cells /\ "w" \in Cells /\ None \in Cells
  BY DEF Cells
<1>2. products \in Seq(ProductCard)
  <2>1. [sku |-> None, name |-> "a", group |-> None] \in ProductCard
    BY <1>1 DEF ProductCard
  <2>2. QED
    BY <2>1 DEF Imports!Init
<1>3. partners \in Seq(OtherCard) /\ warehouses \in Seq(OtherCard)
  <2>1. [name |-> "p", code |-> None] \in OtherCard /\ [name |-> "w", code |-> None] \in OtherCard
    BY <1>1 DEF OtherCard
  <2>2. QED
    BY <2>1 DEF Imports!Init
<1>4. groups \in Seq(Cells)
  BY EmptySeq DEF Imports!Init
<1>5. stock = <<>> /\ moved = <<>> /\ debts = <<>> /\ disturbed = {} /\ DOMAIN <<>> = {}
      /\ <<>> = [k \in {} |-> <<>>[k]]
  BY DEF Imports!Init
<1>6. ImportTables
  BY <1>2, <1>3, <1>4, <1>5 DEF ImportTables
<1>7. OpeningExplained
  BY <1>5 DEF OpeningExplained, Imports!OpeningExplained
<1>8. Imports!Applied
  <2>1. latest.file.rows = <<>>
    BY DEF Imports!Init, Imports!Nothing, Imports!NoFile
  <2>2. QED
    BY <2>1, <1>5 DEF Imports!Applied
<1>9. import = [s \in Session |-> Imports!Idle]
  BY DEF Imports!Init
<1>10. QED
  BY <1>6, <1>7, <1>8, <1>9, NothingDone DEF ImportInv
-----------------------------------------------------------------------------
SameTables == UNCHANGED <<products, groups, partners, warehouses, stock, moved, debts, disturbed, latest>>

\* A step of another session that changes no table.
LEMMA Unmoved ==
  ASSUME NEW u, SessionOK(u), SameTables, import'[u] = import[u]
  PROVE  SessionOK(u)'
<1>1. \A kind, r : RowFits(kind, r)' <=> RowFits(kind, r)
  BY DEF SameTables, RowFits, Known, Named
<1>2. ImportShaped(u)'
  BY <1>1 DEF SessionOK, ImportShaped
<1>3. Explains(u)'
  BY DEF SessionOK, Explains, Balances, Agrees, SameTables, Imports!OrZero, Imports!Key
<1>4. Progress(u)'
  BY DEF SessionOK, Progress, SameTables
<1>5. LastCounts(u)'
  BY DEF SessionOK, LastCounts, Lasts, Held, SameTables, Imports!OrZero
<1>6. Imports!KeysOf(import[u].file)' = Imports!KeysOf(import[u].file)
  BY DEF SameTables, Imports!KeysOf, Imports!KeyOf
<1>7. Repeats(u)'
  BY <1>6 DEF SessionOK, Repeats, SameTables
<1>8. QED
  BY <1>2, <1>3, <1>4, <1>5, <1>7 DEF SessionOK

\* A session goes on while no table changes.
LEMMA OneSession ==
  ASSUME ImportInv, SameTables, NEW s \in Session, NEW w, import' = [import EXCEPT ![s] = w], SessionOK(s)'
  PROVE  ImportInv' /\ import'[s] = w
<1>1. import'[s] = w /\ (\A u \in Session \ {s} : import'[u] = import[u])
      /\ import' = [u \in Session |-> import'[u]]
  BY DEF ImportInv
<1>2. \A u \in Session : SessionOK(u)'
  BY <1>1, Unmoved DEF ImportInv
<1>3. ImportTables'
  BY DEF ImportInv, ImportTables, SameTables, Imports!Key
<1>4. OpeningExplained' /\ Imports!Applied'
  BY DEF ImportInv, SameTables, OpeningExplained, Imports!OpeningExplained, Imports!Applied
<1>5. QED
  BY <1>1, <1>2, <1>3, <1>4 DEF ImportInv

\* Cards are added, balances are written over.
Grow ==
  /\ ImportTables'
  /\ Len(products) <= Len(products') /\ \A i \in 1 .. Len(products) : products'[i] = products[i]
  /\ Len(warehouses) <= Len(warehouses') /\ \A i \in 1 .. Len(warehouses) : warehouses'[i] = warehouses[i]
  /\ Imports!Elements(products) \subseteq Imports!Elements(products)'
  /\ Imports!Elements(partners) \subseteq Imports!Elements(partners)'
  /\ Imports!Elements(warehouses) \subseteq Imports!Elements(warehouses)'
  /\ DOMAIN stock \subseteq DOMAIN stock'

\* What was reached of a file stays reached, as tables grow.
LEMMA GoneOn ==
  ASSUME NEW v, NEW w, w.file = v.file, w.row = v.row, w.flushed = v.flushed,
         w.pending = v.pending, w.keys = v.keys, w.delta = v.delta,
         NEW P, NEW R, NEW W, NEW P1, NEW R1, NEW W1, Gone(v, P, R, W),
         Imports!Elements(P) \subseteq Imports!Elements(P1),
         Imports!Elements(R) \subseteq Imports!Elements(R1),
         Imports!Elements(W) \subseteq Imports!Elements(W1),
         \A k \in DOMAIN v.delta : P1[k[1]] = P[k[1]] /\ W1[k[2]] = W[k[2]]
  PROVE  Gone(w, P1, R1, W1)
<1> DEFINE rows == v.file.rows
<1>1. ASSUME v.file.kind = "products", NEW i \in 1 .. v.row - 1
      PROVE  Known(Imports!Elements(P1) \cup Imports!Elements(v.flushed) \cup Imports!Elements(v.pending),
                   rows[i].sku, rows[i].name)
  <2>1. Known(Imports!Elements(P) \cup Imports!Elements(v.flushed) \cup Imports!Elements(v.pending),
                   rows[i].sku, rows[i].name)
    BY <1>1 DEF Gone
  <2>2. QED
    BY <2>1 DEF Known
<1>2. ASSUME v.file.kind = "partners", NEW i \in 1 .. v.row - 1
      PROVE  Named(Imports!Elements(R1) \cup Imports!Elements(v.pending), rows[i].name)
  <2>1. Named(Imports!Elements(R) \cup Imports!Elements(v.pending), rows[i].name)
    BY <1>2 DEF Gone
  <2>2. QED
    BY <2>1 DEF Named
<1>3. ASSUME v.file.kind = "warehouses", NEW i \in 1 .. v.row - 1
      PROVE  Named(Imports!Elements(W1) \cup Imports!Elements(v.pending), rows[i].name)
  <2>1. Named(Imports!Elements(W) \cup Imports!Elements(v.pending), rows[i].name)
    BY <1>3 DEF Gone
  <2>2. QED
    BY <2>1 DEF Named
<1>4. ASSUME v.file.kind = "opening-stock", NEW i \in 1 .. v.row - 1
      PROVE  /\ v.keys[i] \in DOMAIN v.delta
             /\ P1[v.keys[i][1]].name = rows[i].name \/ P1[v.keys[i][1]].sku = rows[i].sku
             /\ W1[v.keys[i][2]].name = rows[i].place
  BY <1>4 DEF Gone
<1>5. QED
  BY <1>1, <1>2, <1>3, <1>4 DEF Gone

\* The last rows stay what they are, as long as what is held of them does.
LEMMA LastsOn ==
  ASSUME NEW f, NEW n, NEW v, NEW w, Lasts(f, n, v), w.delta = v.delta, w.keys = v.keys,
         \A m : \A k \in DOMAIN v.delta : Held(v, k, m) => Held(w, k, m)'
  PROVE  Lasts(f, n, w)'
<1>1. ASSUME NEW k \in DOMAIN w.delta
      PROVE  \E i \in 1 .. n :
               /\ f.kind = "opening-stock" /\ w.keys[i] = k /\ \A j \in i + 1 .. n : w.keys[j] # k
               /\ Held(w, k, f.rows[i].number)'
  <2>1. PICK i \in 1 .. n :
          /\ f.kind = "opening-stock" /\ v.keys[i] = k /\ \A j \in i + 1 .. n : v.keys[j] # k
          /\ Held(v, k, f.rows[i].number)
    BY DEF Lasts
  <2>2. Held(w, k, f.rows[i].number)'
    BY <2>1
  <2>3. QED
    BY <2>1, <2>2
<1>2. w.keys \in Seq(Nat \X Nat) /\ (f.kind = "opening-stock" => Len(w.keys) = n)
  BY DEF Lasts
<1>3. QED
  BY <1>1, <1>2 DEF Lasts

\* A commit of another session, or a posting.
LEMMA OthersGrow ==
  ASSUME ImportInv, Grow, NEW u \in Session, NEW K, import'[u] = Imports!Overtake(u, K),
         \A k \in DOMAIN import[u].delta \ K : Imports!OrZero(stock, k)' = Imports!OrZero(stock, k)
  PROVE  SessionOK(u)'
<1> DEFINE v == import[u]
<1>1. SessionOK(u) /\ v = [c \in ImportColumn |-> v[c]]
  BY DEF ImportInv, SessionOK, ImportShaped
<1>2. /\ import'[u].again = FALSE
      /\ import'[u].overtaken = v.overtaken \cup (K \cap DOMAIN v.delta)
      /\ \A c \in ImportColumn \ {"again", "overtaken"} : import'[u][c] = v[c]
      /\ import'[u] = [c \in ImportColumn |-> import'[u][c]]
  BY <1>1 DEF ImportColumn, Imports!Overtake
<1>3. /\ import'[u].pc = v.pc /\ import'[u].file = v.file /\ import'[u].row = v.row
      /\ import'[u].pending = v.pending /\ import'[u].flushed = v.flushed
      /\ import'[u].groups = v.groups /\ import'[u].local = v.local /\ import'[u].delta = v.delta
      /\ import'[u].keys = v.keys /\ import'[u].base = v.base /\ import'[u].locked = v.locked
  BY <1>2 DEF ImportColumn
<1>4. \A kind, r : RowFits(kind, r) => RowFits(kind, r)'
  BY DEF Grow, RowFits, Known, Named
<1>5. ImportShaped(u)'
  <2>1. import'[u].again \in BOOLEAN /\ ~ import'[u].again
    BY <1>2
  <2>2. QED
    BY <1>1, <1>2, <1>3, <1>4, <2>1 DEF SessionOK, ImportShaped
<1>6. Imports!Key \subseteq Imports!Key'
  <2>1. Len(products) \in Nat /\ Len(products') \in Nat /\ Len(warehouses) \in Nat /\ Len(warehouses') \in Nat
    BY LenProperties DEF ImportInv, ImportTables, Grow
  <2>2. QED
    BY <2>1 DEF Imports!Key, Grow
<1>7. Explains(u)'
  <2>1. Balances(v) /\ DOMAIN stock \subseteq DOMAIN stock'
    BY <1>1 DEF SessionOK, Explains, Grow
  <2>2. PICK w : w = import'[u]
    OBVIOUS
  <2>3. /\ w.local = v.local /\ w.delta = v.delta /\ w.base = v.base /\ w.locked = v.locked
        /\ w.overtaken = v.overtaken \cup (K \cap DOMAIN v.delta)
    BY <1>2, <1>3, <2>2
  <2>4. ASSUME NEW k \in DOMAIN v.delta PROVE Agrees(w, k)'
    <3>1. k \notin w.overtaken =>
            k \notin v.overtaken /\ Imports!OrZero(stock, k)' = Imports!OrZero(stock, k)
      BY <2>3
    <3>2. Agrees(v, k)
      BY <2>1 DEF Balances
    <3>3. QED
      BY <2>1, <2>3, <3>1, <3>2 DEF Agrees
  <2>5. Balances(w)'
    BY <1>6, <2>1, <2>3, <2>4 DEF Balances
  <2>6. QED
    BY <2>2, <2>5 DEF Explains
<1>8. Progress(u)'
  <2>1. \A k \in DOMAIN v.delta : products'[k[1]] = products[k[1]] /\ warehouses'[k[2]] = warehouses[k[2]]
    BY <1>1 DEF SessionOK, Explains, Balances, Imports!Key, Grow
  <2>2. /\ Imports!Elements(products) \subseteq Imports!Elements(products')
        /\ Imports!Elements(partners) \subseteq Imports!Elements(partners')
        /\ Imports!Elements(warehouses) \subseteq Imports!Elements(warehouses')
    BY DEF Grow, Imports!Elements
  <2>3. Gone(v, products, partners, warehouses)
    BY <1>1 DEF SessionOK, Progress
  <2>4. Gone(import'[u], products', partners', warehouses')
    BY <1>3, <2>1, <2>2, <2>3, GoneOn, Zenon
  <2>5. QED
    BY <2>4 DEF Progress
<1>9. LastCounts(u)'
  <2>1. Lasts(v.file, v.row - 1, v)
    BY <1>1 DEF SessionOK, LastCounts
  <2>2. PICK w : w = import'[u]
    OBVIOUS
  <2>3. /\ w.file = v.file /\ w.row = v.row /\ w.keys = v.keys
        /\ w.local = v.local /\ w.delta = v.delta
        /\ w.overtaken = v.overtaken \cup (K \cap DOMAIN v.delta)
    BY <1>2, <1>3, <2>2
  <2>4. ASSUME NEW k \in DOMAIN v.delta, NEW n, Held(v, k, n) PROVE Held(w, k, n)'
    <3>1. \/ k \in w.overtaken
          \/ k \notin v.overtaken /\ Imports!OrZero(stock, k)' = Imports!OrZero(stock, k)
      BY <2>3
    <3>2. QED
      BY <2>3, <2>4, <3>1 DEF Held
  <2>5. Lasts(w.file, w.row - 1, w)'
    BY <2>1, <2>3, <2>4, LastsOn
  <2>6. QED
    BY <2>2, <2>5 DEF LastCounts
<1>10. Repeats(u)'
  BY <1>2 DEF Repeats
<1>11. QED
  BY <1>5, <1>7, <1>8, <1>9, <1>10 DEF SessionOK

\* A session without a file owes nothing.
LEMMA IdleNow == \A u : import[u] = Imports!Idle => SessionOK(u)
BY NothingDone

\* The same after a step.
LEMMA IdleThen == (\A u : import[u] = Imports!Idle => SessionOK(u))'
BY IdleNow, PTL

\* The end of an import: all others go on as they were.
LEMMA Commit ==
  ASSUME ImportInv, Grow, NEW s \in Session, NEW K, Imports!Committed(s, K),
         \A k : k \in K \/ Imports!OrZero(stock, k)' = Imports!OrZero(stock, k),
         OpeningExplained', Imports!Applied'
  PROVE  ImportInv'
<1>1. /\ import' = [u \in Session |-> import'[u]] /\ import'[s] = Imports!Idle
      /\ \A u \in Session \ {s} : import'[u] = Imports!Overtake(u, K)
  BY DEF Imports!Committed
<1>2. SessionOK(s)'
  BY <1>1, IdleThen
<1>3. \A u \in Session \ {s} : SessionOK(u)'
  BY <1>1, OthersGrow
<1>4. ImportTables'
  BY DEF Grow
<1>5. QED
  BY <1>1, <1>2, <1>3, <1>4 DEF ImportInv

\* A session rolls back.
LEMMA GaveUpImport ==
  ASSUME ImportInv, NEW s \in Session, Imports!Rollback(s) PROVE ImportInv'
<1>1. import' = [import EXCEPT ![s] = Imports!Idle] /\ SameTables
  BY DEF Imports!Rollback, Imports!Idles, Imports!tables, SameTables
<1>2. import'[s] = Imports!Idle
  BY <1>1 DEF ImportInv
<1>3. SessionOK(s)'
  BY <1>2, IdleThen
<1>4. QED
  BY <1>1, <1>3, OneSession

\* What the validation finds of a row.
LEMMA NoError ==
  ASSUME ImportTables, NEW f \in ImportFile, Imports!Valid(f), NEW i \in 1 .. Len(f.rows)
  PROVE  RowFits(f.kind, f.rows[i])
<1> DEFINE r == f.rows[i]
<1>1. ~ Imports!HasError(f.kind, r)
  BY Rows DEF Imports!Valid
<1>2. f.kind \in {"products", "partners", "warehouses"} => r.name # None
  <2>1. f.kind \in {"products", "partners", "warehouses"} => "name" \in Imports!Required(f.kind)
    BY DEF Imports!Required
  <2>2. QED
    BY <1>1, <2>1 DEF Imports!HasError
<1>3. ASSUME f.kind = "opening-stock"
      PROVE  /\ r.number \in Nat /\ Known(Imports!Elements(products), r.sku, r.name)
             /\ Named(Imports!Elements(warehouses), r.place)
  <2>1. "number" \in Imports!Required(f.kind)
    BY <1>3 DEF Imports!Required
  <2>2. r.number # None /\ ~ Imports!BadNumber(f.kind, r.number) /\ Imports!KeyOf(r) \in Imports!Key
    BY <1>1, <1>3, <2>1 DEF Imports!HasError
  <2>3. r.number \in Nat
    BY <1>3, <2>2, Rows DEF Imports!BadNumber
  <2>4. /\ Imports!FindProduct(products, r.sku, r.name) \in 1 .. Len(products)
        /\ Imports!FindByName(warehouses, r.place) \in 1 .. Len(warehouses)
    BY <2>2 DEF Imports!KeyOf, Imports!Key
  <2>5. /\ Imports!FindProduct(products, r.sku, r.name) # 0
        /\ Imports!FindByName(warehouses, r.place) # 0
    BY <2>4
  <2>6. Known(Imports!Elements(products), r.sku, r.name)
    BY <2>5, Found DEF ImportTables
  <2>7. Named(Imports!Elements(warehouses), r.place)
    BY <2>5, Found DEF ImportTables
  <2>8. QED
    BY <2>3, <2>6, <2>7
<1>4. ASSUME f.kind = "opening-partner-balances"
      PROVE  Named(Imports!Elements(partners), r.name)
  <2>1. Imports!FindByName(partners, r.name) # 0
    BY <1>1, <1>4 DEF Imports!HasError
  <2>2. QED
    BY <2>1, Found DEF ImportTables
<1>5. QED
  BY <1>2, <1>3, <1>4 DEF RowFits

\* A file is sent.
LEMMA Started ==
  ASSUME ImportInv, NEW s \in Session, NEW f \in ImportFile, Imports!Start(s, f) PROVE ImportInv'
<1> DEFINE again == (latest = [file |-> f, keys |-> Imports!KeysOf(f), spared |-> {}])
           w == [Imports!Idle EXCEPT !.pc = "apply", !.file = f, !.again = again]
<1>1. import' = [import EXCEPT ![s] = w] /\ SameTables /\ Imports!Valid(f)
  BY DEF Imports!Start, Imports!tables, SameTables
<1>2. import'[s] = w
  BY <1>1 DEF ImportInv
<1>3. /\ w.pc = "apply" /\ w.file = f /\ w.row = 1 /\ w.pending = <<>> /\ w.flushed = <<>>
      /\ w.groups = <<>> /\ w.local = <<>> /\ w.delta = <<>> /\ w.keys = <<>> /\ w.again = again
      /\ w.base = <<>> /\ w.locked = {} /\ w.overtaken = {}
      /\ w = [c \in ImportColumn |-> w[c]]
  BY DEF Imports!Idle, ImportColumn
<1>4. <<>> \in Seq(ProductCard) /\ <<>> \in Seq(Cells) /\ <<>> \in Seq(CardOf(f.kind))
      /\ <<>> \in Seq(Nat \X Nat) /\ Len(<<>>) = 0
  BY EmptySeq
<1>5. DOMAIN <<>> = {} /\ <<>> = [k \in {} |-> <<>>[k]]
  OBVIOUS
<1>6. Len(f.rows) \in Nat /\ Len(f.rows) <= MaxRows
  BY <1>1, Rows DEF Imports!Valid
<1> HIDE DEF w
<1>7. ImportShaped(s)'
  <2>1. \A i \in 1 .. Len(f.rows) : RowFits(f.kind, f.rows[i])
    BY <1>1, NoError DEF ImportInv
  <2>2. \A i \in 1 .. Len(f.rows) : RowFits(f.kind, f.rows[i])'
    BY <1>1, <2>1 DEF RowFits, SameTables
  <2>3. again \in BOOLEAN /\ 1 \in Nat \ {0} /\ 1 <= Len(f.rows) + 1
    BY <1>6
  <2>4. QED
    BY <1>2, <1>3, <1>4, <1>6, <2>2, <2>3 DEF ImportShaped
<1>8. Explains(s)'
  BY <1>2, <1>3, <1>5 DEF Explains, Balances
<1>9. Progress(s)'
  <2>1. \A i \in 1 .. w.row - 1 : FALSE
    BY <1>3
  <2>2. Gone(w, products', partners', warehouses')
    BY <2>1 DEF Gone
  <2>3. QED
    BY <1>2, <2>2 DEF Progress
<1>10. LastCounts(s)'
  <2>1. w.row - 1 = 0 /\ w.keys \in Seq(Nat \X Nat) /\ Len(w.keys) = 0 /\ DOMAIN w.delta = {}
    BY <1>3, <1>4, <1>5
  <2>2. QED
    BY <1>2, <2>1 DEF LastCounts, Lasts
<1>11. Repeats(s)'
  <2>1. Imports!KeysOf(f)' = Imports!KeysOf(f)
    BY <1>1 DEF SameTables, Imports!KeysOf, Imports!KeyOf
  <2>2. latest' = latest
    BY <1>1 DEF SameTables
  <2>3. \A i \in 1 .. w.row - 1 : FALSE
    BY <1>3
  <2>4. QED
    BY <1>2, <1>3, <2>1, <2>2, <2>3 DEF Repeats
<1>12. QED
  BY <1>1, <1>7, <1>8, <1>9, <1>10, <1>11, OneSession DEF SessionOK
\* A session that has one more row behind it.
LEMMA RowDone ==
  ASSUME ImportInv, SameTables, NEW s \in Session, import[s].pc = "apply", Imports!MoreRows(s),
         NEW w, import' = [import EXCEPT ![s] = w], w = [c \in ImportColumn |-> w[c]],
         w.pc = import[s].pc, w.file = import[s].file, w.again = import[s].again,
         w.row = import[s].row + 1,
         w.flushed \in Seq(ProductCard), w.groups \in Seq(Cells),
         w.pending \in Seq(CardOf(import[s].file.kind)),
         Explains(s)', Gone(w, products, partners, warehouses),
         Lasts(w.file, import[s].row, w),
         w.again => /\ w.flushed = <<>> /\ w.pending = <<>> /\ w.groups = <<>>
                    /\ w.file.kind = "opening-stock" => \A i \in 1 .. import[s].row : w.keys[i] = latest.keys[i]
  PROVE  ImportInv'
<1> DEFINE v == import[s]
<1>1. import'[s] = w
  BY DEF ImportInv
<1>2. SessionOK(s)
  BY DEF ImportInv
<1>3. /\ v.file \in ImportFile /\ v.again \in BOOLEAN /\ v.row \in Nat \ {0} /\ v.row <= Len(v.file.rows)
      /\ Len(v.file.rows) <= MaxRows
      /\ \A i \in 1 .. Len(v.file.rows) : RowFits(v.file.kind, v.file.rows[i])
  BY <1>2 DEF SessionOK, ImportShaped, Imports!MoreRows
<1>4. ImportShaped(s)'
  <2>1. \A i \in 1 .. Len(v.file.rows) : RowFits(v.file.kind, v.file.rows[i])'
    BY <1>3 DEF RowFits, SameTables
  <2>2. w.row \in Nat \ {0} /\ w.row <= Len(v.file.rows) + 1
    BY <1>3, Rows
  <2>3. QED
    BY <1>1, <1>3, <2>1, <2>2 DEF ImportShaped
<1>5. Progress(s)'
  <2>1. Gone(w, products', partners', warehouses')
    BY DEF SameTables
  <2>2. QED
    BY <1>1, <2>1 DEF Progress
<1>6. LastCounts(s)'
  <2>1. w.row - 1 = v.row
    <3>1. v.row \in Nat /\ w.row = v.row + 1
      BY <1>3
    <3>2. QED
      BY ONLY <3>1
  <2>2. Lasts(w.file, w.row - 1, w)
    BY <2>1
  <2>3. Lasts(w.file, w.row - 1, w)'
    <3>1. \A m : \A k \in DOMAIN w.delta : Held(w, k, m) => Held(w, k, m)'
      BY DEF Held, SameTables, Imports!OrZero
    <3>2. QED
      BY <2>2, <3>1, LastsOn
  <2>4. QED
    BY <1>1, <2>3 DEF LastCounts
<1>7. Repeats(s)'
  <2>2. w.again => latest = [file |-> w.file, keys |-> Imports!KeysOf(w.file), spared |-> {}]
    BY <1>2 DEF SessionOK, Repeats
  <2>3. latest' = latest /\ w.row - 1 = v.row
    <3>1. v.row \in Nat /\ w.row = v.row + 1
      BY <1>3
    <3>2. w.row - 1 = v.row
      BY ONLY <3>1
    <3>3. QED
      BY <3>2 DEF SameTables
  <2>4. Imports!KeysOf(w.file)' = Imports!KeysOf(w.file)
    BY DEF SameTables, Imports!KeysOf, Imports!KeyOf
  <2>5. QED
    BY <1>1, <2>2, <2>3, <2>4 DEF Repeats
<1>8. QED
  BY <1>4, <1>5, <1>6, <1>7, OneSession DEF SessionOK

\* Files of cards touch no balance.
LEMMA NoBalance ==
  ASSUME NEW s, SessionOK(s), import[s].file.kind # "opening-stock"
  PROVE  DOMAIN import[s].delta = {} /\ \A n : Lasts(import[s].file, n, import[s])
<1>1. DOMAIN import[s].delta = {} /\ import[s].keys \in Seq(Nat \X Nat)
  BY DEF SessionOK, LastCounts, Lasts
<1>2. QED
  BY <1>1 DEF Lasts

\* Nor does a row of cards.
LEMMA BalancesKept ==
  ASSUME ImportInv, SameTables, NEW s \in Session, NEW w, import' = [import EXCEPT ![s] = w],
         SameBalances(import[s], w), Explains(s), w.file = import[s].file,
         NEW n, Lasts(import[s].file, n, import[s])
  PROVE  Explains(s)' /\ Lasts(w.file, n, w)
<1>1. import'[s] = w
  BY DEF ImportInv
<1>2. Balances(w)
  BY DEF Explains, Balances, Agrees, SameBalances
<1>3. Balances(w)'
  BY <1>2 DEF Balances, Agrees, SameTables, Imports!OrZero, Imports!Key
<1>4. Lasts(w.file, n, w)
  BY DEF Lasts, Held, SameBalances
<1>5. QED
  BY <1>1, <1>3, <1>4 DEF Explains

\* The current row of a product file is applied.
LEMMA ProductApplied ==
  ASSUME ImportInv, NEW s \in Session, Imports!ApplyProduct(s) PROVE ImportInv'
<1> DEFINE v == import[s]
           r == v.file.rows[v.row]
           seen == products \o v.flushed
           entry == [sku |-> r.sku, name |-> r.name, group |-> r.category]
<1>1. v.pc = "apply" /\ v.file.kind = "products" /\ Imports!MoreRows(s) /\ SameTables
  BY DEF Imports!ApplyProduct, Imports!Applying, Imports!tables, SameTables
<1>2. SessionOK(s) /\ ImportTables /\ Imports!Applied
  BY DEF ImportInv
<1>3. /\ v = [c \in ImportColumn |-> v[c]] /\ v.again \in BOOLEAN /\ v.row \in Nat \ {0}
      /\ v.file \in ImportFile /\ v.row <= Len(v.file.rows) /\ v.row \in 1 .. Len(v.file.rows)
      /\ RowFits("products", r) /\ v.flushed \in Seq(ProductCard) /\ v.groups \in Seq(Cells)
      /\ v.pending \in Seq(ProductCard)
  <2>1. /\ v = [c \in ImportColumn |-> v[c]] /\ v.again \in BOOLEAN /\ v.row \in Nat \ {0}
        /\ v.file \in ImportFile /\ v.row <= Len(v.file.rows) /\ v.flushed \in Seq(ProductCard)
        /\ v.groups \in Seq(Cells)
        /\ v.pending \in Seq(CardOf("products"))
        /\ \A i \in 1 .. Len(v.file.rows) : RowFits("products", v.file.rows[i])
    BY <1>1, <1>2 DEF SessionOK, ImportShaped, Imports!MoreRows
  <2>2. v.row \in 1 .. Len(v.file.rows)
    BY <2>1, Rows
  <2>3. QED
    BY <2>1, <2>2 DEF CardOf
<1>4. entry \in ProductCard /\ r.category \in Cells /\ r.name # None
  BY <1>3, Rows, Zenon DEF ProductCard, RowFits
<1>5. /\ seen \in Seq(ProductCard)
      /\ Imports!Elements(seen) = Imports!Elements(products) \cup Imports!Elements(v.flushed)
  <2>1. products \in Seq(ProductCard) /\ v.flushed \in Seq(ProductCard)
    BY <1>2, <1>3 DEF ImportTables
  <2>2. QED
    BY ONLY <2>1, Joined
<1>6. Explains(s)
  BY <1>2 DEF SessionOK
<1>7. Gone(v, products, partners, warehouses)
  BY <1>2 DEF SessionOK, Progress
<1>8. DOMAIN v.delta = {} /\ Lasts(v.file, v.row, v)
  BY <1>1, <1>2, NoBalance
<1>9. ASSUME NEW w, import' = [import EXCEPT ![s] = w], SameBalances(v, w), w.file = v.file
      PROVE  Explains(s)' /\ Lasts(w.file, v.row, w)
  BY <1>6, <1>8, <1>9, <1>1, BalancesKept
\* What there was before it is still there, and the row itself.
<1>10. ASSUME NEW w, w.file = v.file, w.row = v.row + 1,
              Imports!Elements(products) \cup Imports!Elements(v.flushed) \cup Imports!Elements(v.pending)
                \subseteq Imports!Elements(products) \cup Imports!Elements(w.flushed) \cup Imports!Elements(w.pending),
              Known(Imports!Elements(products) \cup Imports!Elements(w.flushed) \cup Imports!Elements(w.pending),
                    r.sku, r.name)
       PROVE  Gone(w, products, partners, warehouses)
  <2>1. ASSUME NEW i \in 1 .. w.row - 1
        PROVE  Known(Imports!Elements(products) \cup Imports!Elements(w.flushed) \cup Imports!Elements(w.pending),
                     v.file.rows[i].sku, v.file.rows[i].name)
    <3>1. CASE i = v.row
      BY <3>1, <1>10
    <3>2. CASE i # v.row
      <4>1. i \in 1 .. v.row - 1
        <5>1. v.row \in Nat /\ w.row = v.row + 1 /\ i \in 1 .. w.row - 1
          BY <1>3, <1>10, Zenon
        <5>2. QED
          BY ONLY <3>2, <5>1
      <4>2. Known(Imports!Elements(products) \cup Imports!Elements(v.flushed) \cup Imports!Elements(v.pending),
                  v.file.rows[i].sku, v.file.rows[i].name)
        BY <4>1, <1>1, <1>7 DEF Gone
      <4>3. QED
        BY <4>2, <1>10, StillFound
    <3>3. QED
      BY <3>1, <3>2
  <2>2. QED
    BY <2>1, <1>1, <1>10, Zenon DEF Gone
<1>11. Imports!SeenProducts(s) = seen /\ Imports!Row(s) = r
  BY DEF Imports!SeenProducts, Imports!Row
<1>12. CASE Imports!FindProduct(seen, r.sku, r.name) # 0
  <2> DEFINE w == [v EXCEPT !.row = @ + 1]
  <2>1. import' = [import EXCEPT ![s] = w]
    BY <1>12, <1>11 DEF Imports!ApplyProduct
  <2>2. /\ w = [c \in ImportColumn |-> w[c]] /\ w.row = v.row + 1
        /\ w.pc = v.pc /\ w.file = v.file /\ w.again = v.again /\ w.flushed = v.flushed
        /\ w.groups = v.groups /\ w.pending = v.pending /\ SameBalances(v, w)
    BY <1>3 DEF ImportColumn, SameBalances
  <2> HIDE DEF w
  <2>3. Known(Imports!Elements(seen), r.sku, r.name)
    <3>1. seen \in Seq(ProductCard)
      BY <1>5
    <3>2. QED
      <4> HIDE DEF seen, r
      <4>1. QED
        BY ONLY <1>12, <3>1, Found
  <2>4. Known(Imports!Elements(products) \cup Imports!Elements(v.flushed) \cup Imports!Elements(v.pending),
              r.sku, r.name)
    BY <2>3, <1>5, Zenon DEF Known
  <2>5. Gone(w, products, partners, warehouses)
    BY <2>2, <2>4, <1>10, Zenon
  <2>6. w.again => w.flushed = <<>> /\ w.pending = <<>> /\ w.groups = <<>>
    BY <2>2, <1>2 DEF SessionOK, Repeats
  <2>7. w.file.kind # "opening-stock"
    BY <2>2, <1>1
  <2>8. v.pending \in Seq(CardOf(v.file.kind))
    BY <1>1, <1>3 DEF CardOf
  <2>9. QED
    BY <2>1, <2>2, <2>5, <2>6, <2>7, <2>8, <1>1, <1>3, <1>9, RowDone
<1>13. CASE Imports!FindProduct(seen, r.sku, r.name) = 0
  <2>1. ~ v.again
    <3>1. SUFFICES ASSUME v.again PROVE FALSE
      OBVIOUS
    <3>2. latest.file = v.file /\ v.flushed = <<>>
      BY <3>1, <1>2 DEF SessionOK, Repeats
    <3>3. Imports!FindProduct(products, r.sku, r.name) # 0
      BY <3>2, <1>1, <1>2, <1>3, Rows, Zenon DEF Imports!Applied
    <3>4. Known(Imports!Elements(products), r.sku, r.name)
      BY <3>3, <1>2, Found DEF ImportTables
    <3>5. Known(Imports!Elements(seen), r.sku, r.name)
      BY <3>4, <1>5, Zenon DEF Known
    <3>6. QED
      BY <3>5, <1>13, <1>5, Found
  <2>2. CASE r.category # None /\ r.category \notin Imports!Elements(groups \o v.groups)
    <3> DEFINE w == [v EXCEPT !.row = @ + 1, !.groups = Append(@, r.category),
                              !.flushed = @ \o v.pending, !.pending = <<entry>>]
    <3>1. import' = [import EXCEPT ![s] = w]
      BY <1>13, <1>11, <2>2 DEF Imports!ApplyProduct
    <3>2. /\ w = [c \in ImportColumn |-> w[c]] /\ w.row = v.row + 1
          /\ w.pc = v.pc /\ w.file = v.file /\ w.again = v.again
          /\ w.groups = Append(v.groups, r.category) /\ w.flushed = v.flushed \o v.pending
          /\ w.pending = <<entry>> /\ SameBalances(v, w)
      BY <1>3, Zenon DEF ImportColumn, SameBalances
    <3> HIDE DEF w
    <3>3. /\ v.flushed \o v.pending \in Seq(ProductCard)
          /\ Imports!Elements(v.flushed \o v.pending) = Imports!Elements(v.flushed) \cup Imports!Elements(v.pending)
      BY <1>3, Joined
    <3>4. Append(v.groups, r.category) \in Seq(Cells)
      BY <1>3, <1>4, Appended, Zenon
    <3>5. <<entry>> \in Seq(ProductCard) /\ Imports!Elements(<<entry>>) = {entry}
      <4>1. entry \in ProductCard
        BY <1>4
      <4> HIDE DEF entry
      <4>2. QED
        BY ONLY <4>1, OneRow
    <3>6. entry.name = r.name
      OBVIOUS
    <3>7. Known(Imports!Elements(products) \cup Imports!Elements(w.flushed) \cup Imports!Elements(w.pending),
                r.sku, r.name)
      BY <3>2, <3>5, <3>6, <1>4, Zenon DEF Known
    <3>8. Gone(w, products, partners, warehouses)
      BY <3>2, <3>3, <3>7, <1>10, Zenon
    <3>9. w.pending \in Seq(CardOf(v.file.kind)) /\ ~ w.again
      BY <3>2, <3>5, <1>1, <2>1, Zenon DEF CardOf
    <3>10. QED
      BY <3>1, <3>2, <3>3, <3>4, <3>8, <3>9, <1>1, <1>3, <1>9, RowDone, Zenon
  <2>3. CASE ~ (r.category # None /\ r.category \notin Imports!Elements(groups \o v.groups))
    <3> DEFINE w == [v EXCEPT !.row = @ + 1, !.pending = Append(@, entry)]
    <3>1. import' = [import EXCEPT ![s] = w]
      BY <1>13, <1>11, <2>3, Zenon DEF Imports!ApplyProduct
    <3>2. /\ w = [c \in ImportColumn |-> w[c]] /\ w.row = v.row + 1
          /\ w.pc = v.pc /\ w.file = v.file /\ w.again = v.again
          /\ w.groups = v.groups /\ w.flushed = v.flushed
          /\ w.pending = Append(v.pending, entry) /\ SameBalances(v, w)
      BY <1>3, Zenon DEF ImportColumn, SameBalances
    <3> HIDE DEF w
    <3>3. /\ w.pending \in Seq(ProductCard)
          /\ Imports!Elements(w.pending) = Imports!Elements(v.pending) \cup {entry}
      <4>1. entry \in ProductCard /\ v.pending \in Seq(ProductCard) /\ w.pending = Append(v.pending, entry)
        BY <1>3, <1>4, <3>2, Zenon
      <4> HIDE DEF entry
      <4>2. QED
        BY <4>1, Appended
    <3>4. entry.name = r.name
      OBVIOUS
    <3>5. Known(Imports!Elements(products) \cup Imports!Elements(w.flushed) \cup Imports!Elements(w.pending),
                r.sku, r.name)
      BY <3>3, <3>4, <1>4, Zenon DEF Known
    <3>6. Gone(w, products, partners, warehouses)
      BY <3>2, <3>3, <3>5, <1>10, Zenon
    <3>7. w.pending \in Seq(CardOf(v.file.kind)) /\ ~ w.again
      BY <3>2, <3>3, <1>1, <2>1, Zenon DEF CardOf
    <3>8. QED
      BY <3>1, <3>2, <3>6, <3>7, <1>1, <1>3, <1>9, RowDone, Zenon
  <2>4. QED
    BY <2>2, <2>3
<1>14. QED
  BY <1>12, <1>13

\* The current row of a file of partners or warehouses is applied.
LEMMA CardApplied ==
  ASSUME ImportInv, NEW s \in Session, NEW kind \in {"partners", "warehouses"},
         Imports!Applying(s, kind), NEW rows \in Seq(OtherCard), Imports!ApplyCard(s, rows),
         kind = "partners" => rows = partners, kind = "warehouses" => rows = warehouses
  PROVE  ImportInv'
<1> DEFINE v == import[s]
           r == v.file.rows[v.row]
           entry == [name |-> r.name, code |-> r.code]
           found == Imports!FindByName(rows, r.name) # 0
<1>1. v.pc = "apply" /\ v.file.kind = kind /\ Imports!MoreRows(s) /\ SameTables
  BY DEF Imports!ApplyCard, Imports!Applying, Imports!tables, SameTables
<1>2. SessionOK(s) /\ ImportTables /\ Imports!Applied
  BY DEF ImportInv
<1>3. /\ v = [c \in ImportColumn |-> v[c]] /\ v.again \in BOOLEAN /\ v.row \in Nat \ {0}
      /\ v.file \in ImportFile /\ v.row <= Len(v.file.rows) /\ v.row \in 1 .. Len(v.file.rows)
      /\ RowFits(kind, r) /\ v.flushed \in Seq(ProductCard) /\ v.groups \in Seq(Cells)
      /\ v.pending \in Seq(OtherCard)
  <2>1. /\ v = [c \in ImportColumn |-> v[c]] /\ v.again \in BOOLEAN /\ v.row \in Nat \ {0}
        /\ v.file \in ImportFile /\ v.row <= Len(v.file.rows) /\ v.flushed \in Seq(ProductCard)
        /\ v.groups \in Seq(Cells)
        /\ v.pending \in Seq(CardOf(kind))
        /\ \A i \in 1 .. Len(v.file.rows) : RowFits(kind, v.file.rows[i])
    BY <1>1, <1>2 DEF SessionOK, ImportShaped, Imports!MoreRows
  <2>2. v.row \in 1 .. Len(v.file.rows)
    BY <2>1, Rows
  <2>3. kind # "products"
    OBVIOUS
  <2>4. QED
    BY <2>1, <2>2, <2>3 DEF CardOf
<1>4. entry \in OtherCard /\ r.name # None /\ entry.name = r.name
  BY <1>3, Rows, Zenon DEF OtherCard, RowFits
<1>5. Explains(s) /\ Gone(v, products, partners, warehouses)
  BY <1>2 DEF SessionOK, Progress
<1>6. DOMAIN v.delta = {} /\ Lasts(v.file, v.row, v)
  BY <1>1, <1>2, NoBalance
<1>7. PICK w : /\ import' = [import EXCEPT ![s] = w]
               /\ w = [c \in ImportColumn |-> w[c]] /\ w.row = v.row + 1
               /\ w.pc = v.pc /\ w.file = v.file /\ w.again = v.again /\ w.groups = v.groups
               /\ w.flushed = v.flushed
               /\ w.pending = (IF found THEN v.pending ELSE Append(v.pending, entry))
               /\ SameBalances(v, w)
  <2>1. CASE found
    <3> DEFINE w == [v EXCEPT !.row = @ + 1, !.pending = @]
    <3>1. import' = [import EXCEPT ![s] = w]
      BY <2>1 DEF Imports!ApplyCard, Imports!Row
    <3>2. /\ w = [c \in ImportColumn |-> w[c]] /\ w.row = v.row + 1
          /\ w.pc = v.pc /\ w.file = v.file /\ w.again = v.again /\ w.groups = v.groups
          /\ w.flushed = v.flushed /\ w.pending = v.pending
          /\ SameBalances(v, w)
      BY <1>3 DEF ImportColumn, SameBalances
    <3> HIDE DEF w
    <3>3. QED
      BY <2>1, <3>1, <3>2
  <2>2. CASE ~ found
    <3> DEFINE w == [v EXCEPT !.row = @ + 1, !.pending = Append(@, entry)]
    <3>1. import' = [import EXCEPT ![s] = w]
      BY <2>2 DEF Imports!ApplyCard, Imports!Row
    <3>2. /\ w = [c \in ImportColumn |-> w[c]] /\ w.row = v.row + 1
          /\ w.pc = v.pc /\ w.file = v.file /\ w.again = v.again /\ w.groups = v.groups
          /\ w.flushed = v.flushed /\ w.pending = Append(v.pending, entry)
          /\ SameBalances(v, w)
      BY <1>3, Zenon DEF ImportColumn, SameBalances
    <3> HIDE DEF w
    <3>3. QED
      BY <2>2, <3>1, <3>2
  <2>3. QED
    BY <2>1, <2>2
<1> HIDE DEF entry
<1>9. Explains(s)' /\ Lasts(w.file, v.row, w)
  BY <1>1, <1>5, <1>6, <1>7, BalancesKept
<1>10. /\ w.pending \in Seq(OtherCard)
       /\ Imports!Elements(v.pending) \subseteq Imports!Elements(w.pending)
       /\ ~ found => entry \in Imports!Elements(w.pending)
  <2>1. /\ Append(v.pending, entry) \in Seq(OtherCard)
        /\ Imports!Elements(Append(v.pending, entry)) = Imports!Elements(v.pending) \cup {entry}
    <3>1. v.pending \in Seq(OtherCard) /\ entry \in OtherCard
      BY <1>3, <1>4, Zenon
    <3>2. QED
      BY ONLY <3>1, Appended
  <2>2. QED
    BY <2>1, <1>3, <1>7, Zenon
<1>11. Named(Imports!Elements(rows) \cup Imports!Elements(w.pending), r.name)
  <2>1. CASE found
    <3>1. Named(Imports!Elements(rows), r.name)
      BY <2>1, Found
    <3>2. QED
      BY <3>1 DEF Named
  <2>2. CASE ~ found
    BY <2>2, <1>4, <1>10 DEF Named
  <2>3. QED
    BY <2>1, <2>2
<1>12. ASSUME NEW i \in 1 .. w.row - 1
       PROVE  Named(Imports!Elements(rows) \cup Imports!Elements(w.pending), v.file.rows[i].name)
  <2>1. CASE i = v.row
    BY <2>1, <1>11
  <2>2. CASE i # v.row
    <3>1. i \in 1 .. v.row - 1
      <4>1. v.row \in Nat /\ w.row = v.row + 1 /\ i \in 1 .. w.row - 1
        BY <1>3, <1>7, Zenon
      <4>2. QED
        BY ONLY <2>2, <4>1
    <3>2. Named(Imports!Elements(rows) \cup Imports!Elements(v.pending), v.file.rows[i].name)
      BY <3>1, <1>1, <1>5 DEF Gone
    <3>3. QED
      BY <3>2, <1>10 DEF Named
  <2>3. QED
    BY <2>1, <2>2
<1>13. Gone(w, products, partners, warehouses)
  BY <1>1, <1>7, <1>12 DEF Gone
<1>14. w.again => w.flushed = <<>> /\ w.pending = <<>> /\ w.groups = <<>>
  <2>1. SUFFICES ASSUME w.again PROVE w.flushed = <<>> /\ w.pending = <<>> /\ w.groups = <<>>
    OBVIOUS
  <2>2. latest.file = v.file /\ v.flushed = <<>> /\ v.pending = <<>> /\ v.groups = <<>>
    BY <2>1, <1>2, <1>7 DEF SessionOK, Repeats
  <2>3. found
    BY <2>2, <1>1, <1>2, <1>3, Rows, Zenon DEF Imports!Applied
  <2>4. QED
    BY <2>2, <2>3, <1>7
<1>15. w.file.kind # "opening-stock" /\ w.pending \in Seq(CardOf(v.file.kind))
  <2>1. w.file.kind = kind /\ kind # "opening-stock" /\ kind # "products"
    BY <1>1, <1>7
  <2>2. QED
    BY <2>1, <1>1, <1>10 DEF CardOf
<1>16. QED
  BY <1>1, <1>3, <1>7, <1>9, <1>13, <1>14, <1>15, RowDone, Zenon

\* What a row of opening stock is about is there; keys are pairs of ids.
LEMMA KeyFound ==
  ASSUME ImportTables, NEW r, Known(Imports!Elements(products), r.sku, r.name),
         Named(Imports!Elements(warehouses), r.place)
  PROVE  LET k == Imports!KeyOf(r)
         IN  /\ k \in Imports!Key /\ k \in Nat \X Nat
             /\ products[k[1]].name = r.name \/ products[k[1]].sku = r.sku
             /\ warehouses[k[2]].name = r.place
<1> DEFINE i == Imports!FindProduct(products, r.sku, r.name)
           j == Imports!FindByName(warehouses, r.place)
<1>1. products \in Seq(ProductCard) /\ warehouses \in Seq(OtherCard)
  BY DEF ImportTables
<1>2. i \in 1 .. Len(products) /\ (products[i].sku = r.sku \/ products[i].name = r.name)
  BY <1>1, Found
<1>3. j \in 1 .. Len(warehouses) /\ warehouses[j].name = r.place
  BY <1>1, Found
<1>4. Imports!KeyOf(r) = <<i, j>>
  BY DEF Imports!KeyOf
<1>5. Len(products) \in Nat /\ Len(warehouses) \in Nat
  BY <1>1, LenProperties
<1> HIDE DEF i, j
<1>6. i \in Nat /\ j \in Nat
  BY <1>2, <1>3, <1>5
<1>7. QED
  BY <1>2, <1>3, <1>4, <1>6 DEF Imports!Key

\* How a row of opening stock changes what a session holds: the balance it gives k, found
\* in the session, read, or inserted, which keeps of the others what is written.
Assigns(v, w, k, n) ==
  /\ w.delta = Imports!Put(v.delta, k,
       Imports!OrZero(v.delta, k) + n - (IF k \in DOMAIN v.local THEN v.local[k]
                                         ELSE Imports!OrZero(stock, k)))
  /\ \/ /\ k \in DOMAIN v.local
        /\ w.base = v.base /\ w.local = Imports!Put(v.local, k, n)
        /\ w.locked = v.locked /\ w.overtaken = v.overtaken
     \/ /\ k \notin DOMAIN v.local /\ k \in DOMAIN stock
        /\ w.base = Imports!Put(v.base, k, stock[k]) /\ w.local = Imports!Put(v.local, k, n)
        /\ w.locked = v.locked /\ w.overtaken = v.overtaken \ {k}
     \/ /\ k \notin DOMAIN v.local /\ k \notin DOMAIN stock
        /\ w.base = [j \in Imports!Written(v) \cup {k} |-> IF j = k THEN 0 ELSE v.local[j]]
        /\ w.local = [j \in Imports!Written(v) \cup {k} |-> IF j = k THEN n ELSE v.local[j]]
        /\ w.locked = Imports!Written(v) \cup {k} /\ w.overtaken = v.overtaken

\* Differences, from what was read and from what is there.
LEMMA Difference ==
  ASSUME NEW a \in Int, NEW b \in Int, NEW c \in Int, NEW n \in Int
  PROVE  a + n - b \in Int /\ (a = b - c => a + n - b = n - c) /\ 0 + n - c = n - c
OBVIOUS

\* What there was of the difference, when the session has no quantity of k.
LEMMA NoDifference ==
  ASSUME NEW v, Balances(v), NEW k, k \notin DOMAIN v.local
  PROVE  Imports!OrZero(v.delta, k) = 0 /\ (k \notin DOMAIN stock => k \notin DOMAIN v.delta)
<1>1. k \notin v.locked /\ (k \in DOMAIN v.delta => Agrees(v, k))
  BY DEF Balances
<1>2. k \in DOMAIN v.delta => v.delta[k] = 0 /\ k \in DOMAIN stock
  BY <1>1 DEF Agrees
<1>3. QED
  BY <1>2 DEF Imports!OrZero

\* After the row the session holds what it says, and of the others what it held.
LEMMA Assigned ==
  ASSUME ImportTables, NEW v, NEW w, NEW k \in Imports!Key, NEW n \in Nat,
         Balances(v), Assigns(v, w, k, n)
  PROVE  /\ Balances(w) /\ DOMAIN w.delta = DOMAIN v.delta \cup {k} /\ Held(w, k, n)
         /\ \A m : \A j \in DOMAIN v.delta \ {k} : Held(v, j, m) => Held(w, j, m)
<1>1. /\ DOMAIN v.base = DOMAIN v.local
      /\ v.locked \subseteq DOMAIN v.local /\ DOMAIN v.local \subseteq DOMAIN v.delta
      /\ DOMAIN v.delta \subseteq Imports!Key
      /\ \A j \in DOMAIN v.local : v.local[j] \in Nat /\ v.base[j] \in Nat
      /\ \A j \in DOMAIN v.delta : Agrees(v, j)
  BY Zenon DEF Balances
<1>2. \A j : Imports!OrZero(stock, j) \in Nat
  BY DEF ImportTables, Imports!OrZero
<1>3. PICK old : old = (IF k \in DOMAIN v.local THEN v.local[k] ELSE Imports!OrZero(stock, k))
  OBVIOUS
<1>4. PICK d : d = Imports!OrZero(v.delta, k) + n - old
  OBVIOUS
<1>5. w.delta = [j \in DOMAIN v.delta \cup {k} |-> IF j = k THEN d ELSE v.delta[j]]
  BY <1>3, <1>4, Zenon DEF Assigns, Imports!Put
<1>6. old \in Int /\ n \in Int /\ Imports!OrZero(v.delta, k) \in Int
      /\ (k \in DOMAIN v.local => v.base[k] \in Int) /\ Imports!OrZero(stock, k) \in Int
  <2>1. \A j \in DOMAIN v.delta : v.delta[j] \in Int
    BY <1>1 DEF Agrees
  <2>2. QED
    BY <2>1, <1>1, <1>2, <1>3 DEF Imports!OrZero
<1>7. d \in Int
  BY ONLY <1>4, <1>6
\* The difference that is left is the one to what was read, and to what is there.
<1>8. CASE k \in DOMAIN v.local
  <2>1. /\ w.base = v.base /\ w.locked = v.locked /\ w.overtaken = v.overtaken
        /\ w.local = [j \in DOMAIN v.local \cup {k} |-> IF j = k THEN n ELSE v.local[j]]
    BY <1>8 DEF Assigns, Imports!Put
  <2>2. Imports!OrZero(v.delta, k) = v.delta[k] /\ old = v.local[k]
    BY <1>1, <1>3, <1>8 DEF Imports!OrZero
  <2>3. /\ k \notin v.locked => k \in DOMAIN stock /\ v.delta[k] = v.local[k] - v.base[k]
        /\ k \notin v.overtaken => v.delta[k] = v.local[k] - Imports!OrZero(stock, k)
    BY <1>1, <1>8 DEF Agrees
  <2>4. /\ v.delta[k] = v.local[k] - v.base[k] => d = n - v.base[k]
        /\ v.delta[k] = v.local[k] - Imports!OrZero(stock, k) => d = n - Imports!OrZero(stock, k)
    <3>1. /\ v.delta[k] \in Int /\ v.local[k] \in Int /\ v.base[k] \in Int /\ n \in Int
          /\ Imports!OrZero(stock, k) \in Int /\ d = v.delta[k] + n - v.local[k]
      BY <1>4, <1>6, <1>8, <2>2
    <3>2. QED
      BY ONLY <3>1
  <2>5. Agrees(w, k)
    BY <1>5, <1>7, <1>8, <2>1, <2>3, <2>4 DEF Agrees
  <2>6. \A j \in DOMAIN v.delta \ {k} : Agrees(w, j)
    BY <1>1, <1>5, <1>8, <2>1 DEF Agrees
  <2>7. Balances(w)
    BY <1>1, <1>5, <1>8, <2>1, <2>5, <2>6 DEF Balances
  <2>8. QED
    BY <1>5, <1>8, <2>1, <2>7 DEF Held
<1>9. CASE k \notin DOMAIN v.local /\ k \in DOMAIN stock
  <2>1. /\ w.base = [j \in DOMAIN v.local \cup {k} |-> IF j = k THEN stock[k] ELSE v.base[j]]
        /\ w.local = [j \in DOMAIN v.local \cup {k} |-> IF j = k THEN n ELSE v.local[j]]
        /\ w.locked = v.locked /\ w.overtaken = v.overtaken \ {k}
    BY <1>1, <1>9 DEF Assigns, Imports!Put
  <2>2. d = n - stock[k] /\ stock[k] = Imports!OrZero(stock, k) /\ stock[k] \in Nat
    <3>1. Imports!OrZero(v.delta, k) = 0 /\ old = Imports!OrZero(stock, k)
      BY <1>3, <1>9, NoDifference
    <3>2. d = n - Imports!OrZero(stock, k)
      BY ONLY <1>4, <1>6, <3>1
    <3>3. QED
      BY <1>2, <1>9, <3>2 DEF Imports!OrZero
  <2>3. Agrees(w, k)
    BY <1>5, <1>7, <1>9, <2>1, <2>2 DEF Agrees
  <2>4. \A j \in DOMAIN v.delta \ {k} : Agrees(w, j)
    BY <1>1, <1>5, <1>9, <2>1 DEF Agrees
  <2>5. Balances(w)
    BY <1>1, <1>5, <1>9, <2>1, <2>2, <2>3, <2>4 DEF Balances
  <2>6. QED
    BY <1>5, <1>9, <2>1, <2>5 DEF Held
\* The INSERT: what it writes is kept, and what it forgets was not changed.
<1>10. CASE k \notin DOMAIN v.local /\ k \notin DOMAIN stock
  <2>1. PICK written : written = Imports!Written(v)
    OBVIOUS
  <2>2. /\ w.base = [j \in written \cup {k} |-> IF j = k THEN 0 ELSE v.local[j]]
        /\ w.local = [j \in written \cup {k} |-> IF j = k THEN n ELSE v.local[j]]
        /\ w.locked = written \cup {k} /\ w.overtaken = v.overtaken
    BY <1>10, <2>1 DEF Assigns
  <2>3. /\ written \subseteq DOMAIN v.local /\ k \notin written
        /\ \A j \in DOMAIN v.local \ written : v.local[j] = v.base[j] /\ j \notin v.locked
    BY <1>1, <1>10, <2>1 DEF Imports!Written, Imports!Changed
  <2>4. d = n - Imports!OrZero(stock, k) /\ k \notin DOMAIN v.delta
    <3>1. Imports!OrZero(v.delta, k) = 0 /\ old = Imports!OrZero(stock, k) /\ k \notin DOMAIN v.delta
      BY <1>3, <1>10, NoDifference
    <3>2. d = n - Imports!OrZero(stock, k)
      BY ONLY <1>4, <1>6, <3>1
    <3>3. QED
      BY <3>1, <3>2
  <2>5. Agrees(w, k)
    BY <1>5, <1>7, <2>2, <2>4 DEF Agrees
  <2>6. ASSUME NEW j \in DOMAIN v.delta \ {k} PROVE Agrees(w, j)
    <3>1. Agrees(v, j) /\ w.delta[j] = v.delta[j] /\ j # k
      BY <1>1, <1>5
    <3>2. CASE j \in written
      BY <2>2, <2>3, <3>1, <3>2 DEF Agrees
    <3>3. CASE j \notin written
      <4>1. j \notin v.locked /\ j \notin DOMAIN w.local /\ j \notin w.locked
        BY <1>1, <2>2, <2>3, <3>1, <3>3
      <4>2. j \in DOMAIN v.local => v.local[j] = v.base[j] /\ v.local[j] \in Int
        BY <1>1, <2>3, <3>3
      <4>3. j \in DOMAIN stock /\ v.delta[j] \in Int /\ v.delta[j] = 0
        BY <3>1, <4>1, <4>2 DEF Agrees
      <4>4. QED
        BY <3>1, <4>1, <4>3 DEF Agrees
    <3>4. QED
      BY <3>2, <3>3
  <2>7. Balances(w)
    <3>1. DOMAIN w.delta = DOMAIN v.delta \cup {k} /\ w.delta = [j \in DOMAIN w.delta |-> w.delta[j]]
      BY <1>5
    <3>2. DOMAIN w.local = written \cup {k} /\ DOMAIN w.base = written \cup {k}
      BY <2>2
    <3>3. /\ w.local = [j \in DOMAIN w.local |-> w.local[j]]
          /\ w.base = [j \in DOMAIN w.local |-> w.base[j]]
      BY <2>2, <3>2
    <3>4. \A j \in DOMAIN w.local : w.local[j] \in Nat /\ w.base[j] \in Nat
      BY <1>1, <2>2, <2>3
    <3>5. \A j \in DOMAIN w.delta : Agrees(w, j)
      BY <2>5, <2>6, <3>1
    <3>6. DOMAIN w.local \subseteq DOMAIN w.delta /\ w.locked \subseteq DOMAIN w.local
          /\ DOMAIN w.delta \subseteq Imports!Key
      BY <1>1, <2>2, <2>3, <3>1, <3>2
    <3>7. QED
      BY ONLY <3>1, <3>3, <3>4, <3>5, <3>6 DEF Balances
  <2>8. ASSUME NEW j \in DOMAIN v.delta \ {k}, NEW m, Held(v, j, m) PROVE Held(w, j, m)
    <3>1. CASE j \in written
      BY <2>2, <2>3, <2>8, <3>1 DEF Held
    <3>2. CASE j \in DOMAIN v.local \ written
      <4>1. v.local[j] = m /\ v.local[j] = v.base[j] /\ j \notin v.locked /\ j \in DOMAIN v.delta
        BY <1>1, <2>3, <2>8, <3>2 DEF Held
      <4>2. /\ v.delta[j] = v.local[j] - v.base[j]
            /\ j \notin v.overtaken => v.delta[j] = v.local[j] - Imports!OrZero(stock, j)
        BY <1>1, <3>2, <4>1 DEF Agrees
      <4>3. v.local[j] \in Int /\ v.base[j] \in Int /\ Imports!OrZero(stock, j) \in Int
        BY <1>1, <1>2, <3>2
      <4>4. j \notin v.overtaken => Imports!OrZero(stock, j) = m
        BY ONLY <4>1, <4>2, <4>3
      <4>5. QED
        BY <2>2, <3>2, <4>4 DEF Held
    <3>3. CASE j \notin DOMAIN v.local
      BY <2>2, <2>3, <2>8, <3>3 DEF Held
    <3>4. QED
      BY <3>1, <3>2, <3>3
  <2>9. QED
    BY <1>5, <2>2, <2>7, <2>8 DEF Held
<1>11. QED
  BY <1>8, <1>9, <1>10

\* The current row of an opening stock is applied.
LEMMA StockApplied ==
  ASSUME ImportInv, NEW s \in Session, Imports!ApplyStock(s) PROVE ImportInv'
<1> DEFINE v == import[s]
           r == v.file.rows[v.row]
<1>1. v.pc = "apply" /\ v.file.kind = "opening-stock" /\ Imports!MoreRows(s) /\ SameTables
  BY DEF Imports!ApplyStock, Imports!Applying, Imports!tables, SameTables
<1>2. SessionOK(s) /\ ImportTables /\ Imports!Applied
  BY DEF ImportInv
<1>3. /\ v = [c \in ImportColumn |-> v[c]] /\ v.again \in BOOLEAN /\ v.row \in Nat \ {0}
      /\ v.file \in ImportFile /\ v.row <= Len(v.file.rows)
      /\ v.flushed \in Seq(ProductCard) /\ v.groups \in Seq(Cells)
      /\ v.pending \in Seq(CardOf(v.file.kind))
      /\ \A i \in 1 .. Len(v.file.rows) : RowFits(v.file.kind, v.file.rows[i])
  BY <1>1, <1>2 DEF SessionOK, ImportShaped, Imports!MoreRows
<1>4. v.row \in 1 .. Len(v.file.rows)
  BY <1>3, Rows
<1>5. /\ r.number \in Nat /\ Known(Imports!Elements(products), r.sku, r.name)
      /\ Named(Imports!Elements(warehouses), r.place)
  BY <1>1, <1>3, <1>4 DEF RowFits
<1>6. PICK k : /\ k = Imports!KeyOf(r) /\ k \in Imports!Key /\ k \in Nat \X Nat
               /\ products[k[1]].name = r.name \/ products[k[1]].sku = r.sku
               /\ warehouses[k[2]].name = r.place
  BY <1>2, <1>5, KeyFound, Zenon
<1>7. Balances(v) /\ Gone(v, products, partners, warehouses) /\ Lasts(v.file, v.row - 1, v)
  BY <1>2 DEF SessionOK, Explains, Progress, LastCounts
<1>8. PICK w : /\ import' = [import EXCEPT ![s] = w] /\ w = [c \in ImportColumn |-> w[c]]
               /\ w.row = v.row + 1 /\ w.pc = v.pc /\ w.file = v.file /\ w.again = v.again
               /\ w.groups = v.groups /\ w.flushed = v.flushed /\ w.pending = v.pending
               /\ w.keys = Append(v.keys, k) /\ Assigns(v, w, k, r.number)
  <2>1. PICK b : b = Imports!Balance(s, k)
    OBVIOUS
  <2>2. PICK w : w = [b EXCEPT !.row = @ + 1, !.local = Imports!Put(@, k, r.number),
                               !.delta = Imports!Put(@, k, Imports!OrZero(@, k) + r.number - b.local[k]),
                               !.keys = Append(@, k)]
    OBVIOUS
  <2>3. import' = [import EXCEPT ![s] = w]
    BY <1>6, <2>1, <2>2, Zenon DEF Imports!ApplyStock, Imports!Row
  <2>4. b = [c \in ImportColumn |-> b[c]]
        /\ b.row = v.row /\ b.pc = v.pc /\ b.file = v.file /\ b.again = v.again
        /\ b.groups = v.groups /\ b.flushed = v.flushed /\ b.pending = v.pending
        /\ b.keys = v.keys /\ b.delta = v.delta
    BY <1>3, <2>1 DEF Imports!Balance, ImportColumn
  <2>5. /\ w = [c \in ImportColumn |-> w[c]]
        /\ w.row = b.row + 1 /\ w.pc = b.pc /\ w.file = b.file /\ w.again = b.again
        /\ w.groups = b.groups /\ w.flushed = b.flushed /\ w.pending = b.pending
        /\ w.local = Imports!Put(b.local, k, r.number) /\ w.base = b.base
        /\ w.delta = Imports!Put(b.delta, k, Imports!OrZero(b.delta, k) + r.number - b.local[k])
        /\ w.keys = Append(b.keys, k) /\ w.locked = b.locked /\ w.overtaken = b.overtaken
    BY <2>2, <2>4, Zenon DEF ImportColumn
  <2>6. CASE k \in DOMAIN v.local
    <3>1. b.local = v.local /\ b.base = v.base /\ b.locked = v.locked /\ b.overtaken = v.overtaken
      BY <2>1, <2>6, Zenon DEF Imports!Balance
    <3>2. Assigns(v, w, k, r.number)
      BY <2>4, <2>5, <2>6, <3>1, Zenon DEF Assigns
    <3>3. QED
      BY <2>3, <2>4, <2>5, <3>2, Zenon
  <2>7. CASE k \notin DOMAIN v.local /\ k \in DOMAIN stock
    <3>1. /\ b.local = Imports!Put(v.local, k, stock[k]) /\ b.base = Imports!Put(v.base, k, stock[k])
          /\ b.locked = v.locked /\ b.overtaken = v.overtaken \ {k}
      BY <1>3, <2>1, <2>7 DEF Imports!Balance, ImportColumn
    <3>2. b.local[k] = Imports!OrZero(stock, k)
      BY <2>7, <3>1 DEF Imports!Put, Imports!OrZero
    <3>3. Imports!Put(b.local, k, r.number) = Imports!Put(v.local, k, r.number)
      BY <3>1 DEF Imports!Put
    <3>4. Assigns(v, w, k, r.number)
      BY <2>4, <2>5, <2>7, <3>1, <3>2, <3>3, Zenon DEF Assigns
    <3>5. QED
      BY <2>3, <2>4, <2>5, <3>4, Zenon
  <2>8. CASE k \notin DOMAIN v.local /\ k \notin DOMAIN stock
    <3>1. PICK flushed : flushed = [j \in Imports!Written(v) \cup {k} |-> IF j = k THEN 0 ELSE v.local[j]]
      OBVIOUS
    <3>2. b = [v EXCEPT !.base = flushed, !.local = flushed, !.locked = DOMAIN flushed]
      BY <2>1, <2>8, <3>1, Zenon DEF Imports!Balance
    <3>3. b.local = flushed /\ b.base = flushed /\ b.locked = DOMAIN flushed /\ b.overtaken = v.overtaken
      BY <1>3, <3>2 DEF ImportColumn
    <3>4. DOMAIN flushed = Imports!Written(v) \cup {k} /\ flushed[k] = 0 /\ Imports!OrZero(stock, k) = 0
      BY <2>8, <3>1 DEF Imports!OrZero
    <3>5. Imports!Put(b.local, k, r.number) = [j \in Imports!Written(v) \cup {k} |-> IF j = k THEN r.number ELSE v.local[j]]
      BY <3>1, <3>3 DEF Imports!Put
    <3>6. Assigns(v, w, k, r.number)
      BY <2>4, <2>5, <2>8, <3>1, <3>3, <3>4, <3>5, Zenon DEF Assigns
    <3>7. QED
      BY <2>3, <2>4, <2>5, <3>6, Zenon
  <2>9. QED
    BY <2>6, <2>7, <2>8
<1>9. /\ Balances(w) /\ DOMAIN w.delta = DOMAIN v.delta \cup {k} /\ Held(w, k, r.number)
      /\ \A m : \A j \in DOMAIN v.delta \ {k} : Held(v, j, m) => Held(w, j, m)
  <2>1. ImportTables /\ k \in Imports!Key /\ r.number \in Nat /\ Balances(v) /\ Assigns(v, w, k, r.number)
    BY <1>2, <1>5, <1>6, <1>7, <1>8, Zenon
  <2>2. PICK n : n = r.number
    OBVIOUS
  <2>3. n \in Nat /\ Assigns(v, w, k, n)
    BY <2>1, <2>2
  <2>4. /\ Balances(w) /\ DOMAIN w.delta = DOMAIN v.delta \cup {k} /\ Held(w, k, n)
        /\ \A m : \A j \in DOMAIN v.delta \ {k} : Held(v, j, m) => Held(w, j, m)
    BY <2>1, <2>3, Assigned
  <2>5. QED
    BY <2>2, <2>4
<1>10. Explains(s)'
  <2>1. import'[s] = w
    BY <1>8 DEF ImportInv
  <2>2. Balances(w)'
    BY <1>1, <1>9 DEF Balances, Agrees, SameTables, Imports!OrZero, Imports!Key
  <2>3. QED
    BY <2>1, <2>2 DEF Explains
<1>11. /\ v.keys \in Seq(Nat \X Nat) /\ Len(v.keys) = v.row - 1 /\ v.row \in Nat
  BY <1>1, <1>3, <1>7 DEF Lasts
<1>12. /\ Append(v.keys, k) \in Seq(Nat \X Nat) /\ Len(Append(v.keys, k)) = v.row
       /\ Append(v.keys, k)[v.row] = k /\ \A i \in 1 .. v.row - 1 : Append(v.keys, k)[i] = v.keys[i]
  <2>1. /\ Append(v.keys, k) \in Seq(Nat \X Nat) /\ Len(Append(v.keys, k)) = Len(v.keys) + 1
        /\ Append(v.keys, k)[Len(v.keys) + 1] = k
        /\ \A i \in 1 .. Len(v.keys) : Append(v.keys, k)[i] = v.keys[i]
    <3>1. k \in Nat \X Nat /\ v.keys \in Seq(Nat \X Nat)
      BY <1>6, <1>11, Zenon
    <3>2. QED
      BY ONLY <3>1, Appended
  <2>2. Len(v.keys) = v.row - 1 /\ Len(v.keys) + 1 = v.row
    BY ONLY <1>11
  <2>3. QED
    BY <2>1, <2>2
<1>13. w.keys[v.row] = k /\ \A i \in 1 .. v.row - 1 : w.keys[i] = v.keys[i]
  BY <1>8, <1>12
<1>14. Gone(w, products, partners, warehouses)
  <2>1. ASSUME NEW i \in 1 .. w.row - 1
        PROVE  /\ w.keys[i] \in DOMAIN w.delta
               /\ \/ products[w.keys[i][1]].name = v.file.rows[i].name
                  \/ products[w.keys[i][1]].sku = v.file.rows[i].sku
               /\ warehouses[w.keys[i][2]].name = v.file.rows[i].place
    <3>1. CASE i = v.row
      BY <3>1, <1>6, <1>9, <1>13, Zenon
    <3>2. CASE i # v.row
      <4>1. i \in 1 .. v.row - 1
        <5>1. v.row \in Nat /\ w.row = v.row + 1 /\ i \in 1 .. w.row - 1
          BY <1>3, <1>8, Zenon
        <5>2. QED
          BY ONLY <3>2, <5>1
      <4>2. /\ v.keys[i] \in DOMAIN v.delta
            /\ \/ products[v.keys[i][1]].name = v.file.rows[i].name
               \/ products[v.keys[i][1]].sku = v.file.rows[i].sku
            /\ warehouses[v.keys[i][2]].name = v.file.rows[i].place
        BY <4>1, <1>1, <1>7 DEF Gone
      <4>3. w.keys[i] = v.keys[i] /\ DOMAIN v.delta \subseteq DOMAIN w.delta
        BY <4>1, <1>9, <1>13
      <4>4. QED
        BY <4>2, <4>3
    <3>3. QED
      BY <3>1, <3>2
  <2>2. QED
    BY <2>1, <1>1, <1>8, Zenon DEF Gone
<1>15. Lasts(w.file, v.row, w)
  <2>1. w.keys \in Seq(Nat \X Nat) /\ Len(w.keys) = v.row
    BY <1>8, <1>12
  <2>2. ASSUME NEW j \in DOMAIN w.delta
        PROVE  \E i \in 1 .. v.row : /\ w.keys[i] = j /\ Held(w, j, v.file.rows[i].number)
                                     /\ \A l \in i + 1 .. v.row : w.keys[l] # j
    <3>1. CASE j = k
      <4>1. v.row \in 1 .. v.row /\ \A l \in v.row + 1 .. v.row : FALSE
        BY ONLY <1>3
      <4>2. QED
        BY <3>1, <4>1, <1>9, <1>13
    <3>2. CASE j # k
      <4>1. j \in DOMAIN v.delta \ {k}
        BY <3>2, <1>9
      <4>2. PICK i \in 1 .. v.row - 1 : /\ v.keys[i] = j /\ Held(v, j, v.file.rows[i].number)
                                        /\ \A l \in i + 1 .. v.row - 1 : v.keys[l] # j
        BY <4>1, <1>7 DEF Lasts
      <4>3. ASSUME NEW l \in i + 1 .. v.row PROVE w.keys[l] # j
        <5>1. l = v.row \/ (l \in i + 1 .. v.row - 1 /\ l \in 1 .. v.row - 1)
          BY ONLY <1>11
        <5>2. QED
          BY <5>1, <3>2, <4>2, <1>13
      <4>4. i \in 1 .. v.row
        BY ONLY <1>11
      <4>5. Held(w, j, v.file.rows[i].number)
        BY <4>1, <4>2, <1>9
      <4>6. QED
        BY <4>2, <4>3, <4>4, <4>5, <1>13
    <3>3. QED
      BY <3>1, <3>2
  <2>3. w.file.kind = "opening-stock" /\ w.file.rows = v.file.rows
    BY <1>1, <1>8
  <2>4. QED
    BY <2>1, <2>2, <2>3 DEF Lasts
<1>16. w.again =>
         /\ w.flushed = <<>> /\ w.pending = <<>> /\ w.groups = <<>>
         /\ w.file.kind = "opening-stock" => \A i \in 1 .. v.row : w.keys[i] = latest.keys[i]
  <2>1. SUFFICES ASSUME w.again
                 PROVE  /\ w.flushed = <<>> /\ w.pending = <<>> /\ w.groups = <<>>
                        /\ \A i \in 1 .. v.row : w.keys[i] = latest.keys[i]
    OBVIOUS
  <2>2. /\ v.flushed = <<>> /\ v.pending = <<>> /\ v.groups = <<>>
        /\ latest.keys = Imports!KeysOf(v.file)
        /\ \A i \in 1 .. v.row - 1 : v.keys[i] = latest.keys[i]
    BY <2>1, <1>1, <1>2, <1>8 DEF SessionOK, Repeats
  <2>3. latest.keys[v.row] = k
    BY <2>2, <1>1, <1>3, <1>4, <1>6, Rows, Zenon DEF Imports!KeysOf
  <2>4. ASSUME NEW i \in 1 .. v.row PROVE w.keys[i] = latest.keys[i]
    <3>1. i = v.row \/ i \in 1 .. v.row - 1
      BY ONLY <1>11
    <3>2. QED
      BY <3>1, <2>2, <2>3, <1>13
  <2>5. QED
    BY <2>2, <2>4, <1>8
<1>17. QED
  BY <1>1, <1>3, <1>8, <1>10, <1>14, <1>15, <1>16, RowDone, Zenon
-----------------------------------------------------------------------------
\* The tables of cards after more cards were entered.
LEMMA MoreCards ==
  ASSUME ImportTables,
         NEW P, NEW G, NEW R, NEW W, P \in Seq(ProductCard), G \in Seq(Cells),
         R \in Seq(OtherCard), W \in Seq(OtherCard),
         products' = products \o P, groups' = groups \o G, partners' = partners \o R,
         warehouses' = warehouses \o W,
         UNCHANGED <<stock, moved, debts, disturbed>>
  PROVE  /\ Grow
         /\ Imports!Elements(products') = Imports!Elements(products) \cup Imports!Elements(P)
         /\ Imports!Elements(partners') = Imports!Elements(partners) \cup Imports!Elements(R)
         /\ Imports!Elements(warehouses') = Imports!Elements(warehouses) \cup Imports!Elements(W)
<1>1. /\ products \in Seq(ProductCard) /\ groups \in Seq(Cells)
      /\ partners \in Seq(OtherCard) /\ warehouses \in Seq(OtherCard)
  BY DEF ImportTables
<1>2. /\ products' \in Seq(ProductCard) /\ Len(products) <= Len(products')
      /\ Len(products) \in Nat /\ Len(products') \in Nat
      /\ \A i \in 1 .. Len(products) : products'[i] = products[i]
      /\ Imports!Elements(products') = Imports!Elements(products) \cup Imports!Elements(P)
  BY <1>1, Joined
<1>3. /\ partners' \in Seq(OtherCard) /\ Len(partners) <= Len(partners')
      /\ Len(partners) \in Nat /\ Len(partners') \in Nat
      /\ Imports!Elements(partners') = Imports!Elements(partners) \cup Imports!Elements(R)
  BY <1>1, Joined
<1>4. /\ warehouses' \in Seq(OtherCard) /\ Len(warehouses) <= Len(warehouses')
      /\ Len(warehouses) \in Nat /\ Len(warehouses') \in Nat
      /\ \A i \in 1 .. Len(warehouses) : warehouses'[i] = warehouses[i]
      /\ Imports!Elements(warehouses') = Imports!Elements(warehouses) \cup Imports!Elements(W)
  BY <1>1, Joined
<1>5. groups' \in Seq(Cells)
  BY <1>1, Joined
<1>6. Imports!Key \subseteq Imports!Key' /\ 1 .. Len(partners) \subseteq 1 .. Len(partners')
  BY <1>2, <1>3, <1>4 DEF Imports!Key
<1>7. ImportTables'
  BY <1>2, <1>3, <1>4, <1>5, <1>6 DEF ImportTables
<1>8. /\ Imports!Elements(products)' = Imports!Elements(products')
      /\ Imports!Elements(partners)' = Imports!Elements(partners')
      /\ Imports!Elements(warehouses)' = Imports!Elements(warehouses')
  BY DEF Imports!Elements
<1>9. QED
  BY <1>2, <1>3, <1>4, <1>7, <1>8 DEF Grow

\* Nothing added at the end.
LEMMA NoMore == ASSUME NEW T, NEW s \in Seq(T) PROVE s \o <<>> = s
BY ConcatEmptySeq

\* The session at its end: every row is behind it.
LEMMA AtEnd ==
  ASSUME ImportInv, NEW s \in Session, NEW kind, Imports!Done(s, kind)
  PROVE  LET v == import[s] IN
         /\ v.pc = "apply" /\ v.file.kind = kind /\ v.file \in ImportFile
         /\ v.row - 1 = Len(v.file.rows) /\ Len(v.file.rows) \in Nat
         /\ DOMAIN v.file.rows = 1 .. Len(v.file.rows)
         /\ \A i \in 1 .. Len(v.file.rows) : RowFits(kind, v.file.rows[i])
         /\ v.flushed \in Seq(ProductCard) /\ v.groups \in Seq(Cells)
         /\ v.pending \in Seq(CardOf(kind))
         /\ Explains(s) /\ Gone(v, products, partners, warehouses)
         /\ Lasts(v.file, v.row - 1, v) /\ Repeats(s)
<1> DEFINE v == import[s]
<1>1. v.pc = "apply" /\ v.file.kind = kind /\ ~ v.row <= Len(v.file.rows)
  BY DEF Imports!Done, Imports!Applying, Imports!MoreRows
<1>2. /\ v.file \in ImportFile /\ v.row <= Len(v.file.rows) + 1 /\ v.row \in Nat
      /\ \A i \in 1 .. Len(v.file.rows) : RowFits(kind, v.file.rows[i])
      /\ v.flushed \in Seq(ProductCard) /\ v.groups \in Seq(Cells)
      /\ v.pending \in Seq(CardOf(kind))
  BY <1>1 DEF ImportInv, SessionOK, ImportShaped
<1>3. Len(v.file.rows) \in Nat /\ DOMAIN v.file.rows = 1 .. Len(v.file.rows)
  BY <1>2, Rows
<1>4. v.row - 1 = Len(v.file.rows)
  <2>1. /\ v.row \in Nat /\ Len(v.file.rows) \in Nat /\ v.row <= Len(v.file.rows) + 1
        /\ ~ v.row <= Len(v.file.rows)
    BY <1>1, <1>2, <1>3
  <2>2. QED
    BY ONLY <2>1
<1>5. /\ Explains(s) /\ Gone(v, products, partners, warehouses)
      /\ Lasts(v.file, v.row - 1, v) /\ Repeats(s)
  BY DEF ImportInv, SessionOK, Progress, LastCounts
<1>6. QED
  BY <1>1, <1>2, <1>3, <1>4, <1>5

\* Nothing is said of balances by a commit of cards.
LEMMA CardsCommitted ==
  ASSUME ImportInv, Grow, NEW s \in Session, Imports!Committed(s, {}),
         UNCHANGED <<stock, moved, debts, disturbed>>, Imports!Applied'
  PROVE  ImportInv'
<1>1. \A k : Imports!OrZero(stock, k)' = Imports!OrZero(stock, k)
  BY DEF Imports!OrZero
<1>2. OpeningExplained'
  BY DEF ImportInv, OpeningExplained, Imports!OpeningExplained
<1>3. QED
  BY <1>1, <1>2, Commit

\* A product file commits.
LEMMA ProductsCommitted ==
  ASSUME ImportInv, NEW s \in Session, Imports!CommitProducts(s)
  PROVE  ImportInv' /\ (import[s].again => UNCHANGED Imports!tables)
<1> DEFINE v == import[s]
           new == v.flushed \o v.pending
<1>1. /\ Imports!Done(s, "products") /\ products' = products \o new /\ groups' = groups \o v.groups
      /\ Imports!Committed(s, {}) /\ UNCHANGED <<partners, warehouses, stock, moved, debts, disturbed>>
  BY DEF Imports!CommitProducts
<1>2. /\ v.file.kind = "products" /\ v.file \in ImportFile /\ v.row - 1 = Len(v.file.rows)
      /\ DOMAIN v.file.rows = 1 .. Len(v.file.rows)
      /\ v.flushed \in Seq(ProductCard) /\ v.groups \in Seq(Cells) /\ v.pending \in Seq(ProductCard)
      /\ Gone(v, products, partners, warehouses) /\ Repeats(s)
  BY <1>1, AtEnd DEF CardOf
<1>3. /\ new \in Seq(ProductCard)
      /\ Imports!Elements(new) = Imports!Elements(v.flushed) \cup Imports!Elements(v.pending)
  BY <1>2, Joined
<1>4. ImportTables /\ partners \in Seq(OtherCard) /\ warehouses \in Seq(OtherCard)
      /\ products \in Seq(ProductCard) /\ groups \in Seq(Cells)
  BY DEF ImportInv, ImportTables
<1>5. partners' = partners \o <<>> /\ warehouses' = warehouses \o <<>> /\ <<>> \in Seq(OtherCard)
  BY <1>1, <1>4, NoMore, EmptySeq
<1> HIDE DEF new
<1>6. Grow /\ Imports!Elements(products') = Imports!Elements(products) \cup Imports!Elements(new)
  BY <1>1, <1>2, <1>3, <1>4, <1>5, MoreCards
<1>7. Imports!Applied'
  <2>1. latest'.file = v.file
    BY <1>1 DEF Imports!Committed
  <2>2. ASSUME NEW i \in 1 .. Len(v.file.rows)
        PROVE  Imports!FindProduct(products', v.file.rows[i].sku, v.file.rows[i].name) # 0
    <3>1. Known(Imports!Elements(products) \cup Imports!Elements(v.flushed) \cup Imports!Elements(v.pending),
                v.file.rows[i].sku, v.file.rows[i].name)
      BY <1>2 DEF Gone
    <3>2. Known(Imports!Elements(products'), v.file.rows[i].sku, v.file.rows[i].name)
      BY <3>1, <1>3, <1>6 DEF Known
    <3>3. products' \in Seq(ProductCard)
      BY <1>6 DEF Grow, ImportTables
    <3>4. QED
      BY <3>2, <3>3, Found
  <2>3. QED
    BY <2>1, <2>2, <1>2 DEF Imports!Applied
<1>8. v.again => UNCHANGED Imports!tables
  <2>1. v.again => new = <<>> /\ v.groups = <<>>
    BY <1>2, NoMore, EmptySeq DEF Repeats, new
  <2>2. v.again => products' = products /\ groups' = groups
    BY <2>1, <1>1, <1>4, NoMore
  <2>3. QED
    BY <2>2, <1>1 DEF Imports!tables
<1>9. QED
  BY <1>1, <1>6, <1>7, <1>8, CardsCommitted

\* A file of partners commits.
LEMMA PartnersCommitted ==
  ASSUME ImportInv, NEW s \in Session, Imports!CommitPartners(s)
  PROVE  ImportInv' /\ (import[s].again => UNCHANGED Imports!tables)
<1> DEFINE v == import[s]
<1>1. /\ Imports!Done(s, "partners") /\ partners' = partners \o v.pending
      /\ Imports!Committed(s, {})
      /\ UNCHANGED <<products, groups, warehouses, stock, moved, debts, disturbed>>
  BY DEF Imports!CommitPartners
<1>2. /\ v.file.kind = "partners" /\ v.file \in ImportFile /\ v.row - 1 = Len(v.file.rows)
      /\ DOMAIN v.file.rows = 1 .. Len(v.file.rows)
      /\ v.pending \in Seq(OtherCard)
      /\ Gone(v, products, partners, warehouses) /\ Repeats(s)
  BY <1>1, AtEnd DEF CardOf
<1>3. ImportTables /\ partners \in Seq(OtherCard) /\ warehouses \in Seq(OtherCard)
      /\ products \in Seq(ProductCard) /\ groups \in Seq(Cells)
  BY DEF ImportInv, ImportTables
<1>4. /\ products' = products \o <<>> /\ warehouses' = warehouses \o <<>> /\ groups' = groups \o <<>>
      /\ <<>> \in Seq(OtherCard) /\ <<>> \in Seq(ProductCard) /\ <<>> \in Seq(Cells)
  BY <1>1, <1>3, NoMore, EmptySeq
<1>5. Grow /\ Imports!Elements(partners') = Imports!Elements(partners) \cup Imports!Elements(v.pending)
  BY <1>1, <1>2, <1>3, <1>4, MoreCards
<1>6. Imports!Applied'
  <2>1. latest'.file = v.file
    BY <1>1 DEF Imports!Committed
  <2>2. ASSUME NEW i \in 1 .. Len(v.file.rows)
        PROVE  Imports!FindByName(partners', v.file.rows[i].name) # 0
    <3>1. Named(Imports!Elements(partners) \cup Imports!Elements(v.pending), v.file.rows[i].name)
      BY <1>2 DEF Gone
    <3>2. partners' \in Seq(OtherCard)
      BY <1>5 DEF Grow, ImportTables
    <3>3. QED
      BY <3>1, <3>2, <1>5, Found
  <2>3. QED
    BY <2>1, <2>2, <1>2 DEF Imports!Applied
<1>7. v.again => UNCHANGED Imports!tables
  <2>1. v.again => partners' = partners
    BY <1>1, <1>2, <1>3, NoMore DEF Repeats
  <2>2. QED
    BY <2>1, <1>1 DEF Imports!tables
<1>8. QED
  BY <1>1, <1>5, <1>6, <1>7, CardsCommitted

\* A file of warehouses commits.
LEMMA WarehousesCommitted ==
  ASSUME ImportInv, NEW s \in Session, Imports!CommitWarehouses(s)
  PROVE  ImportInv' /\ (import[s].again => UNCHANGED Imports!tables)
<1> DEFINE v == import[s]
<1>1. /\ Imports!Done(s, "warehouses") /\ warehouses' = warehouses \o v.pending
      /\ Imports!Committed(s, {})
      /\ UNCHANGED <<products, groups, partners, stock, moved, debts, disturbed>>
  BY DEF Imports!CommitWarehouses
<1>2. /\ v.file.kind = "warehouses" /\ v.file \in ImportFile /\ v.row - 1 = Len(v.file.rows)
      /\ DOMAIN v.file.rows = 1 .. Len(v.file.rows)
      /\ v.pending \in Seq(OtherCard)
      /\ Gone(v, products, partners, warehouses) /\ Repeats(s)
  BY <1>1, AtEnd DEF CardOf
<1>3. ImportTables /\ partners \in Seq(OtherCard) /\ warehouses \in Seq(OtherCard)
      /\ products \in Seq(ProductCard) /\ groups \in Seq(Cells)
  BY DEF ImportInv, ImportTables
<1>4. /\ products' = products \o <<>> /\ partners' = partners \o <<>> /\ groups' = groups \o <<>>
      /\ <<>> \in Seq(OtherCard) /\ <<>> \in Seq(ProductCard) /\ <<>> \in Seq(Cells)
  BY <1>1, <1>3, NoMore, EmptySeq
<1>5. Grow /\ Imports!Elements(warehouses') = Imports!Elements(warehouses) \cup Imports!Elements(v.pending)
  BY <1>1, <1>2, <1>3, <1>4, MoreCards
<1>6. Imports!Applied'
  <2>1. latest'.file = v.file
    BY <1>1 DEF Imports!Committed
  <2>2. ASSUME NEW i \in 1 .. Len(v.file.rows)
        PROVE  Imports!FindByName(warehouses', v.file.rows[i].name) # 0
    <3>1. Named(Imports!Elements(warehouses) \cup Imports!Elements(v.pending), v.file.rows[i].name)
      BY <1>2 DEF Gone
    <3>2. warehouses' \in Seq(OtherCard)
      BY <1>5 DEF Grow, ImportTables
    <3>3. QED
      BY <3>1, <3>2, <1>5, Found
  <2>3. QED
    BY <2>1, <2>2, <1>2 DEF Imports!Applied
<1>7. v.again => UNCHANGED Imports!tables
  <2>1. v.again => warehouses' = warehouses
    BY <1>1, <1>2, <1>3, NoMore DEF Repeats
  <2>2. QED
    BY <2>1, <1>1 DEF Imports!tables
<1>8. QED
  BY <1>1, <1>5, <1>6, <1>7, CardsCommitted

\* An opening stock commits.
LEMMA StockCommitted ==
  ASSUME ImportInv, NEW s \in Session, Imports!CommitStock(s)
  PROVE  ImportInv' /\ (import[s].again => UNCHANGED Imports!tables)
<1> DEFINE v == import[s]
<1>1. PICK written :
        /\ written = Imports!Written(v)
        /\ Imports!Done(s, "opening-stock") /\ Imports!Committed(s, written)
        /\ stock' = Imports!Over([k \in written |-> v.local[k]], stock)
        /\ moved' = Imports!Over([k \in DOMAIN v.delta |-> Imports!OrZero(moved, k) + v.delta[k]], moved)
        /\ disturbed' = disturbed \cup (v.overtaken \cap written)
        /\ UNCHANGED <<products, groups, partners, warehouses, debts>>
  BY Zenon DEF Imports!CommitStock
<1>2. /\ v.file.kind = "opening-stock" /\ v.file \in ImportFile /\ v.row - 1 = Len(v.file.rows)
      /\ DOMAIN v.file.rows = 1 .. Len(v.file.rows) /\ Len(v.file.rows) \in Nat
      /\ Balances(v) /\ Gone(v, products, partners, warehouses)
      /\ Lasts(v.file, Len(v.file.rows), v) /\ Repeats(s)
  BY <1>1, AtEnd DEF Explains
<1>3. /\ ImportTables /\ OpeningExplained /\ Imports!Applied
  BY DEF ImportInv
<1>4. /\ written \subseteq DOMAIN v.local /\ DOMAIN v.local \subseteq DOMAIN v.delta
      /\ DOMAIN v.delta \subseteq Imports!Key
      /\ \A k \in DOMAIN v.local : v.local[k] \in Nat /\ v.base[k] \in Nat
      /\ \A k \in DOMAIN v.local \ written : v.local[k] = v.base[k]
      /\ \A k \in DOMAIN v.delta : Agrees(v, k) /\ (k \in v.locked => k \in written)
  BY <1>1, <1>2 DEF Balances, Imports!Written, Imports!Changed
<1>5. \A k : Imports!OrZero(moved, k) \in Int /\ Imports!OrZero(stock, k) \in Nat
  BY <1>3 DEF ImportTables, Imports!OrZero
\* What is not written has not changed.
<1>6. ASSUME NEW k \in DOMAIN v.delta \ written
      PROVE  /\ k \in DOMAIN stock /\ v.delta[k] = 0
             /\ k \in DOMAIN v.local /\ k \notin v.overtaken => v.local[k] = stock[k]
  <2>1. Agrees(v, k) /\ k \notin v.locked
    BY <1>4
  <2>2. /\ k \in DOMAIN stock
        /\ v.delta[k] = (IF k \in DOMAIN v.local THEN v.local[k] - v.base[k] ELSE 0)
        /\ k \in DOMAIN v.local /\ k \notin v.overtaken => v.delta[k] = v.local[k] - Imports!OrZero(stock, k)
    BY <2>1 DEF Agrees
  <2>3. k \in DOMAIN v.local => /\ v.local[k] \in Int /\ v.base[k] \in Int /\ v.local[k] = v.base[k]
    BY <1>4
  <2>4. Imports!OrZero(stock, k) \in Int /\ stock[k] = Imports!OrZero(stock, k)
    BY <1>5, <2>2 DEF Imports!OrZero
  <2>5. v.delta[k] = 0 /\ (k \in DOMAIN v.local /\ k \notin v.overtaken => v.local[k] = Imports!OrZero(stock, k))
    BY ONLY <2>2, <2>3, <2>4
  <2>6. QED
    BY <2>2, <2>4, <2>5
<1>7. /\ stock' = [k \in written \cup DOMAIN stock |->
                     IF k \in written THEN v.local[k] ELSE stock[k]]
      /\ moved' = [k \in DOMAIN v.delta \cup DOMAIN stock |->
                     IF k \in DOMAIN v.delta THEN Imports!OrZero(moved, k) + v.delta[k] ELSE moved[k]]
      /\ DOMAIN v.delta \cup DOMAIN stock = written \cup DOMAIN stock
  BY <1>1, <1>3, <1>4, <1>6 DEF Imports!Over, ImportTables
<1>8. ASSUME NEW k \in DOMAIN v.delta
      PROVE  /\ Imports!OrZero(moved, k) + v.delta[k] \in Int
             /\ k \in written /\ k \notin disturbed' => Imports!OrZero(moved, k) + v.delta[k] = v.local[k]
             /\ k \notin written => Imports!OrZero(moved, k) + v.delta[k] = moved[k]
  <2>1. k \notin disturbed => Imports!OrZero(moved, k) = Imports!OrZero(stock, k)
    BY <1>3 DEF OpeningExplained, Imports!OpeningExplained, ImportTables, Imports!OrZero
  <2>2. /\ v.delta[k] \in Int /\ Imports!OrZero(moved, k) \in Int /\ Imports!OrZero(stock, k) \in Int
        /\ k \in written => k \in DOMAIN v.local /\ v.local[k] \in Int
    BY <1>4, <1>5 DEF Agrees
  <2>3. k \in written /\ k \notin disturbed' =>
          k \notin disturbed /\ v.delta[k] = v.local[k] - Imports!OrZero(stock, k)
    BY <1>1, <1>4 DEF Agrees
  <2>4. k \notin written => v.delta[k] = 0 /\ Imports!OrZero(moved, k) = moved[k]
    BY <1>3, <1>6 DEF ImportTables, Imports!OrZero
  <2>5. QED
    BY ONLY <2>1, <2>2, <2>3, <2>4
<1>9. Grow
  <2>1. /\ products \in Seq(ProductCard) /\ warehouses \in Seq(OtherCard)
        /\ Len(products) \in Nat /\ Len(warehouses) \in Nat
    BY <1>3, LenProperties DEF ImportTables
  <2>2. Imports!Key' = Imports!Key
    BY <1>1 DEF Imports!Key
  <2>3. /\ stock' = [k \in DOMAIN stock' |-> stock'[k]] /\ moved' = [k \in DOMAIN moved' |-> moved'[k]]
        /\ DOMAIN stock' \subseteq Imports!Key /\ DOMAIN moved' = DOMAIN stock'
        /\ disturbed' \subseteq DOMAIN stock' /\ DOMAIN stock \subseteq DOMAIN stock'
    BY <1>1, <1>3, <1>4, <1>7 DEF ImportTables
  <2>4. \A k \in DOMAIN stock' : stock'[k] \in Nat /\ moved'[k] \in Int
    BY <1>3, <1>4, <1>7, <1>8 DEF ImportTables
  <2>5. ImportTables'
    BY <1>1, <1>3, <2>2, <2>3, <2>4 DEF ImportTables
  <2>6. QED
    BY <1>1, <2>1, <2>3, <2>5 DEF Grow, Imports!Elements
<1>10. \A k : k \in written \/ Imports!OrZero(stock, k)' = Imports!OrZero(stock, k)
  BY <1>7 DEF Imports!OrZero
<1>11. OpeningExplained'
  <2>1. ASSUME NEW k \in DOMAIN stock' \ disturbed' PROVE stock'[k] = moved'[k]
    <3>1. k \notin disturbed
      BY <1>1
    <3>2. CASE k \in written
      BY <3>2, <1>4, <1>7, <1>8
    <3>3. CASE k \notin written
      <4>1. stock'[k] = stock[k] /\ moved'[k] = moved[k] /\ k \in DOMAIN stock
        BY <3>3, <1>7, <1>8
      <4>2. QED
        BY <3>1, <4>1, <1>3 DEF OpeningExplained, Imports!OpeningExplained
    <3>4. QED
      BY <3>2, <3>3
  <2>2. QED
    BY <2>1 DEF OpeningExplained, Imports!OpeningExplained
\* The last row of a balance is the one that is written, or left to others.
<1>12. ASSUME NEW i \in 1 .. Len(v.file.rows)
       PROVE  /\ v.keys[i] \in DOMAIN v.delta
              /\ \/ products[v.keys[i][1]].name = v.file.rows[i].name
                 \/ products[v.keys[i][1]].sku = v.file.rows[i].sku
              /\ warehouses[v.keys[i][2]].name = v.file.rows[i].place
              /\ (\A j \in 1 .. Len(v.file.rows) : j > i => v.keys[j] # v.keys[i])
                   => Held(v, v.keys[i], v.file.rows[i].number)
  <2>1. /\ v.keys[i] \in DOMAIN v.delta
        /\ \/ products[v.keys[i][1]].name = v.file.rows[i].name
           \/ products[v.keys[i][1]].sku = v.file.rows[i].sku
        /\ warehouses[v.keys[i][2]].name = v.file.rows[i].place
    BY <1>2 DEF Gone
  <2>2. ASSUME \A j \in 1 .. Len(v.file.rows) : j > i => v.keys[j] # v.keys[i]
        PROVE  Held(v, v.keys[i], v.file.rows[i].number)
    <3>1. PICK l \in 1 .. Len(v.file.rows) :
             /\ v.keys[l] = v.keys[i] /\ Held(v, v.keys[i], v.file.rows[l].number)
             /\ \A j \in l + 1 .. Len(v.file.rows) : v.keys[j] # v.keys[i]
      BY <1>2, <2>1 DEF Lasts
    <3>2. ~ l > i
      BY <3>1, <2>2
    <3>3. ~ i \in l + 1 .. Len(v.file.rows)
      BY <3>1
    <3>4. Len(v.file.rows) \in Nat
      BY <1>2
    <3>5. l = i
      BY ONLY <3>2, <3>3, <3>4, l \in 1 .. Len(v.file.rows), i \in 1 .. Len(v.file.rows)
    <3>6. QED
      BY <3>1, <3>5
  <2>3. QED
    BY <2>1, <2>2
<1>13. ASSUME NEW k \in DOMAIN v.delta, NEW n, Held(v, k, n), k \notin v.overtaken \ written
       PROVE  stock'[k] = n
  <2>1. CASE k \in written
    BY <2>1, <1>4, <1>7, <1>13 DEF Held
  <2>2. CASE k \notin written
    <3>1. k \in DOMAIN stock /\ stock'[k] = stock[k] /\ k \notin v.overtaken
          /\ (k \in DOMAIN v.local => v.local[k] = stock[k])
      BY <2>2, <1>6, <1>7, <1>13
    <3>2. QED
      BY <3>1, <1>13 DEF Held, Imports!OrZero
  <2>3. QED
    BY <2>1, <2>2
<1>14. Imports!Applied'
  <2>1. latest'.file = v.file /\ latest'.keys = v.keys /\ latest'.spared = v.overtaken \ written
    BY <1>1 DEF Imports!Committed
  <2>2. products' = products /\ warehouses' = warehouses
    BY <1>1
  <2>3. ASSUME NEW i \in 1 .. Len(v.file.rows)
        PROVE  /\ v.keys[i] \in DOMAIN stock'
               /\ \/ products'[v.keys[i][1]].name = v.file.rows[i].name
                  \/ products'[v.keys[i][1]].sku = v.file.rows[i].sku
               /\ warehouses'[v.keys[i][2]].name = v.file.rows[i].place
               /\ \/ \E j \in 1 .. Len(v.file.rows) : j > i /\ v.keys[j] = v.keys[i]
                  \/ v.keys[i] \in v.overtaken \ written
                  \/ stock'[v.keys[i]] = v.file.rows[i].number
    BY <1>7, <1>12, <1>13, <2>2
  <2>4. QED
    BY <2>1, <2>3, <1>2 DEF Imports!Applied
<1>15. v.again => UNCHANGED Imports!tables
  <2>1. SUFFICES ASSUME v.again PROVE stock' = stock
    BY <1>1 DEF Imports!tables
  <2>2. /\ latest.file = v.file /\ latest.spared = {}
        /\ \A i \in 1 .. Len(v.file.rows) : v.keys[i] = latest.keys[i]
    BY <2>1, <1>2 DEF Repeats
  <2>3. ASSUME NEW i \in 1 .. Len(v.file.rows)
        PROVE  /\ v.keys[i] \in DOMAIN stock
               /\ \/ \E j \in 1 .. Len(v.file.rows) : j > i /\ v.keys[j] = v.keys[i]
                  \/ stock[v.keys[i]] = v.file.rows[i].number
    <3>1. /\ latest.keys[i] \in DOMAIN stock
          /\ \/ \E j \in 1 .. Len(v.file.rows) : j > i /\ latest.keys[j] = latest.keys[i]
             \/ stock[latest.keys[i]] = v.file.rows[i].number
      BY <2>2, <1>2, <1>3 DEF Imports!Applied
    <3>2. QED
      BY <3>1, <2>2
  <2>4. ASSUME NEW k \in written PROVE k \in DOMAIN stock /\ stock[k] = v.local[k]
    <3>1. PICK i \in 1 .. Len(v.file.rows) :
             /\ v.keys[i] = k /\ Held(v, k, v.file.rows[i].number)
             /\ \A j \in i + 1 .. Len(v.file.rows) : v.keys[j] # k
      BY <1>2, <1>4 DEF Lasts
    <3>2. ASSUME NEW j \in 1 .. Len(v.file.rows), j > i PROVE v.keys[j] # v.keys[i]
      <4>1. Len(v.file.rows) \in Nat
        BY <1>2
      <4>2. j \in i + 1 .. Len(v.file.rows)
        BY ONLY <3>2, <4>1, i \in 1 .. Len(v.file.rows), j \in 1 .. Len(v.file.rows)
      <4>3. QED
        BY <4>2, <3>1
    <3>3. v.local[k] = v.file.rows[i].number
      BY <3>1, <1>4 DEF Held
    <3>4. QED
      BY <3>1, <3>2, <3>3, <2>3
  <2>5. QED
    BY <2>4, <1>3, <1>7 DEF ImportTables
<1>16. QED
  BY <1>1, <1>9, <1>10, <1>11, <1>14, <1>15, Commit

\* Opening debts commit.
LEMMA DebtsCommitted ==
  ASSUME ImportInv, NEW s \in Session, Imports!CommitDebts(s)
  PROVE  ImportInv' /\ (import[s].again => UNCHANGED Imports!tables)
<1> DEFINE v == import[s]
           rows == v.file.rows
           owed == {i \in DOMAIN rows : rows[i].number # 0}
           partner(i) == Imports!FindByName(partners, rows[i].name)
           new == [p \in {partner(i) : i \in owed} |->
                     rows[CHOOSE i \in owed : partner(i) = p].number]
<1>1. /\ v.pc = "apply" /\ v.file.kind = "opening-partner-balances" /\ Imports!Committed(s, {})
      /\ \A i, j \in owed : i # j => partner(i) # partner(j)
      /\ \A i \in owed : partner(i) \notin DOMAIN debts
      /\ debts' = Imports!Over(new, debts)
      /\ UNCHANGED <<products, groups, partners, warehouses, stock, moved, disturbed>>
  BY Zenon DEF Imports!CommitDebts, Imports!Applying
<1>2. ImportTables /\ Imports!Applied /\ SessionOK(s) /\ partners \in Seq(OtherCard)
  BY DEF ImportInv, ImportTables
<1>3. /\ v.file \in ImportFile
      /\ \A i \in 1 .. Len(rows) : RowFits("opening-partner-balances", rows[i])
  BY <1>1, <1>2, Zenon DEF SessionOK, ImportShaped
<1>4. DOMAIN rows = 1 .. Len(rows)
  BY <1>3, Rows
<1>5. \A i \in DOMAIN rows : partner(i) # 0 /\ partner(i) \in 1 .. Len(partners)
  <2>1. ASSUME NEW i \in DOMAIN rows PROVE partner(i) # 0 /\ partner(i) \in 1 .. Len(partners)
    <3>1. Named(Imports!Elements(partners), rows[i].name)
      BY <1>3, <1>4 DEF RowFits
    <3>2. QED
      BY <3>1, <1>2, Found
  <2>2. QED
    BY <2>1
<1>6. ASSUME NEW i \in owed
      PROVE  partner(i) \in DOMAIN debts' /\ debts'[partner(i)] = rows[i].number
  <2>1. (CHOOSE j \in owed : partner(j) = partner(i)) = i
    <3> DEFINE l == CHOOSE j \in owed : partner(j) = partner(i)
    <3>1. l \in owed /\ partner(l) = partner(i)
      OBVIOUS
    <3>2. QED
      BY <3>1, <1>1, Zenon
  <2>2. partner(i) \in DOMAIN new /\ new[partner(i)] = rows[i].number
    BY <2>1, Zenon
  <2> HIDE DEF new
  <2>3. QED
    BY <2>2, <1>1 DEF Imports!Over
<1>7. Grow
  <2>1. /\ products \in Seq(ProductCard) /\ warehouses \in Seq(OtherCard)
        /\ Len(products) \in Nat /\ Len(warehouses) \in Nat
    BY <1>2, LenProperties DEF ImportTables
  <2>2. Imports!Key' = Imports!Key
    BY <1>1, Zenon DEF Imports!Key
  <2>3. DOMAIN new \subseteq 1 .. Len(partners)
    BY <1>5
  <2> HIDE DEF new
  <2>4. debts' = [p \in DOMAIN debts' |-> debts'[p]] /\ DOMAIN debts' \subseteq 1 .. Len(partners)
    BY <2>3, <1>1, <1>2 DEF Imports!Over, ImportTables
  <2>5. ImportTables'
    BY <1>1, <1>2, <2>2, <2>4 DEF ImportTables
  <2>6. QED
    BY <1>1, <2>1, <2>5 DEF Grow, Imports!Elements
<1>8. Imports!Applied'
  <2>1. latest'.file = v.file /\ partners' = partners
    BY <1>1, Zenon DEF Imports!Committed
  <2>2. ASSUME NEW i \in DOMAIN rows, rows[i].number # 0
        PROVE  /\ partner(i) # 0 /\ partner(i) \in DOMAIN debts'
               /\ debts'[partner(i)] = rows[i].number
    BY <2>2, <1>5, <1>6
  <2> HIDE DEF new, owed
  <2>3. QED
    BY <2>1, <2>2, <1>1 DEF Imports!Applied
<1>9. v.again => UNCHANGED Imports!tables
  <2>1. SUFFICES ASSUME v.again PROVE debts' = debts
    BY <1>1, Zenon DEF Imports!tables
  <2>2. latest.file = v.file
    BY <2>1, <1>2 DEF SessionOK, Repeats
  <2>3. \A i \in DOMAIN rows : rows[i].number # 0 => partner(i) \in DOMAIN debts
    BY <2>2, <1>1, <1>2, Zenon DEF Imports!Applied
  <2>4. owed = {}
    BY <2>3, <1>1, Zenon
  <2>5. DOMAIN new = {}
    BY <2>4
  <2> HIDE DEF new
  <2>6. QED
    BY <2>5, <1>1, <1>2 DEF Imports!Over, ImportTables
<1>10. stock' = stock /\ moved' = moved /\ disturbed' = disturbed
  BY <1>1, Zenon
<1>11. (\A k : Imports!OrZero(stock, k)' = Imports!OrZero(stock, k)) /\ OpeningExplained'
  BY <1>10 DEF Imports!OrZero, ImportInv, OpeningExplained, Imports!OpeningExplained
<1>12. QED
  BY <1>1, <1>7, <1>8, <1>9, <1>11, Commit, Zenon

\* A document is posted beside the imports.
LEMMA DocumentPosted ==
  ASSUME ImportInv, NEW k \in Imports!Key, NEW d \in {1, -1}, Imports!Posting(k, d)
  PROVE  ImportInv'
<1>1. /\ Imports!OrZero(stock, k) + d \in 0 .. MaxQuantity
      /\ stock' = Imports!Put(stock, k, Imports!OrZero(stock, k) + d)
      /\ moved' = Imports!Put(moved, k, Imports!OrZero(moved, k) + d)
      /\ disturbed' = disturbed
      /\ latest' = Imports!Nothing
      /\ import' = [u \in Session |-> Imports!Overtake(u, {k})]
      /\ UNCHANGED <<products, groups, partners, warehouses, debts>>
  BY DEF Imports!Posting
<1>2. ImportTables /\ OpeningExplained
  BY DEF ImportInv
<1>3. /\ Imports!OrZero(stock, k) \in Int /\ Imports!OrZero(moved, k) \in Int
      /\ k \notin disturbed => Imports!OrZero(stock, k) = Imports!OrZero(moved, k)
  BY <1>2 DEF ImportTables, Imports!OrZero, OpeningExplained, Imports!OpeningExplained
<1>4. /\ Imports!OrZero(stock, k) + d \in Nat /\ Imports!OrZero(moved, k) + d \in Int
      /\ k \notin disturbed => Imports!OrZero(stock, k) + d = Imports!OrZero(moved, k) + d
  BY <1>1, <1>3
<1>5. /\ stock' = [j \in DOMAIN stock \cup {k} |->
                     IF j = k THEN Imports!OrZero(stock, k) + d ELSE stock[j]]
      /\ moved' = [j \in DOMAIN stock \cup {k} |->
                     IF j = k THEN Imports!OrZero(moved, k) + d ELSE moved[j]]
  BY <1>1, <1>2 DEF Imports!Put, ImportTables
<1>6. Grow
  <2>1. /\ products \in Seq(ProductCard) /\ warehouses \in Seq(OtherCard)
        /\ Len(products) \in Nat /\ Len(warehouses) \in Nat
    BY <1>2, LenProperties DEF ImportTables
  <2>2. Imports!Key' = Imports!Key
    BY <1>1 DEF Imports!Key
  <2>3. /\ stock' = [j \in DOMAIN stock' |-> stock'[j]] /\ moved' = [j \in DOMAIN moved' |-> moved'[j]]
        /\ DOMAIN stock' \subseteq Imports!Key /\ DOMAIN moved' = DOMAIN stock'
        /\ disturbed' \subseteq DOMAIN stock' /\ DOMAIN stock \subseteq DOMAIN stock'
    BY <1>1, <1>2, <1>5 DEF ImportTables
  <2>4. \A j \in DOMAIN stock' : stock'[j] \in Nat /\ moved'[j] \in Int
    BY <1>2, <1>4, <1>5 DEF ImportTables
  <2>5. ImportTables'
    BY <1>1, <1>2, <2>2, <2>3, <2>4 DEF ImportTables
  <2>6. QED
    BY <1>1, <2>1, <2>3, <2>5 DEF Grow, Imports!Elements
<1>7. OpeningExplained'
  BY <1>1, <1>2, <1>4, <1>5 DEF OpeningExplained, Imports!OpeningExplained
<1>8. Imports!Applied'
  <2>1. latest'.file.rows = <<>> /\ DOMAIN <<>> = {}
    BY <1>1 DEF Imports!Nothing, Imports!NoFile
  <2>2. QED
    BY <2>1 DEF Imports!Applied
<1>9. ASSUME NEW u \in Session PROVE SessionOK(u)'
  <2>1. import'[u] = Imports!Overtake(u, {k})
    BY <1>1
  <2>2. ASSUME NEW j \in DOMAIN import[u].delta \ {k}
        PROVE  Imports!OrZero(stock, j)' = Imports!OrZero(stock, j)
    BY <1>5 DEF Imports!OrZero
  <2>3. QED
    BY <2>1, <2>2, <1>6, OthersGrow
<1>10. import' = [u \in Session |-> import'[u]]
  BY <1>1
<1>11. QED
  BY <1>6, <1>7, <1>8, <1>9, <1>10 DEF ImportInv, Grow
-----------------------------------------------------------------------------
\* A file sent again that is there already changes no table when it ends.
NothingNew == \A s \in Session : import[s].again /\ import'[s].pc = "idle" => UNCHANGED Imports!tables

\* A repeated import that goes on does not end.
LEMMA OthersGoOn ==
  ASSUME ImportInv, NEW s \in Session, import[s].again, NEW K, import'[s] = Imports!Overtake(s, K)
  PROVE  import'[s].pc # "idle"
<1>1. import[s].pc = "apply" /\ import[s] = [c \in ImportColumn |-> import[s][c]]
  BY DEF ImportInv, SessionOK, ImportShaped
<1>2. import'[s].pc = import[s].pc
  BY <1>1 DEF ImportColumn, Imports!Overtake
<1>3. QED
  BY <1>1, <1>2

\* Of the steps of a repeated import only its commit could change a table.
LEMMA CommitRepeats ==
  ASSUME ImportInv, NEW s \in Session, NEW K, Imports!Committed(s, K), import[s].again => UNCHANGED Imports!tables
  PROVE  NothingNew
<1>1. ASSUME NEW u \in Session, import[u].again, import'[u].pc = "idle" PROVE UNCHANGED Imports!tables
  <2>1. CASE u = s
    BY <2>1, <1>1
  <2>2. CASE u # s
    <3>1. import'[u] = Imports!Overtake(u, K)
      BY <2>2 DEF Imports!Committed
    <3>2. QED
      BY <3>1, <1>1, OthersGoOn
  <2>3. QED
    BY <2>1, <2>2
<1>2. QED
  BY <1>1 DEF NothingNew

\* Every step keeps the invariant of imports, and a repeated import changes nothing.
LEMMA ImportStep ==
  ASSUME ImportInv, [Imports!Next]_(Imports!vars) PROVE ImportInv' /\ NothingNew
<1>1. ASSUME UNCHANGED Imports!vars PROVE ImportInv' /\ NothingNew
  <2>1. SameTables /\ import' = import /\ UNCHANGED Imports!tables
    BY <1>1 DEF Imports!vars, Imports!tables, SameTables
  <2>2. \A u \in Session : SessionOK(u)'
    BY <2>1, Unmoved DEF ImportInv
  <2>3. ImportTables'
    BY <2>1 DEF ImportInv, ImportTables, SameTables, Imports!Key
  <2>4. OpeningExplained' /\ Imports!Applied'
    BY <2>1 DEF ImportInv, SameTables, OpeningExplained, Imports!OpeningExplained, Imports!Applied
  <2>5. import' = [s \in Session |-> import'[s]]
    BY <2>1 DEF ImportInv
  <2>6. QED
    BY <2>1, <2>2, <2>3, <2>4, <2>5 DEF ImportInv, NothingNew
<1>2. ASSUME NEW k \in Imports!Key, NEW d \in {1, -1}, Imports!Posting(k, d)
      PROVE  ImportInv' /\ NothingNew
  <2>1. ImportInv'
    BY <1>2, DocumentPosted
  <2>2. \A u \in Session : import'[u] = Imports!Overtake(u, {k})
    BY <1>2 DEF Imports!Posting
  <2>3. QED
    BY <2>1, <2>2, OthersGoOn DEF NothingNew
<1>3. ASSUME NEW s \in Session, Imports!Import(s) PROVE ImportInv' /\ NothingNew
  <2>1. ASSUME NEW f \in ImportFile, Imports!Start(s, f) PROVE ImportInv' /\ NothingNew
    BY <2>1, Started DEF Imports!Start, NothingNew
  <2>2. ASSUME Imports!ApplyProduct(s) PROVE ImportInv' /\ NothingNew
    BY <2>2, ProductApplied, Zenon DEF Imports!ApplyProduct, NothingNew
  <2>3. ASSUME Imports!ApplyPartner(s) PROVE ImportInv' /\ NothingNew
    <3>1. partners \in Seq(OtherCard)
      BY DEF ImportInv, ImportTables
    <3>2. Imports!Applying(s, "partners") /\ Imports!ApplyCard(s, partners)
      BY <2>3 DEF Imports!ApplyPartner
    <3>3. ImportInv'
      BY <3>1, <3>2, CardApplied
    <3>4. QED
      BY <3>2, <3>3 DEF Imports!ApplyCard, NothingNew
  <2>4. ASSUME Imports!ApplyWarehouse(s) PROVE ImportInv' /\ NothingNew
    <3>1. warehouses \in Seq(OtherCard)
      BY DEF ImportInv, ImportTables
    <3>2. Imports!Applying(s, "warehouses") /\ Imports!ApplyCard(s, warehouses)
      BY <2>4 DEF Imports!ApplyWarehouse
    <3>3. ImportInv'
      BY <3>1, <3>2, CardApplied
    <3>4. QED
      BY <3>2, <3>3 DEF Imports!ApplyCard, NothingNew
  <2>5. ASSUME Imports!ApplyStock(s) PROVE ImportInv' /\ NothingNew
    BY <2>5, StockApplied DEF Imports!ApplyStock, NothingNew
  <2>6. ASSUME Imports!CommitProducts(s) PROVE ImportInv' /\ NothingNew
    BY <2>6, ProductsCommitted, CommitRepeats DEF Imports!CommitProducts
  <2>7. ASSUME Imports!CommitPartners(s) PROVE ImportInv' /\ NothingNew
    BY <2>7, PartnersCommitted, CommitRepeats DEF Imports!CommitPartners
  <2>8. ASSUME Imports!CommitWarehouses(s) PROVE ImportInv' /\ NothingNew
    BY <2>8, WarehousesCommitted, CommitRepeats DEF Imports!CommitWarehouses
  <2>9. ASSUME Imports!CommitStock(s) PROVE ImportInv' /\ NothingNew
    BY <2>9, StockCommitted, CommitRepeats DEF Imports!CommitStock
  <2>10. ASSUME Imports!CommitDebts(s) PROVE ImportInv' /\ NothingNew
    BY <2>10, DebtsCommitted, CommitRepeats, Zenon DEF Imports!CommitDebts
  <2>11. ASSUME Imports!Rollback(s) PROVE ImportInv' /\ NothingNew
    BY <2>11, GaveUpImport DEF Imports!Rollback, NothingNew
  <2>12. QED
    BY <1>3, <2>1, <2>2, <2>3, <2>4, <2>5, <2>6, <2>7, <2>8, <2>9, <2>10, <2>11 DEF Imports!Import
<1>4. QED
  BY <1>1, <1>2, <1>3 DEF Imports!Next

\* The invariant of imports always holds.
LEMMA ImportsKept == Imports!Spec => []ImportInv
<1>1. Imports!Init => ImportInv
  BY ImportInit
<1>2. ImportInv /\ [Imports!Next]_(Imports!vars) => ImportInv'
  BY ImportStep
<1>3. QED
  BY <1>1, <1>2, PTL DEF Imports!Spec

\* It contains the types.
LEMMA ImportTyped == ImportInv => Imports!TypeOK
<1>1. SUFFICES ASSUME ImportInv PROVE Imports!TypeOK
  OBVIOUS
<1>2. ImportTables
  BY <1>1 DEF ImportInv
<1>3. \A p \in Imports!Elements(products) : DOMAIN p = {"sku", "name", "group"}
  <2>1. products \in Seq(ProductCard)
    BY <1>2 DEF ImportTables
  <2>2. \A i \in DOMAIN products : products[i] \in ProductCard
    BY <2>1, ElementOfSeq, LenProperties
  <2>3. QED
    BY <2>2 DEF Imports!Elements, ProductCard
<1>4. \A c \in Imports!Elements(partners) \cup Imports!Elements(warehouses) : DOMAIN c = {"name", "code"}
  <2>1. partners \in Seq(OtherCard) /\ warehouses \in Seq(OtherCard)
    BY <1>2 DEF ImportTables
  <2>2. /\ \A i \in DOMAIN partners : partners[i] \in OtherCard
        /\ \A i \in DOMAIN warehouses : warehouses[i] \in OtherCard
    BY <2>1, ElementOfSeq, LenProperties
  <2>3. QED
    BY <2>2 DEF Imports!Elements, OtherCard
<1>5. /\ DOMAIN stock \subseteq Imports!Key /\ \A k \in DOMAIN stock : stock[k] \in Nat
      /\ DOMAIN moved = DOMAIN stock /\ disturbed \subseteq DOMAIN stock
  BY <1>2 DEF ImportTables
<1>6. DOMAIN debts \subseteq DOMAIN partners
  BY <1>2, LenProperties DEF ImportTables
<1>7. ASSUME NEW s \in Session
      PROVE  import[s].pc \in {"idle", "apply"} /\ import[s].row \in 1 .. MaxRows + 1
  <2>1. ImportShaped(s) /\ MaxRows \in Nat
    BY <1>1, ImportBounds DEF ImportInv, SessionOK
  <2>2. CASE import[s].pc = "idle" /\ import[s].row = 1
    BY <2>1, <2>2
  <2>3. CASE import[s].pc = "apply" /\ import[s].file \in ImportFile
             /\ Len(import[s].file.rows) <= MaxRows /\ import[s].row <= Len(import[s].file.rows) + 1
    <3>1. Len(import[s].file.rows) \in Nat /\ import[s].row \in Nat \ {0}
      BY <2>1, <2>3, Rows DEF ImportShaped
    <3>2. import[s].row \in 1 .. MaxRows + 1
      BY ONLY <2>1, <2>3, <3>1
    <3>3. QED
      BY <2>3, <3>2
  <2>4. QED
    BY <2>1, <2>2, <2>3 DEF ImportShaped
<1>8. QED
  BY <1>3, <1>4, <1>5, <1>6, <1>7 DEF Imports!TypeOK

\* The tables of the import and the sessions keep their shape: balances belong to
\* keys there are, are natural, and have a sum of movements each.
THEOREM ImportTypes == Imports!Spec => []Imports!TypeOK
BY ImportsKept, ImportTyped, PTL

\* ImportService._apply_opening_stock: the movements it writes add up to the balance it
\* writes, also when the file names or reads a balance twice, unless it has overwritten
\* what a posting or another import committed between its read and its commit.
THEOREM OpeningIsExplained == Imports!Spec => []OpeningExplained
<1>1. ImportInv => OpeningExplained
  BY DEF ImportInv
<1>2. QED
  BY <1>1, ImportsKept, PTL

\* ImportService.apply: a file reported as applied is applied as a whole, whatever the
\* other sessions and the postings do in between, but for a balance it found as the file
\* wants it, which it does not write, and others changed before the commit.  The file sent
\* again, when it left no balance to others, changes no table.
THEOREM ImportsWhole == Imports!Spec => ImportsAreWhole
<1> DEFINE Whole == /\ Imports!Applied'
                    /\ \A s \in Session :
                         import[s].again /\ import'[s].pc = "idle" => UNCHANGED Imports!tables
<1>1. ImportInv /\ [Imports!Next]_(Imports!vars) => [Whole]_(Imports!vars)
  <2>1. SUFFICES ASSUME ImportInv, [Imports!Next]_(Imports!vars) PROVE Whole
    OBVIOUS
  <2>2. ImportInv' /\ NothingNew
    BY <2>1, ImportStep
  <2>3. QED
    BY <2>2 DEF ImportInv, NothingNew
<1>2. Imports!Spec => [][Whole]_(Imports!vars)
  BY <1>1, ImportsKept, PTL DEF Imports!Spec
<1>3. QED
  BY <1>2 DEF ImportsAreWhole, Imports!ImportsAreWhole
-----------------------------------------------------------------------------
(* Reports. What a partner owes is a sum over documents and payments, however *)
(* a report goes about it: by kind and status, as the balance after the last  *)
(* line of a statement, or as the open amounts of documents and payments. A   *)
(* visit that nobody disturbed has read all its figures from the same books.  *)
\* The amounts of some rows, and what each changes of what the partner owes.
Amounts(rows) == [i \in DOMAIN rows |-> rows[i].amount]
DocumentEffects(rows) == [i \in DOMAIN rows |-> Figures!DocumentEffect(rows[i])]
PaymentEffects(rows) == [i \in DOMAIN rows |-> Figures!PaymentEffect(rows[i])]
For(d, rows) == {i \in Figures!Posted(rows) : rows[i].document = d}

\* The tables: a posted payment with a document settles a posted one of its kind, and no
\* document is settled by more than its amount.
Papers ==
  /\ documents \in Seq(Figures!Document) /\ payments \in Seq(Figures!Payment)
  /\ Len(documents) + Len(payments) <= MaxPapers
Settles(i) ==
  LET d == payments[i].document
  IN  d # NoDocument => /\ d \in Figures!Posted(documents)
                        /\ documents[d].type = Figures!DocumentTypeOf(payments[i].type)
Books ==
  /\ Papers
  /\ \A i \in Figures!Posted(payments) : Settles(i)
  /\ \A d \in DOMAIN documents : Figures!Allocated(d, payments) <= documents[d].amount

\* The sums of the reports are those of the lemmas.
LEMMA SameSum ==
  ASSUME NEW f, NEW S PROVE Figures!SumFunctionOnSet(f, S) = SumFunctionOnSet(f, S)
BY DEF Figures!SumFunctionOnSet, SumFunctionOnSet, Figures!FoldFunctionOnSet, FoldFunctionOnSet,
       MapThenFoldSet, Figures!MapThenFoldSet

\* A total of amounts is a sum.
LEMMA TotalIsSum ==
  ASSUME NEW rows, NEW S PROVE Figures!Total(rows, S) = SumFunctionOnSet(Amounts(rows), S)
<1>1. PICK f : f = Amounts(rows)
  OBVIOUS
<1>2. Figures!Total(rows, S) = Figures!SumFunctionOnSet(f, S)
  BY <1>1 DEF Figures!Total, Amounts
<1>3. QED
  BY ONLY <1>1, <1>2, SameSum

\* A table of documents.
LEMMA DocumentRows ==
  ASSUME NEW rows \in Seq(Figures!Document)
  PROVE  /\ IsFiniteSet(DOMAIN rows) /\ DOMAIN rows = 1 .. Len(rows) /\ Len(rows) \in Nat
         /\ \A i \in DOMAIN rows :
              /\ rows[i] \in Figures!Document /\ rows[i].amount \in Nat \ {0} /\ rows[i].day \in Int
              /\ rows[i].type \in {"incoming", "outgoing"}
              /\ rows[i].status \in {"draft", "posted", "cancelled"}
              /\ Amounts(rows)[i] = rows[i].amount
              /\ DocumentEffects(rows)[i] \in Int
              /\ DocumentEffects(rows)[i] = (IF rows[i].status # "posted" THEN 0
                                             ELSE IF rows[i].type = "outgoing" THEN rows[i].amount
                                             ELSE - rows[i].amount)
<1>1. DOMAIN rows = 1 .. Len(rows) /\ Len(rows) \in Nat
  BY LenProperties
<1>2. IsFiniteSet(1 .. Len(rows))
  BY <1>1, FS_Interval
<1>3. \A i \in DOMAIN rows : rows[i] \in Figures!Document
  BY <1>1, ElementOfSeq
<1>4. ASSUME NEW i \in DOMAIN rows
      PROVE  /\ rows[i] \in Figures!Document /\ rows[i].amount \in Nat \ {0} /\ rows[i].day \in Int
             /\ rows[i].type \in {"incoming", "outgoing"}
             /\ rows[i].status \in {"draft", "posted", "cancelled"}
             /\ Amounts(rows)[i] = rows[i].amount
  BY <1>3, Money DEF Figures!Document, Amounts
<1>5. ASSUME NEW i \in DOMAIN rows
      PROVE  /\ DocumentEffects(rows)[i] \in Int
             /\ DocumentEffects(rows)[i] = (IF rows[i].status # "posted" THEN 0
                                             ELSE IF rows[i].type = "outgoing" THEN rows[i].amount
                                             ELSE - rows[i].amount)
  BY <1>4 DEF DocumentEffects, Figures!DocumentEffect
<1>6. QED
  BY <1>1, <1>2, <1>4, <1>5

\* A table of payments.
LEMMA PaymentRows ==
  ASSUME NEW rows \in Seq(Figures!Payment)
  PROVE  /\ IsFiniteSet(DOMAIN rows) /\ DOMAIN rows = 1 .. Len(rows) /\ Len(rows) \in Nat
         /\ \A i \in DOMAIN rows :
              /\ rows[i] \in Figures!Payment /\ rows[i].amount \in Nat \ {0} /\ rows[i].day \in Int
              /\ rows[i].type \in {"customer_payment", "supplier_payment", "refund"}
              /\ rows[i].status \in {"posted", "cancelled"}
              /\ Amounts(rows)[i] = rows[i].amount
              /\ PaymentEffects(rows)[i] \in Int
              /\ PaymentEffects(rows)[i] = (IF rows[i].status # "posted" THEN 0
                                            ELSE IF rows[i].type = "customer_payment" THEN - rows[i].amount
                                            ELSE rows[i].amount)
<1>1. DOMAIN rows = 1 .. Len(rows) /\ Len(rows) \in Nat
  BY LenProperties
<1>2. IsFiniteSet(1 .. Len(rows))
  BY <1>1, FS_Interval
<1>3. \A i \in DOMAIN rows : rows[i] \in Figures!Payment
  BY <1>1, ElementOfSeq
<1>4. ASSUME NEW i \in DOMAIN rows
      PROVE  /\ rows[i] \in Figures!Payment /\ rows[i].amount \in Nat \ {0} /\ rows[i].day \in Int
             /\ rows[i].type \in {"customer_payment", "supplier_payment", "refund"}
             /\ rows[i].status \in {"posted", "cancelled"}
             /\ Amounts(rows)[i] = rows[i].amount
  BY <1>3, Money DEF Figures!Payment, Amounts
<1>5. ASSUME NEW i \in DOMAIN rows
      PROVE  /\ PaymentEffects(rows)[i] \in Int
             /\ PaymentEffects(rows)[i] = (IF rows[i].status # "posted" THEN 0
                                            ELSE IF rows[i].type = "customer_payment" THEN - rows[i].amount
                                            ELSE rows[i].amount)
  BY <1>4 DEF PaymentEffects, Figures!PaymentEffect
<1>6. QED
  BY <1>1, <1>2, <1>4, <1>5

\* What is settled of a document, when the posted payments for it are some among others.
LEMMA AllocatedType ==
  ASSUME NEW rows \in Seq(Figures!Payment), NEW d
  PROVE  /\ For(d, rows) \subseteq DOMAIN rows /\ IsFiniteSet(For(d, rows))
         /\ Figures!Allocated(d, rows) = SumFunctionOnSet(Amounts(rows), For(d, rows))
         /\ \A i \in For(d, rows) : Amounts(rows)[i] \in Nat \ {0}
         /\ Figures!Allocated(d, rows) \in Nat
<1>1. For(d, rows) \subseteq DOMAIN rows
  BY DEF For, Figures!Posted
<1>2. IsFiniteSet(For(d, rows)) /\ \A i \in For(d, rows) : Amounts(rows)[i] \in Nat \ {0}
  BY <1>1, PaymentRows, FS_Subset
<1>3. Figures!Allocated(d, rows) = SumFunctionOnSet(Amounts(rows), For(d, rows))
  <2>1. Figures!Allocated(d, rows) = Figures!Total(rows, For(d, rows))
    BY DEF Figures!Allocated, For
  <2>2. QED
    BY ONLY <2>1, TotalIsSum
<1>4. SumFunctionOnSet(Amounts(rows), For(d, rows)) \in Nat
  BY <1>2, SumNat
<1>5. QED
  BY <1>1, <1>2, <1>3, <1>4

\* Fewer posted payments of the same amounts settle no more.
LEMMA SettledLess ==
  ASSUME NEW r \in Seq(Figures!Payment), NEW q \in Seq(Figures!Payment), NEW d,
         For(d, q) \subseteq For(d, r), \A i \in For(d, q) : q[i].amount = r[i].amount
  PROVE  Figures!Allocated(d, q) <= Figures!Allocated(d, r)
<1>1. /\ For(d, r) \subseteq DOMAIN r /\ IsFiniteSet(For(d, r))
      /\ Figures!Allocated(d, r) = SumFunctionOnSet(Amounts(r), For(d, r))
      /\ \A i \in For(d, r) : Amounts(r)[i] \in Nat \ {0}
  BY AllocatedType
<1>2. /\ For(d, q) \subseteq DOMAIN q /\ IsFiniteSet(For(d, q))
      /\ Figures!Allocated(d, q) = SumFunctionOnSet(Amounts(q), For(d, q))
      /\ \A i \in For(d, q) : Amounts(q)[i] \in Nat \ {0}
  BY AllocatedType
<1>3. \A i \in For(d, q) : Amounts(q)[i] \in Int /\ Amounts(q)[i] = Amounts(r)[i]
  <2>1. ASSUME NEW i \in For(d, q) PROVE Amounts(q)[i] = Amounts(r)[i]
    BY <1>1, <1>2 DEF Amounts
  <2>2. QED
    BY <2>1, <1>2
<1>4. SumFunctionOnSet(Amounts(q), For(d, q)) = SumFunctionOnSet(Amounts(r), For(d, q))
  <2>1. PICK f : f = Amounts(q)
    OBVIOUS
  <2>2. PICK g : g = Amounts(r)
    OBVIOUS
  <2>3. QED
    BY <1>2, <1>3, <2>1, <2>2, SumSame
<1>5. SumFunctionOnSet(Amounts(r), For(d, q)) <= SumFunctionOnSet(Amounts(r), For(d, r))
  <2>1. \A i \in For(d, r) : Amounts(r)[i] \in Nat
    BY <1>1
  <2>2. QED
    BY <1>1, <2>1, SumPart
<1>6. QED
  BY <1>1, <1>2, <1>4, <1>5

\* A document that nothing settles has no posted payment.
LEMMA NothingSettled ==
  ASSUME NEW rows \in Seq(Figures!Payment), NEW d, Figures!Allocated(d, rows) = 0
  PROVE  For(d, rows) = {}
<1>1. SUFFICES ASSUME NEW i \in For(d, rows) PROVE FALSE
  OBVIOUS
<1>2. /\ IsFiniteSet(For(d, rows))
      /\ Figures!Allocated(d, rows) = SumFunctionOnSet(Amounts(rows), For(d, rows))
      /\ \A j \in For(d, rows) : Amounts(rows)[j] \in Nat /\ Amounts(rows)[j] > 0
  BY AllocatedType
<1>3. SumFunctionOnSet(Amounts(rows), {i}) <= SumFunctionOnSet(Amounts(rows), For(d, rows))
  BY <1>2, SumPart
<1>4. SumFunctionOnSet(Amounts(rows), {i}) = Amounts(rows)[i]
  <2>1. Amounts(rows)[i] \in Int
    BY <1>2
  <2>2. QED
    BY <2>1, SumOne
<1>5. QED
  BY <1>2, <1>3, <1>4
-----------------------------------------------------------------------------
\* The tables after a row is added, and after one has changed.
LEMMA Added ==
  ASSUME NEW T, NEW rows \in Seq(T), NEW e \in T
  PROVE  /\ Append(rows, e) \in Seq(T) /\ Len(Append(rows, e)) = Len(rows) + 1
         /\ Len(rows) \in Nat /\ DOMAIN rows = 1 .. Len(rows)
         /\ DOMAIN Append(rows, e) = DOMAIN rows \cup {Len(rows) + 1}
         /\ Len(rows) + 1 \notin DOMAIN rows
         /\ \A i \in DOMAIN rows : Append(rows, e)[i] = rows[i]
         /\ Append(rows, e)[Len(rows) + 1] = e
<1>1. /\ Append(rows, e) \in Seq(T) /\ Len(Append(rows, e)) = Len(rows) + 1
      /\ \A i \in 1 .. Len(rows) : Append(rows, e)[i] = rows[i]
      /\ Append(rows, e)[Len(rows) + 1] = e
  BY AppendProperties
<1>2. Len(rows) \in Nat /\ DOMAIN rows = 1 .. Len(rows) /\ DOMAIN Append(rows, e) = 1 .. Len(rows) + 1
  BY <1>1, LenProperties
<1>3. QED
  BY <1>1, <1>2

\* One row of a table is replaced.
LEMMA Changed ==
  ASSUME NEW T, NEW rows \in Seq(T), NEW i \in DOMAIN rows, NEW e \in T
  PROVE  LET new == [rows EXCEPT ![i] = e]
         IN  /\ new \in Seq(T) /\ Len(new) = Len(rows) /\ DOMAIN new = DOMAIN rows
             /\ new[i] = e /\ \A j \in DOMAIN rows : j # i => new[j] = rows[j]
BY ExceptSeq, LenProperties

\* A document is entered.
LEMMA DocumentCreated ==
  ASSUME Books, NEW d \in Figures!Document, Figures!CreateDocument(d) PROVE Books'
<1> DEFINE e == [d EXCEPT !.status = "draft"]
           n == Len(documents) + 1
<1>1. /\ documents' = Append(documents, e) /\ payments' = payments
      /\ Len(documents') + Len(payments') <= MaxPapers
  BY DEF Figures!CreateDocument, Figures!Commit
<1>2. documents \in Seq(Figures!Document) /\ payments \in Seq(Figures!Payment)
  BY DEF Books, Papers
<1>3. e \in Figures!Document /\ e.status = "draft"
  BY DEF Figures!Document
<1> HIDE DEF e
<1>4. /\ documents' \in Seq(Figures!Document) /\ DOMAIN documents' = DOMAIN documents \cup {n}
      /\ n \notin DOMAIN documents /\ documents'[n] = e
      /\ \A i \in DOMAIN documents : documents'[i] = documents[i]
  BY <1>1, <1>2, <1>3, Added
<1>5. Papers'
  BY <1>1, <1>2, <1>4 DEF Papers
<1>6. Figures!Posted(documents') = Figures!Posted(documents)
  BY <1>3, <1>4 DEF Figures!Posted
<1>7. \A i \in Figures!Posted(payments) : Settles(i)'
  BY <1>1, <1>4, <1>6 DEF Books, Settles, Figures!Posted
<1>8. ASSUME NEW i \in DOMAIN documents'
      PROVE  Figures!Allocated(i, payments) <= documents'[i].amount
  <2>1. CASE i \in DOMAIN documents
    BY <2>1, <1>4 DEF Books
  <2>2. CASE i = n
    <3>1. For(n, payments) = {}
      <4>1. SUFFICES ASSUME NEW j \in For(n, payments) PROVE FALSE
        OBVIOUS
      <4>2. j \in Figures!Posted(payments) /\ payments[j].document = n
        BY <4>1 DEF For
      <4>3. n # NoDocument
        BY <1>2, Money, LenProperties
      <4>4. n \in Figures!Posted(documents)
        BY <4>2, <4>3 DEF Books, Settles
      <4>5. QED
        BY <4>4, <1>4 DEF Figures!Posted
    <3>2. Figures!Allocated(n, payments) = 0
      BY <3>1, <1>2, AllocatedType, SumEmpty
    <3>3. documents'[n].amount \in Nat
      BY <1>4, DocumentRows
    <3>4. QED
      BY <2>2, <3>2, <3>3
  <2>3. QED
    BY <2>1, <2>2, <1>4
<1>9. \A i \in DOMAIN documents' : Figures!Allocated(i, payments)' <= documents'[i].amount
  BY <1>1, <1>8 DEF Figures!Allocated, Figures!Total, Figures!Posted
<1>10. (Figures!Posted(payments))' = Figures!Posted(payments)
  BY <1>1 DEF Figures!Posted
<1>11. QED
  BY <1>5, <1>7, <1>9, <1>10 DEF Books

\* A document is posted, or cancelled, which nothing settles then.
LEMMA DocumentMarked ==
  ASSUME Books, NEW i \in DOMAIN documents, NEW status \in {"posted", "cancelled"},
         documents' = [documents EXCEPT ![i].status = status], payments' = payments,
         status = "cancelled" => Figures!Allocated(i, payments) = 0
  PROVE  Books'
<1> PICK e : e = [documents[i] EXCEPT !.status = status]
  OBVIOUS
<1>1. documents \in Seq(Figures!Document) /\ payments \in Seq(Figures!Payment)
  BY DEF Books, Papers
<1>2. documents[i] \in Figures!Document
  BY <1>1, DocumentRows
<1>3. /\ e \in Figures!Document /\ e.status = status /\ e.amount = documents[i].amount
      /\ e.type = documents[i].type
  BY <1>2 DEF Figures!Document
<1>4. documents' = [documents EXCEPT ![i] = e]
  OBVIOUS
<1>5. /\ documents' \in Seq(Figures!Document) /\ Len(documents') = Len(documents)
      /\ DOMAIN documents' = DOMAIN documents
      /\ documents'[i] = e /\ \A j \in DOMAIN documents : j # i => documents'[j] = documents[j]
  BY <1>1, <1>3, <1>4, Changed
<1>6. \A j \in DOMAIN documents : /\ documents'[j].amount = documents[j].amount
                                  /\ documents'[j].type = documents[j].type
  BY <1>3, <1>5
<1>7. Papers'
  BY <1>1, <1>5 DEF Books, Papers
<1>8. ASSUME NEW j \in Figures!Posted(payments) PROVE Settles(j)'
  <2>1. SUFFICES ASSUME payments[j].document # NoDocument
                 PROVE  /\ payments[j].document \in Figures!Posted(documents')
                        /\ documents'[payments[j].document].type = Figures!DocumentTypeOf(payments[j].type)
    BY DEF Settles, Figures!Posted
  <2>2. /\ payments[j].document \in Figures!Posted(documents)
        /\ documents[payments[j].document].type = Figures!DocumentTypeOf(payments[j].type)
    BY <2>1 DEF Books, Settles
  <2>3. CASE payments[j].document # i
    BY <2>2, <2>3, <1>5, <1>6 DEF Figures!Posted
  <2>4. CASE payments[j].document = i
    <3>1. j \in For(i, payments)
      BY <2>4 DEF For
    <3>2. status = "posted"
      BY <3>1, <1>1, NothingSettled
    <3>3. QED
      BY <2>2, <2>4, <3>2, <1>3, <1>5, <1>6 DEF Figures!Posted
  <2>5. QED
    BY <2>3, <2>4
<1>9. \A j \in DOMAIN documents : Figures!Allocated(j, payments) <= documents'[j].amount
  BY <1>6 DEF Books
<1>10. \A j \in DOMAIN documents' : Figures!Allocated(j, payments)' <= documents'[j].amount
  BY <1>5, <1>9 DEF Figures!Allocated, Figures!Total, Figures!Posted
<1>11. (Figures!Posted(payments))' = Figures!Posted(payments)
  BY DEF Figures!Posted
<1>12. QED
  BY <1>7, <1>8, <1>10, <1>11 DEF Books

\* A payment is cancelled.
LEMMA PaymentCancelled ==
  ASSUME Books, NEW i \in DOMAIN payments, Figures!CancelPayment(i) PROVE Books'
<1> DEFINE e == [payments[i] EXCEPT !.status = "cancelled"]
<1>1. documents \in Seq(Figures!Document) /\ payments \in Seq(Figures!Payment)
  BY DEF Books, Papers
<1>2. payments[i] \in Figures!Payment
  BY <1>1, PaymentRows
<1>3. e \in Figures!Payment /\ e.status = "cancelled"
  BY <1>2 DEF Figures!Payment
<1>4. payments' = [payments EXCEPT ![i] = e] /\ documents' = documents
  BY DEF Figures!CancelPayment
<1> HIDE DEF e
<1>5. /\ payments' \in Seq(Figures!Payment) /\ Len(payments') = Len(payments)
      /\ DOMAIN payments' = DOMAIN payments
      /\ payments'[i] = e /\ \A j \in DOMAIN payments : j # i => payments'[j] = payments[j]
  BY <1>1, <1>3, <1>4, Changed
<1>6. Papers'
  BY <1>1, <1>4, <1>5 DEF Books, Papers
<1>7. \A j \in Figures!Posted(payments') : j \in Figures!Posted(payments) /\ payments'[j] = payments[j]
  BY <1>3, <1>5 DEF Figures!Posted
<1>8. \A j \in Figures!Posted(payments') : Settles(j)'
  BY <1>4, <1>7 DEF Books, Settles, Figures!Posted
<1>9. ASSUME NEW d \in DOMAIN documents
      PROVE  Figures!Allocated(d, payments') <= documents[d].amount
  <2>1. For(d, payments') \subseteq For(d, payments)
    BY <1>7 DEF For
  <2>2. \A j \in For(d, payments') : payments'[j].amount = payments[j].amount
    BY <1>7 DEF For
  <2>3. Figures!Allocated(d, payments') <= Figures!Allocated(d, payments)
    BY <2>1, <2>2, <1>1, <1>5, SettledLess
  <2>4. /\ Figures!Allocated(d, payments) <= documents[d].amount /\ documents[d].amount \in Nat
        /\ Figures!Allocated(d, payments) \in Nat /\ Figures!Allocated(d, payments') \in Nat
    BY <1>1, <1>5, AllocatedType, DocumentRows DEF Books
  <2>5. QED
    BY <2>3, <2>4
<1>10. \A d \in DOMAIN documents' : Figures!Allocated(d, payments)' <= documents'[d].amount
  BY <1>4, <1>9 DEF Figures!Allocated, Figures!Total, Figures!Posted
<1>11. (Figures!Posted(payments))' = Figures!Posted(payments')
  BY DEF Figures!Posted
<1>12. QED
  BY <1>6, <1>8, <1>10, <1>11 DEF Books

\* A payment is posted, of a document or of none.
LEMMA PaymentPosted ==
  ASSUME Books, NEW p \in Figures!Payment, p.status = "posted", Figures!PostPayment(p) PROVE Books'
<1> DEFINE n == Len(payments) + 1
<1>1. /\ payments' = Append(payments, p) /\ documents' = documents
      /\ Len(documents') + Len(payments') <= MaxPapers
      /\ p.document # NoDocument =>
           /\ p.document \in Figures!Posted(documents)
           /\ documents[p.document].type = Figures!DocumentTypeOf(p.type)
           /\ p.amount <= Figures!Outstanding(p.document)
  BY DEF Figures!PostPayment, Figures!Commit
<1>2. documents \in Seq(Figures!Document) /\ payments \in Seq(Figures!Payment)
  BY DEF Books, Papers
<1>3. /\ payments' \in Seq(Figures!Payment) /\ DOMAIN payments' = DOMAIN payments \cup {n}
      /\ n \notin DOMAIN payments /\ payments'[n] = p
      /\ \A i \in DOMAIN payments : payments'[i] = payments[i]
  BY <1>1, <1>2, Added
<1>4. Papers'
  BY <1>1, <1>2, <1>3 DEF Papers
<1>5. Figures!Posted(payments') = Figures!Posted(payments) \cup {n}
  BY <1>3 DEF Figures!Posted
<1>6. \A i \in Figures!Posted(payments) : i \in DOMAIN payments
  BY DEF Figures!Posted
<1>7. \A i \in Figures!Posted(payments') : Settles(i)'
  BY <1>1, <1>3, <1>5, <1>6 DEF Books, Settles, Figures!Posted
<1>8. ASSUME NEW d \in DOMAIN documents
      PROVE  Figures!Allocated(d, payments') <= documents[d].amount
  <2>1. /\ Figures!Allocated(d, payments) <= documents[d].amount /\ documents[d].amount \in Nat
        /\ Figures!Allocated(d, payments) \in Nat /\ Figures!Allocated(d, payments') \in Nat
    BY <1>2, <1>3, AllocatedType, DocumentRows DEF Books
  <2>2. CASE p.document # d
    <3>1. For(d, payments') \subseteq For(d, payments)
      BY <2>2, <1>3, <1>5, <1>6 DEF For
    <3>2. \A j \in For(d, payments') : payments'[j].amount = payments[j].amount
      BY <3>1, <1>3, <1>6 DEF For
    <3>3. Figures!Allocated(d, payments') <= Figures!Allocated(d, payments)
      BY <3>1, <3>2, <1>2, <1>3, SettledLess
    <3>4. QED
      BY <2>1, <3>3
  <2>3. CASE p.document = d
    <3>1. For(d, payments') = For(d, payments) \cup {n} /\ n \notin For(d, payments)
      BY <2>3, <1>3, <1>5, <1>6 DEF For
    <3>2. /\ IsFiniteSet(For(d, payments'))
          /\ \A i \in For(d, payments') : Amounts(payments')[i] \in Int
          /\ Figures!Allocated(d, payments') = SumFunctionOnSet(Amounts(payments'), For(d, payments'))
      <4>1. \A x \in Nat \ {0} : x \in Int
        OBVIOUS
      <4>2. QED
        BY <4>1, <1>3, AllocatedType
    <3>3. For(d, payments') \ {n} = For(d, payments) /\ n \in For(d, payments')
      BY <3>1
    <3>4. SumFunctionOnSet(Amounts(payments'), For(d, payments'))
            = Amounts(payments')[n] + SumFunctionOnSet(Amounts(payments'), For(d, payments))
      <4>1. PICK f : f = Amounts(payments')
        OBVIOUS
      <4>2. PICK S : S = For(d, payments')
        OBVIOUS
      <4>3. SumFunctionOnSet(f, S) = f[n] + SumFunctionOnSet(f, S \ {n})
        BY <4>1, <4>2, <3>2, <3>3, SumRemove
      <4>4. QED
        BY <4>1, <4>2, <4>3, <3>3
    <3>5. SumFunctionOnSet(Amounts(payments'), For(d, payments)) = Figures!Allocated(d, payments)
      <4>1. /\ For(d, payments) \subseteq DOMAIN payments /\ IsFiniteSet(For(d, payments))
            /\ Figures!Allocated(d, payments) = SumFunctionOnSet(Amounts(payments), For(d, payments))
        BY <1>2, AllocatedType
      <4>2. \A i \in For(d, payments) : /\ Amounts(payments')[i] \in Int
                                        /\ Amounts(payments')[i] = Amounts(payments)[i]
        <5>1. ASSUME NEW i \in For(d, payments) PROVE Amounts(payments')[i] = Amounts(payments)[i]
          BY <4>1, <1>3 DEF Amounts
        <5>2. QED
          BY <5>1, <3>1, <3>2
      <4>3. PICK f : f = Amounts(payments')
        OBVIOUS
      <4>4. PICK g : g = Amounts(payments)
        OBVIOUS
      <4>5. SumFunctionOnSet(f, For(d, payments)) = SumFunctionOnSet(g, For(d, payments))
        BY <4>1, <4>2, <4>3, <4>4, SumSame
      <4>6. QED
        BY <4>1, <4>3, <4>4, <4>5
    <3>6. Amounts(payments')[n] = p.amount /\ p.amount \in Nat \ {0}
      BY <1>3, PaymentRows
    <3>7. p.amount <= Figures!Outstanding(d)
      <4>1. d # NoDocument
        BY <1>2, DocumentRows, Money
      <4>2. QED
        BY <4>1, <2>3, <1>1
    <3>8. p.amount <= documents[d].amount - Figures!Allocated(d, payments)
      BY <3>6, <3>7, <2>1 DEF Figures!Outstanding
    <3>9. Figures!Allocated(d, payments') = p.amount + Figures!Allocated(d, payments)
      BY <3>2, <3>4, <3>5, <3>6
    <3>10. QED
      <4>1. p.amount \in Nat
        BY <3>6
      <4>2. QED
        BY ONLY <2>1, <3>8, <3>9, <4>1
  <2>4. QED
    BY <2>2, <2>3
<1>9. \A d \in DOMAIN documents' : Figures!Allocated(d, payments)' <= documents'[d].amount
  BY <1>1, <1>8 DEF Figures!Allocated, Figures!Total, Figures!Posted
<1>10. (Figures!Posted(payments))' = Figures!Posted(payments')
  BY DEF Figures!Posted
<1>11. QED
  BY <1>4, <1>7, <1>9, <1>10 DEF Books
-----------------------------------------------------------------------------
\* What the two sums of the balance come to, and the rows of the register.
SumOfDocuments(D) == SumFunctionOnSet(DocumentEffects(D), DOMAIN D)
SumOfPayments(P) == SumFunctionOnSet(PaymentEffects(P), DOMAIN P)

\* What documents change of a debt.
LEMMA SumOfDocumentsIs ==
  ASSUME NEW D \in Seq(Figures!Document)
  PROVE  SumOfDocuments(D) \in Int /\ Figures!DocumentSum(D) = SumOfDocuments(D)
<1>1. PICK S : S = DOMAIN D
  OBVIOUS
<1>2. PICK f : f = Amounts(D)
  OBVIOUS
<1>3. PICK e : e = DocumentEffects(D)
  OBVIOUS
<1>4. PICK A : A = {i \in Figures!Posted(D) : D[i].type = "outgoing"}
  OBVIOUS
<1>5. PICK B : B = {i \in Figures!Posted(D) : D[i].type = "incoming"}
  OBVIOUS
<1>6. IsFiniteSet(S) /\ A \subseteq S /\ B \subseteq S /\ A \cap B = {}
  BY <1>1, <1>4, <1>5, DocumentRows DEF Figures!Posted
<1>7. /\ \A x \in S : f[x] \in Int /\ e[x] \in Int
      /\ \A x \in S : e[x] = (IF x \in A THEN f[x] ELSE IF x \in B THEN - f[x] ELSE 0)
  BY <1>1, <1>2, <1>3, <1>4, <1>5, DocumentRows DEF Figures!Posted
<1>8. SumFunctionOnSet(e, S) = SumFunctionOnSet(f, A) - SumFunctionOnSet(f, B)
  BY ONLY <1>6, <1>7, SumSigned
<1>9. SumFunctionOnSet(e, S) \in Int
  BY ONLY <1>6, <1>7, SumInt
<1>10. Figures!DocumentSum(D) = SumFunctionOnSet(f, A) - SumFunctionOnSet(f, B)
  BY <1>2, <1>4, <1>5, TotalIsSum DEF Figures!DocumentSum
<1>11. QED
  BY <1>1, <1>3, <1>8, <1>9, <1>10 DEF SumOfDocuments

\* What payments change of a debt.
LEMMA SumOfPaymentsIs ==
  ASSUME NEW P \in Seq(Figures!Payment)
  PROVE  SumOfPayments(P) \in Int /\ Figures!PaymentSum(P) = SumOfPayments(P)
<1>1. PICK S : S = DOMAIN P
  OBVIOUS
<1>2. PICK f : f = Amounts(P)
  OBVIOUS
<1>3. PICK e : e = PaymentEffects(P)
  OBVIOUS
<1>4. PICK A : A = {i \in Figures!Posted(P) : P[i].type \in {"supplier_payment", "refund"}}
  OBVIOUS
<1>5. PICK B : B = {i \in Figures!Posted(P) : P[i].type = "customer_payment"}
  OBVIOUS
<1>6. IsFiniteSet(S) /\ A \subseteq S /\ B \subseteq S /\ A \cap B = {}
  BY <1>1, <1>4, <1>5, PaymentRows DEF Figures!Posted
<1>7. /\ \A x \in S : f[x] \in Int /\ e[x] \in Int
      /\ \A x \in S : e[x] = (IF x \in A THEN f[x] ELSE IF x \in B THEN - f[x] ELSE 0)
  BY <1>1, <1>2, <1>3, <1>4, <1>5, PaymentRows DEF Figures!Posted
<1>8. SumFunctionOnSet(e, S) = SumFunctionOnSet(f, A) - SumFunctionOnSet(f, B)
  BY ONLY <1>6, <1>7, SumSigned
<1>9. SumFunctionOnSet(e, S) \in Int
  BY ONLY <1>6, <1>7, SumInt
<1>10. Figures!PaymentSum(P) = SumFunctionOnSet(f, A) - SumFunctionOnSet(f, B)
  BY <1>2, <1>4, <1>5, TotalIsSum DEF Figures!PaymentSum
<1>11. QED
  BY <1>1, <1>3, <1>8, <1>9, <1>10 DEF SumOfPayments

\* What is not posted counts for nothing.
LEMMA PostedOnly ==
  /\ \A D \in Seq(Figures!Document) :
       SumFunctionOnSet(DocumentEffects(D), Figures!Posted(D)) = SumOfDocuments(D)
  /\ \A P \in Seq(Figures!Payment) :
       SumFunctionOnSet(PaymentEffects(P), Figures!Posted(P)) = SumOfPayments(P)
<1>1. ASSUME NEW D \in Seq(Figures!Document)
      PROVE  SumFunctionOnSet(DocumentEffects(D), Figures!Posted(D)) = SumOfDocuments(D)
  <2>1. PICK e : e = DocumentEffects(D)
    OBVIOUS
  <2>2. /\ IsFiniteSet(DOMAIN D) /\ Figures!Posted(D) \subseteq DOMAIN D
        /\ \A x \in DOMAIN D : e[x] \in Int /\ (x \notin Figures!Posted(D) => e[x] = 0)
    BY <2>1, DocumentRows DEF Figures!Posted
  <2>3. QED
    BY <2>1, <2>2, SumSupport DEF SumOfDocuments
<1>2. ASSUME NEW P \in Seq(Figures!Payment)
      PROVE  SumFunctionOnSet(PaymentEffects(P), Figures!Posted(P)) = SumOfPayments(P)
  <2>1. PICK e : e = PaymentEffects(P)
    OBVIOUS
  <2>2. /\ IsFiniteSet(DOMAIN P) /\ Figures!Posted(P) \subseteq DOMAIN P
        /\ \A x \in DOMAIN P : e[x] \in Int /\ (x \notin Figures!Posted(P) => e[x] = 0)
    BY <2>1, PaymentRows DEF Figures!Posted
  <2>3. QED
    BY <2>1, <2>2, SumSupport DEF SumOfPayments
<1>3. QED
  BY <1>1, <1>2

\* The register adds up what the balance adds up.
LEMMA RegisterIs ==
  ASSUME NEW D \in Seq(Figures!Document)
  PROVE  Figures!SumFunctionOnSet([i \in DOMAIN D |-> Figures!Signed(D[i])], Figures!Posted(D))
           = SumOfDocuments(D)
<1>1. PICK e : e = DocumentEffects(D)
  OBVIOUS
<1>2. PICK f : f = [i \in DOMAIN D |-> Figures!Signed(D[i])]
  OBVIOUS
<1>3. IsFiniteSet(Figures!Posted(D)) /\ Figures!Posted(D) \subseteq DOMAIN D
  BY DocumentRows, FS_Subset DEF Figures!Posted
<1>4. \A i \in Figures!Posted(D) : e[i] \in Int /\ e[i] = f[i]
  <2>1. ASSUME NEW i \in Figures!Posted(D) PROVE e[i] \in Int /\ e[i] = f[i]
    <3>1. i \in DOMAIN D /\ D[i].status = "posted"
      BY DEF Figures!Posted
    <3>2. f[i] = Figures!Signed(D[i])
      BY <1>2, <3>1
    <3>3. QED
      BY <3>1, <3>2, <1>1, DocumentRows DEF Figures!Signed
  <2>2. QED
    BY <2>1
<1>5. SumFunctionOnSet(e, Figures!Posted(D)) = SumFunctionOnSet(f, Figures!Posted(D))
  BY ONLY <1>3, <1>4, SumSame
<1>6. QED
  BY <1>1, <1>2, <1>5, SameSum, PostedOnly
-----------------------------------------------------------------------------
\* The lines of a statement: documents (0) and payments (1).
Lines(D, P) == ({0} \X DOMAIN D) \cup ({1} \X DOMAIN P)
DayOf(D, P, e) == IF e[1] = 0 THEN D[e[2]].day ELSE P[e[2]].day
LineEffects(D, P) ==
  [e \in Lines(D, P) |-> IF e[1] = 0 THEN DocumentEffects(D)[e[2]] ELSE PaymentEffects(P)[e[2]]]

\* The lines of a statement, of documents (0) and of payments (1).
LEMMA LineIs ==
  ASSUME NEW D \in Seq(Figures!Document), NEW P \in Seq(Figures!Payment)
  PROVE  /\ \A e \in Lines(D, P) :
              /\ e = <<e[1], e[2]>> /\ e[1] \in Int /\ e[2] \in Int
              /\ (e[1] = 0 /\ e[2] \in DOMAIN D) \/ (e[1] = 1 /\ e[2] \in DOMAIN P)
              /\ DayOf(D, P, e) \in Int /\ LineEffects(D, P)[e] \in Int
         /\ \A i \in DOMAIN D : /\ <<0, i>> \in Lines(D, P) /\ <<0, i>>[1] = 0 /\ <<0, i>>[2] = i
                                /\ LineEffects(D, P)[<<0, i>>] = DocumentEffects(D)[i]
                                /\ DayOf(D, P, <<0, i>>) = D[i].day
         /\ \A i \in DOMAIN P : /\ <<1, i>> \in Lines(D, P) /\ <<1, i>>[1] = 1 /\ <<1, i>>[2] = i
                                /\ LineEffects(D, P)[<<1, i>>] = PaymentEffects(P)[i]
                                /\ DayOf(D, P, <<1, i>>) = P[i].day
<1>1. /\ \A i \in DOMAIN D : i \in Int /\ D[i].day \in Int /\ DocumentEffects(D)[i] \in Int
      /\ \A i \in DOMAIN P : i \in Int /\ P[i].day \in Int /\ PaymentEffects(P)[i] \in Int
  BY DocumentRows, PaymentRows
<1>2. \A e \in Lines(D, P) :
        /\ e = <<e[1], e[2]>>
        /\ (e[1] = 0 /\ e[2] \in DOMAIN D) \/ (e[1] = 1 /\ e[2] \in DOMAIN P)
  BY DEF Lines
<1>3. /\ \A i \in DOMAIN D : <<0, i>> \in Lines(D, P)
      /\ \A i \in DOMAIN P : <<1, i>> \in Lines(D, P)
  BY DEF Lines
<1>4. \A e \in Lines(D, P) : LineEffects(D, P)[e]
        = (IF e[1] = 0 THEN DocumentEffects(D)[e[2]] ELSE PaymentEffects(P)[e[2]])
  BY DEF LineEffects
<1>5. ASSUME NEW e \in Lines(D, P)
      PROVE  /\ e[1] \in Int /\ e[2] \in Int
             /\ DayOf(D, P, e) \in Int /\ LineEffects(D, P)[e] \in Int
  BY <1>1, <1>2, <1>4 DEF DayOf
<1>6. ASSUME NEW i \in DOMAIN D
      PROVE  /\ LineEffects(D, P)[<<0, i>>] = DocumentEffects(D)[i]
             /\ DayOf(D, P, <<0, i>>) = D[i].day
  BY <1>3, <1>4 DEF DayOf
<1>7. ASSUME NEW i \in DOMAIN P
      PROVE  /\ LineEffects(D, P)[<<1, i>>] = PaymentEffects(P)[i]
             /\ DayOf(D, P, <<1, i>>) = P[i].day
  BY <1>3, <1>4 DEF DayOf
<1>8. QED
  BY <1>2, <1>3, <1>5, <1>6, <1>7

\* Some documents and some payments, as lines of a statement.
LEMMA LinesSum ==
  ASSUME NEW D \in Seq(Figures!Document), NEW P \in Seq(Figures!Payment),
         NEW A, A \subseteq DOMAIN D, NEW B, B \subseteq DOMAIN P
  PROVE  SumFunctionOnSet(LineEffects(D, P), ({0} \X A) \cup ({1} \X B))
           = SumFunctionOnSet(DocumentEffects(D), A) + SumFunctionOnSet(PaymentEffects(P), B)
<1>1. PICK e : e = LineEffects(D, P)
  OBVIOUS
<1>2. PICK f : f = DocumentEffects(D)
  OBVIOUS
<1>3. PICK g : g = PaymentEffects(P)
  OBVIOUS
<1>4. PICK n : n = [i \in A |-> <<0, i>>]
  OBVIOUS
<1>5. PICK m : m = [i \in B |-> <<1, i>>]
  OBVIOUS
<1>6. IsFiniteSet(A) /\ IsFiniteSet(B)
  BY DocumentRows, PaymentRows, FS_Subset
<1>7. /\ \A i \in A : f[i] \in Int /\ e[<<0, i>>] = f[i]
      /\ \A i \in B : g[i] \in Int /\ e[<<1, i>>] = g[i]
  BY <1>1, <1>2, <1>3, LineIs, DocumentRows, PaymentRows
<1>8. {0} \X A = {n[i] : i \in A} /\ {1} \X B = {m[i] : i \in B}
  BY <1>4, <1>5
<1>9. SumFunctionOnSet(e, {n[i] : i \in A}) = SumFunctionOnSet(f, A)
  <2>1. \A i, j \in A : n[i] = n[j] => i = j
    BY <1>4
  <2>2. \A i \in A : f[i] \in Int /\ e[n[i]] = f[i]
    BY <1>4, <1>7
  <2>3. QED
    BY ONLY <1>6, <2>1, <2>2, SumRenamed
<1>10. SumFunctionOnSet(e, {m[i] : i \in B}) = SumFunctionOnSet(g, B)
  <2>1. \A i, j \in B : m[i] = m[j] => i = j
    BY <1>5
  <2>2. \A i \in B : g[i] \in Int /\ e[m[i]] = g[i]
    BY <1>5, <1>7
  <2>3. QED
    BY ONLY <1>6, <2>1, <2>2, SumRenamed
<1>11. PICK X : X = {0} \X A
  OBVIOUS
<1>12. PICK Y : Y = {1} \X B
  OBVIOUS
<1>13. IsFiniteSet(X) /\ IsFiniteSet(Y)
  BY <1>6, <1>11, <1>12, FS_Singleton, FS_Product
<1>14. X \cap Y = {}
  BY <1>11, <1>12
<1>15. \A x \in X \cup Y : e[x] \in Int
  <2>1. \A x \in X : \E i \in A : x = <<0, i>>
    BY <1>11
  <2>2. \A x \in Y : \E i \in B : x = <<1, i>>
    BY <1>12
  <2>3. QED
    BY <2>1, <2>2, <1>7
<1>16. SumFunctionOnSet(e, X \cup Y) = SumFunctionOnSet(e, X) + SumFunctionOnSet(e, Y)
  BY ONLY <1>13, <1>14, <1>15, SumUnion
<1>17. QED
  BY ONLY <1>1, <1>2, <1>3, <1>8, <1>9, <1>10, <1>11, <1>12, <1>16

\* A statement: a line for each, in the order of the days, the balance counted on.
Statement(D, P, rows) ==
  /\ DOMAIN rows = Lines(D, P)
  /\ \A e \in Lines(D, P) :
       /\ rows[e].day = DayOf(D, P, e)
       /\ rows[e].balance = SumFunctionOnSet(LineEffects(D, P), Figures!UpTo(rows, e))
FirstLines(D, rows) ==
  /\ DOMAIN rows = {0} \X DOMAIN D
  /\ \A i \in DOMAIN D : /\ rows[<<0, i>>].day = D[i].day
                         /\ rows[<<0, i>>].effect = DocumentEffects(D)[i]
Last(rows, e, S) == e \in S /\ \A f \in S : f \in Figures!UpTo(rows, e)
Until(rows, day) == {i \in DOMAIN rows : rows[i].day <= day}

\* The last line of a day has the balance of that day.
LEMMA DayBalance ==
  ASSUME NEW D \in Seq(Figures!Document), NEW P \in Seq(Figures!Payment), NEW rows,
         Statement(D, P, rows), NEW e \in Lines(D, P),
         \A f \in Lines(D, P) : rows[f].day = rows[e].day => f \in Figures!UpTo(rows, e)
  PROVE  rows[e].balance = SumFunctionOnSet(DocumentEffects(D), Until(D, rows[e].day))
                             + SumFunctionOnSet(PaymentEffects(P), Until(P, rows[e].day))
<1>1. \A f \in Lines(D, P) : rows[f].day = DayOf(D, P, f) /\ rows[f].day \in Int
  BY LineIs DEF Statement
<1>2. \A f \in Lines(D, P) : f \in Figures!UpTo(rows, e) <=> rows[f].day <= rows[e].day
  BY <1>1 DEF Statement, Figures!UpTo, Figures!Before
<1>3. Figures!UpTo(rows, e) = {f \in Lines(D, P) : DayOf(D, P, f) <= rows[e].day}
  BY <1>1, <1>2 DEF Statement, Figures!UpTo
<1>4. {f \in Lines(D, P) : DayOf(D, P, f) <= rows[e].day}
        = ({0} \X Until(D, rows[e].day)) \cup ({1} \X Until(P, rows[e].day))
  <2>1. \A f \in Lines(D, P) : DayOf(D, P, f) <= rows[e].day
          => f \in ({0} \X Until(D, rows[e].day)) \cup ({1} \X Until(P, rows[e].day))
    BY LineIs DEF Until, DayOf
  <2>2. \A f \in ({0} \X Until(D, rows[e].day)) \cup ({1} \X Until(P, rows[e].day)) :
          f \in Lines(D, P) /\ DayOf(D, P, f) <= rows[e].day
    <3>1. \A i \in Until(D, rows[e].day) : <<0, i>> \in Lines(D, P) /\ DayOf(D, P, <<0, i>>) <= rows[e].day
      BY LineIs DEF Until
    <3>2. \A i \in Until(P, rows[e].day) : <<1, i>> \in Lines(D, P) /\ DayOf(D, P, <<1, i>>) <= rows[e].day
      BY LineIs DEF Until
    <3>3. QED
      BY <3>1, <3>2
  <2>3. QED
    BY <2>1, <2>2
<1>5. Until(D, rows[e].day) \subseteq DOMAIN D /\ Until(P, rows[e].day) \subseteq DOMAIN P
  BY DEF Until
<1>6. rows[e].balance = SumFunctionOnSet(LineEffects(D, P), Figures!UpTo(rows, e))
  BY DEF Statement
<1>7. SumFunctionOnSet(LineEffects(D, P), ({0} \X Until(D, rows[e].day)) \cup ({1} \X Until(P, rows[e].day)))
        = SumFunctionOnSet(DocumentEffects(D), Until(D, rows[e].day))
            + SumFunctionOnSet(PaymentEffects(P), Until(P, rows[e].day))
  BY <1>5, LinesSum
<1>8. QED
  BY ONLY <1>3, <1>4, <1>6, <1>7

\* The last line of all has the balance.
LEMMA LastBalance ==
  ASSUME NEW D \in Seq(Figures!Document), NEW P \in Seq(Figures!Payment), NEW rows,
         Statement(D, P, rows), Lines(D, P) # {}
  PROVE  \E e \in Lines(D, P) : /\ Last(rows, e, Lines(D, P))
                                /\ rows[e].balance = SumOfDocuments(D) + SumOfPayments(P)
<1>1. PICK S : S = Lines(D, P)
  OBVIOUS
<1>2. PICK after : after = [e \in S |-> {f \in S : Figures!Before(rows, e, f)}]
  OBVIOUS
<1>3. \A e \in S : rows[e].day \in Int /\ e[1] \in Int /\ e[2] \in Int /\ e = <<e[1], e[2]>>
  BY <1>1, LineIs DEF Statement
<1>4. IsFiniteSet(S) /\ S # {}
  <2>1. IsFiniteSet(DOMAIN D) /\ IsFiniteSet(DOMAIN P) /\ IsFiniteSet({0}) /\ IsFiniteSet({1})
    BY DocumentRows, PaymentRows, FS_Singleton
  <2>2. IsFiniteSet({0} \X DOMAIN D) /\ IsFiniteSet({1} \X DOMAIN P)
    BY <2>1, FS_Product
  <2>3. QED
    BY <2>2, <1>1, FS_Union DEF Lines
<1>5. \A e \in S : e \notin after[e]
  BY <1>2, <1>3 DEF Figures!Before
<1>6. \A e, f \in S : f \in after[e] => after[f] \subseteq after[e]
  BY <1>2, <1>3 DEF Figures!Before
<1>7. PICK e \in S : \A f \in S : f \notin after[e]
  BY <1>4, <1>5, <1>6, Least
<1>8. \A f \in S : f \in Figures!UpTo(rows, e)
  <2>1. ASSUME NEW f \in S, f # e PROVE Figures!Before(rows, f, e)
    <3>1. ~ Figures!Before(rows, e, f)
      BY <1>2, <1>7
    <3>2. f[1] # e[1] \/ f[2] # e[2]
      BY <2>1, <1>3
    <3>3. QED
      BY <3>1, <3>2, <1>3 DEF Figures!Before
  <2>2. QED
    BY <2>1, <1>1 DEF Statement, Figures!UpTo
<1>9. Figures!UpTo(rows, e) = S
  BY <1>1, <1>8 DEF Statement, Figures!UpTo
<1>10. SumFunctionOnSet(LineEffects(D, P), S) = SumOfDocuments(D) + SumOfPayments(P)
  <2>1. S = ({0} \X DOMAIN D) \cup ({1} \X DOMAIN P)
    BY <1>1 DEF Lines
  <2>2. SumFunctionOnSet(LineEffects(D, P), ({0} \X DOMAIN D) \cup ({1} \X DOMAIN P))
          = SumFunctionOnSet(DocumentEffects(D), DOMAIN D) + SumFunctionOnSet(PaymentEffects(P), DOMAIN P)
    BY LinesSum
  <2>3. QED
    BY <2>1, <2>2 DEF SumOfDocuments, SumOfPayments
<1>11. rows[e].balance = SumOfDocuments(D) + SumOfPayments(P)
  BY <1>1, <1>9, <1>10 DEF Statement
<1>12. QED
  BY <1>1, <1>8, <1>11 DEF Last
-----------------------------------------------------------------------------
\* The open items: of the posted documents not yet looked at, nothing is known, and
\* of the others those that are not settled are listed.
Left(D, P, d) ==
  LET left == D[d].amount - Figures!Allocated(d, P) IN IF left > 0 THEN left ELSE 0
Opened(D, P, items, open) ==
  /\ items \subseteq Figures!Posted(D) /\ DOMAIN open \subseteq Figures!Posted(D) \ items
  /\ \A d \in DOMAIN open : open[d] = Left(D, P, d)
  /\ \A d \in Figures!Posted(D) \ items : d \notin DOMAIN open => Left(D, P, d) = 0
OpenAmounts(D, open) ==
  [d \in DOMAIN open |-> IF D[d].type = "outgoing" THEN open[d] ELSE - open[d]]

\* What the posted payments for a document change of what the partner owes.
LEMMA SettledEffect ==
  ASSUME Books, NEW d \in Figures!Posted(documents)
  PROVE  SumFunctionOnSet(PaymentEffects(payments), For(d, payments))
           = (IF documents[d].type = "outgoing" THEN - Figures!Allocated(d, payments)
              ELSE Figures!Allocated(d, payments))
<1>1. PICK f : f = Amounts(payments)
  OBVIOUS
<1>2. PICK e : e = PaymentEffects(payments)
  OBVIOUS
<1>3. PICK S : S = For(d, payments)
  OBVIOUS
<1>4. documents \in Seq(Figures!Document) /\ payments \in Seq(Figures!Payment)
  BY DEF Books, Papers
<1>5. /\ S \subseteq DOMAIN payments /\ IsFiniteSet(S)
      /\ Figures!Allocated(d, payments) = SumFunctionOnSet(f, S)
  BY <1>1, <1>3, <1>4, AllocatedType
<1>6. \A i \in S : /\ f[i] \in Int
                   /\ e[i] = (IF documents[d].type = "outgoing" THEN - f[i] ELSE f[i])
  <2>1. SUFFICES ASSUME NEW i \in S
                 PROVE  /\ f[i] \in Int
                        /\ e[i] = (IF documents[d].type = "outgoing" THEN - f[i] ELSE f[i])
    OBVIOUS
  <2>2. i \in Figures!Posted(payments) /\ payments[i].document = d /\ i \in DOMAIN payments
        /\ payments[i].status = "posted"
    BY <1>3 DEF For, Figures!Posted
  <2>3. d # NoDocument
    BY <1>4, DocumentRows, Money DEF Figures!Posted
  <2>4. documents[d].type = Figures!DocumentTypeOf(payments[i].type)
    BY <2>2, <2>3 DEF Books, Settles
  <2>5. QED
    BY <1>1, <1>2, <1>4, <2>2, <2>4, PaymentRows DEF Figures!DocumentTypeOf
<1>7. CASE documents[d].type = "outgoing"
  <2>1. \A i \in S : e[i] = (IF i \in {} THEN f[i] ELSE IF i \in S THEN - f[i] ELSE 0)
    BY <1>6, <1>7
  <2>2. PICK A : A = {}
    OBVIOUS
  <2>3. SumFunctionOnSet(e, S) = SumFunctionOnSet(f, A) - SumFunctionOnSet(f, S)
    <3>1. /\ A \subseteq S /\ S \subseteq S /\ A \cap S = {} /\ \A i \in S : f[i] \in Int
          /\ \A i \in S : e[i] = (IF i \in A THEN f[i] ELSE IF i \in S THEN - f[i] ELSE 0)
      BY <2>1, <2>2, <1>6
    <3>2. QED
      BY ONLY <3>1, <1>5, SumSigned
  <2>4. SumFunctionOnSet(f, A) = 0 /\ SumFunctionOnSet(f, S) \in Int
    BY <2>2, <1>5, <1>6, SumEmpty, SumInt
  <2>5. SumFunctionOnSet(e, S) = - SumFunctionOnSet(f, S)
    BY <2>3, <2>4
  <2>6. QED
    BY <2>5, <1>2, <1>3, <1>5, <1>7
<1>8. CASE documents[d].type # "outgoing"
  <2>1. \A i \in S : f[i] \in Int /\ f[i] = e[i]
    BY <1>6, <1>8
  <2>2. SumFunctionOnSet(f, S) = SumFunctionOnSet(e, S)
    BY ONLY <2>1, <1>5, SumSame
  <2>3. QED
    BY <2>2, <1>2, <1>3, <1>5, <1>8
<1>9. QED
  BY <1>7, <1>8

\* Every document's payments together are all payments, if none is without document.
LEMMA AllSettled ==
  ASSUME Books, \A i \in Figures!Posted(payments) : payments[i].document # NoDocument,
         NEW g, \A d \in Figures!Posted(documents) :
                  g[d] = SumFunctionOnSet(PaymentEffects(payments), For(d, payments))
  PROVE  SumFunctionOnSet(g, Figures!Posted(documents)) = SumOfPayments(payments)
<1>1. PICK S : S = Figures!Posted(documents)
  OBVIOUS
<1>2. PICK R : R = Figures!Posted(payments)
  OBVIOUS
<1>3. PICK f : f = PaymentEffects(payments)
  OBVIOUS
<1>4. PICK class : class = [i \in R |-> payments[i].document]
  OBVIOUS
<1>5. documents \in Seq(Figures!Document) /\ payments \in Seq(Figures!Payment)
  BY DEF Books, Papers
<1>6. IsFiniteSet(S) /\ IsFiniteSet(R) /\ S \subseteq DOMAIN documents /\ R \subseteq DOMAIN payments
  BY <1>1, <1>2, <1>5, DocumentRows, PaymentRows, FS_Subset DEF Figures!Posted
<1>7. \A i \in R : f[i] \in Int
  BY <1>3, <1>5, <1>6, PaymentRows
<1>8. ASSUME NEW d \in S PROVE g[d] = SumFunctionOnSet(f, OfClass(class, R, {d}))
  <2>1. For(d, payments) = OfClass(class, R, {d})
    BY <1>2, <1>4 DEF For, OfClass
  <2>2. QED
    BY <2>1, <1>1, <1>3
<1>9. SumFunctionOnSet(g, S) = SumFunctionOnSet(f, OfClass(class, R, S))
  <2>1. ByClass(g, f, class, R, S)
    BY <1>7, <1>8 DEF ByClass
  <2>2. QED
    BY ONLY <1>6, <2>1, SumOfClasses
<1>10. OfClass(class, R, S) = R
  <2>1. \A i \in R : class[i] \in S
    BY <1>1, <1>2, <1>4 DEF Books, Settles
  <2>2. QED
    BY <2>1 DEF OfClass
<1>11. SumFunctionOnSet(f, R) = SumOfPayments(payments)
  BY <1>2, <1>3, <1>5, PostedOnly
<1>12. QED
  BY <1>1, <1>9, <1>10, <1>11

\* Where every payment names a document, the open amounts add up to the debt.
LEMMA ItemsAgree ==
  ASSUME Books, \A i \in Figures!Posted(payments) : payments[i].document # NoDocument,
         NEW open, Opened(documents, payments, {}, open)
  PROVE  SumFunctionOnSet(OpenAmounts(documents, open), DOMAIN open)
           = SumOfDocuments(documents) + SumOfPayments(payments)
<1>1. PICK S : S = Figures!Posted(documents)
  OBVIOUS
<1>2. PICK e : e = DocumentEffects(documents)
  OBVIOUS
<1>3. PICK g : g = [d \in S |-> SumFunctionOnSet(PaymentEffects(payments), For(d, payments))]
  OBVIOUS
<1>4. PICK h : h = [d \in S |-> IF documents[d].type = "outgoing" THEN Left(documents, payments, d)
                                ELSE - Left(documents, payments, d)]
  OBVIOUS
<1>5. PICK k : k = OpenAmounts(documents, open)
  OBVIOUS
<1>6. PICK O : O = DOMAIN open
  OBVIOUS
<1>7. documents \in Seq(Figures!Document) /\ payments \in Seq(Figures!Payment)
  BY DEF Books, Papers
<1>8. IsFiniteSet(S) /\ S \subseteq DOMAIN documents /\ O \subseteq S
  BY <1>1, <1>6, <1>7, DocumentRows, FS_Subset DEF Figures!Posted, Opened
<1>9. ASSUME NEW d \in S
      PROVE  /\ Left(documents, payments, d) = documents[d].amount - Figures!Allocated(d, payments)
             /\ documents[d].amount \in Int /\ Figures!Allocated(d, payments) \in Int
             /\ documents[d].status = "posted"
  <2>1. /\ documents[d].amount \in Nat /\ Figures!Allocated(d, payments) \in Nat
        /\ Figures!Allocated(d, payments) <= documents[d].amount
    BY <1>7, <1>8, DocumentRows, AllocatedType DEF Books
  <2>2. QED
    BY <2>1, <1>1 DEF Left, Figures!Posted
<1>10. \A d \in S : /\ e[d] \in Int /\ g[d] \in Int /\ h[d] = e[d] + g[d]
                    /\ (Left(documents, payments, d) = 0 => h[d] = 0)
  <2>1. SUFFICES ASSUME NEW d \in S
                 PROVE  /\ e[d] \in Int /\ g[d] \in Int /\ h[d] = e[d] + g[d]
                        /\ Left(documents, payments, d) = 0 => h[d] = 0
    OBVIOUS
  <2>2. g[d] = (IF documents[d].type = "outgoing" THEN - Figures!Allocated(d, payments)
                ELSE Figures!Allocated(d, payments))
    BY <1>1, <1>3, SettledEffect
  <2>3. e[d] = (IF documents[d].type = "outgoing" THEN documents[d].amount ELSE - documents[d].amount)
    BY <1>2, <1>7, <1>8, <1>9, DocumentRows
  <2>4. h[d] = (IF documents[d].type = "outgoing"
                THEN documents[d].amount - Figures!Allocated(d, payments)
                ELSE - (documents[d].amount - Figures!Allocated(d, payments)))
    BY <1>4, <1>9
  <2>5. documents[d].amount \in Int /\ Figures!Allocated(d, payments) \in Int
    BY <1>9
  <2>6. e[d] \in Int /\ g[d] \in Int /\ h[d] = e[d] + g[d]
    BY ONLY <2>2, <2>3, <2>4, <2>5
  <2>7. documents[d].amount - Figures!Allocated(d, payments) = 0 => h[d] = 0
    BY ONLY <2>4, <2>5
  <2>8. QED
    BY <2>6, <2>7, <1>9
<1>11. SumFunctionOnSet(h, S) = SumFunctionOnSet(e, S) + SumFunctionOnSet(g, S)
  BY ONLY <1>8, <1>10, SumAdd
<1>12. SumFunctionOnSet(e, S) = SumOfDocuments(documents)
  BY <1>1, <1>2, <1>7, PostedOnly
<1>13. SumFunctionOnSet(g, S) = SumOfPayments(payments)
  BY <1>1, <1>3, AllSettled
<1>14. \A d \in S : h[d] \in Int /\ (d \notin O => h[d] = 0)
  <2>1. \A d \in S : h[d] \in Int
    BY <1>10
  <2>2. \A d \in S : d \notin O => Left(documents, payments, d) = 0
    BY <1>1, <1>6 DEF Opened
  <2>3. \A d \in S : Left(documents, payments, d) = 0 => h[d] = 0
    BY <1>10
  <2>4. QED
    BY <2>1, <2>2, <2>3
<1>15. SumFunctionOnSet(h, O) = SumFunctionOnSet(h, S)
  BY ONLY <1>8, <1>14, SumSupport
<1>16. \A d \in O : h[d] \in Int /\ h[d] = k[d]
  <2>1. SUFFICES ASSUME NEW d \in O PROVE h[d] = k[d]
    BY <1>8, <1>14
  <2>2. open[d] = Left(documents, payments, d)
    BY <1>6 DEF Opened
  <2>3. QED
    BY <2>2, <1>4, <1>5, <1>6, <1>8 DEF OpenAmounts
<1>17. IsFiniteSet(O)
  BY <1>8, FS_Subset
<1>18. SumFunctionOnSet(h, O) = SumFunctionOnSet(k, O)
  BY ONLY <1>16, <1>17, SumSame
<1>19. QED
  BY <1>5, <1>6, <1>11, <1>12, <1>13, <1>15, <1>18
-----------------------------------------------------------------------------
\* What a visitor has been told so far, if nothing was committed since.
VisitColumn == {"pc", "rows", "balance", "items", "open", "turnover", "cost"}
VisitPc == {"start", "statement payments", "balance documents", "balance payments", "options",
            "outstanding", "turnover", "register", "pricing", "done", "torn"}
Unopened == {"statement payments", "balance documents", "balance payments", "options"}
Settled == {"turnover", "register", "pricing", "done"}
Told == {"options", "outstanding"} \cup Settled
Shown == {"balance documents", "balance payments"} \cup Told

Priced(D, cost) ==
  LET purchases == {i \in Figures!Posted(D) : D[i].type = "incoming"}
  IN  purchases # {} =>
        \E i \in purchases : cost = D[i].amount /\ \A j \in purchases : D[j].day <= D[i].day

Visited(D, P, v) ==
  /\ DOMAIN v = VisitColumn /\ v.pc \in VisitPc /\ v.balance \in Int
  /\ v.pc = "statement payments" => FirstLines(D, v.rows)
  /\ v.pc \in Shown => Statement(D, P, v.rows)
  /\ v.pc = "balance payments" => v.balance = SumOfDocuments(D)
  /\ v.pc \in Told => v.balance = SumOfDocuments(D) + SumOfPayments(P)
  /\ v.pc \in Unopened => DOMAIN v.open = {}
  /\ v.pc = "outstanding" => Opened(D, P, v.items, v.open)
  /\ v.pc \in Settled => Opened(D, P, {}, v.open)
  /\ v.pc = "register" => v.turnover = SumOfDocuments(D)
  /\ v.pc \in {"pricing", "done"} => v.turnover = 0
  /\ v.pc = "done" => Priced(D, v.cost)

FiguresInv == Books /\ Visited(documents, payments, visit)

\* A visit that has not begun.
LEMMA NothingShown ==
  /\ DOMAIN Figures!NoVisit = VisitColumn /\ Figures!NoVisit.pc = "start"
  /\ Figures!NoVisit.balance \in Int /\ DOMAIN Figures!NoVisit.open = {}
BY DEF Figures!NoVisit, VisitColumn

\* It has been told nothing, nor has one that was torn.
LEMMA Unvisited ==
  ASSUME NEW D, NEW P
  PROVE  /\ Visited(D, P, Figures!NoVisit)
         /\ Visited(D, P, [Figures!NoVisit EXCEPT !.pc = "torn"])
<1>1. PICK n : n = Figures!NoVisit
  OBVIOUS
<1>2. DOMAIN n = VisitColumn /\ n.pc = "start" /\ n.balance \in Int
  BY <1>1, NothingShown
<1>3. Visited(D, P, n)
  BY ONLY <1>2 DEF Visited, VisitPc, Unopened, Settled, Told, Shown
<1>4. PICK m : m = [n EXCEPT !.pc = "torn"]
  OBVIOUS
<1>5. DOMAIN m = VisitColumn /\ m.pc = "torn" /\ m.balance \in Int
  BY <1>2, <1>4 DEF VisitColumn
<1>6. Visited(D, P, m)
  BY ONLY <1>5 DEF Visited, VisitPc, Unopened, Settled, Told, Shown
<1>7. QED
  BY <1>1, <1>3, <1>4, <1>6

\* get_partner_statement reads the documents.
LEMMA StatementBegins ==
  ASSUME NEW D \in Seq(Figures!Document), NEW P, NEW rows,
         rows = [e \in {0} \X DOMAIN D |->
                   [day |-> D[e[2]].day, effect |-> Figures!DocumentEffect(D[e[2]])]]
  PROVE  Visited(D, P, [Figures!NoVisit EXCEPT !.pc = "statement payments", !.rows = rows])
<1>1. PICK n : n = Figures!NoVisit
  OBVIOUS
<1>2. DOMAIN n = VisitColumn /\ n.balance \in Int /\ DOMAIN n.open = {}
  BY <1>1, NothingShown
<1>3. PICK m : m = [n EXCEPT !.pc = "statement payments", !.rows = rows]
  BY Zenon
<1>4. /\ DOMAIN m = VisitColumn /\ m.pc = "statement payments" /\ m.balance \in Int
      /\ DOMAIN m.open = {} /\ m.rows = rows
  BY <1>2, <1>3 DEF VisitColumn
<1>5. FirstLines(D, rows)
  <2>1. ASSUME NEW i \in DOMAIN D
        PROVE  rows[<<0, i>>].day = D[i].day /\ rows[<<0, i>>].effect = Figures!DocumentEffect(D[i])
    <3>1. <<0, i>> \in {0} \X DOMAIN D /\ <<0, i>>[2] = i
      OBVIOUS
    <3>2. QED
      BY <3>1
  <2>2. \A i \in DOMAIN D : DocumentEffects(D)[i] = Figures!DocumentEffect(D[i])
    BY DEF DocumentEffects
  <2>3. QED
    BY <2>1, <2>2 DEF FirstLines
<1>6. m.pc \in VisitPc /\ m.pc \notin Shown /\ m.pc \notin Told /\ m.pc \notin Settled
  BY ONLY <1>4 DEF VisitPc, Unopened, Settled, Told, Shown
<1>7. Visited(D, P, m)
  <2>1. m.pc = "statement payments" => FirstLines(D, m.rows)
    BY <1>4, <1>5
  <2>2. m.pc # "balance payments" /\ m.pc # "outstanding" /\ m.pc # "register" /\ m.pc # "done"
    BY <1>4
  <2>3. m.pc \notin {"pricing", "done"}
    BY <1>4
  <2>4. QED
    BY ONLY <1>4, <1>6, <2>1, <2>2, <2>3 DEF Visited
<1>8. QED
  BY <1>1, <1>3, <1>7

AllLines(P, first) ==
  [e \in DOMAIN first \cup ({1} \X DOMAIN P) |->
     IF e \in DOMAIN first THEN first[e]
     ELSE [day |-> P[e[2]].day, effect |-> Figures!PaymentEffect(P[e[2]])]]
LinesCounted(all) ==
  [e \in DOMAIN all |->
     [day |-> all[e].day,
      balance |-> Figures!SumFunctionOnSet([f \in DOMAIN all |-> all[f].effect],
                                           Figures!UpTo(all, e))]]

\* get_partner_statement reads the payments and counts the balance line by line.
LEMMA StatementEnds ==
  ASSUME NEW D \in Seq(Figures!Document), NEW P \in Seq(Figures!Payment), NEW v,
         Visited(D, P, v), v.pc = "statement payments"
  PROVE  Visited(D, P, [v EXCEPT !.pc = "balance documents",
                                 !.rows = LinesCounted(AllLines(P, v.rows))])
<1> PICK first : first = v.rows
  OBVIOUS
<1> PICK all : all = AllLines(P, first)
  OBVIOUS
<1> PICK effect : effect = [e \in DOMAIN all |-> all[e].effect]
  OBVIOUS
<1> PICK rows : rows = LinesCounted(all)
  OBVIOUS
<1>a. all = [e \in DOMAIN v.rows \cup ({1} \X DOMAIN P) |->
               IF e \in DOMAIN v.rows THEN v.rows[e]
               ELSE [day |-> P[e[2]].day, effect |-> Figures!PaymentEffect(P[e[2]])]]
  BY DEF AllLines
<1>b. rows = [e \in DOMAIN all |->
                [day |-> all[e].day,
                 balance |-> Figures!SumFunctionOnSet(effect, Figures!UpTo(all, e))]]
  BY DEF LinesCounted
<1>c. /\ DOMAIN rows = DOMAIN all
      /\ \A e \in DOMAIN all :
           /\ rows[e].day = all[e].day
           /\ rows[e].balance = Figures!SumFunctionOnSet(effect, Figures!UpTo(all, e))
  BY ONLY <1>b
<1>1. FirstLines(D, v.rows) /\ DOMAIN v = VisitColumn /\ v.balance \in Int /\ DOMAIN v.open = {}
  BY DEF Visited, Unopened
<1>2. DOMAIN all = Lines(D, P)
  BY <1>a, <1>b, <1>1, Zenon DEF FirstLines, Lines
<1>3. ASSUME NEW e \in Lines(D, P)
      PROVE  all[e].day = DayOf(D, P, e) /\ all[e].effect = LineEffects(D, P)[e]
  <2>1. CASE e[1] = 0 /\ e[2] \in DOMAIN D
    <3>1. e = <<0, e[2]>>
      BY <2>1, LineIs
    <3>2. e \in DOMAIN v.rows
      BY <2>1, <3>1, <1>1 DEF FirstLines
    <3>3. all[e] = v.rows[e]
      BY <1>a, <1>b, <1>2, <3>2, Zenon
    <3>4. v.rows[e].day = D[e[2]].day /\ v.rows[e].effect = DocumentEffects(D)[e[2]]
      BY <2>1, <3>1, <1>1 DEF FirstLines
    <3>5. QED
      BY <2>1, <3>3, <3>4 DEF DayOf, LineEffects
  <2>2. CASE e[1] = 1 /\ e[2] \in DOMAIN P
    <3>1. e \notin {0} \X DOMAIN D
      BY ONLY <2>2
    <3>2. e \notin DOMAIN v.rows
      BY <1>1, <3>1 DEF FirstLines
    <3>3. all[e] = [day |-> P[e[2]].day, effect |-> Figures!PaymentEffect(P[e[2]])]
      BY <1>a, <1>b, <1>2, <3>2, Zenon
    <3>4. all[e].day = P[e[2]].day /\ all[e].effect = Figures!PaymentEffect(P[e[2]])
      BY ONLY <3>3
    <3>5. PaymentEffects(P)[e[2]] = Figures!PaymentEffect(P[e[2]])
      BY <2>2 DEF PaymentEffects
    <3>6. e[1] # 0
      BY ONLY <2>2
    <3>7. DayOf(D, P, e) = P[e[2]].day
      BY ONLY <3>6 DEF DayOf
    <3>8. LineEffects(D, P)[e] = PaymentEffects(P)[e[2]]
      BY <3>6 DEF LineEffects
    <3>9. QED
      BY ONLY <3>4, <3>5, <3>7, <3>8
  <2>3. (e[1] = 0 /\ e[2] \in DOMAIN D) \/ (e[1] = 1 /\ e[2] \in DOMAIN P)
    BY LineIs
  <2>4. QED
    BY ONLY <2>1, <2>2, <2>3
<1>4. effect = LineEffects(D, P)
  <2>1. DOMAIN LineEffects(D, P) = Lines(D, P)
    BY DEF LineEffects
  <2>2. LineEffects(D, P) = [e \in Lines(D, P) |-> LineEffects(D, P)[e]]
    BY DEF LineEffects
  <2>3. QED
    BY <1>a, <1>b, <1>2, <1>3, <2>2, Zenon
<1>5. DOMAIN rows = Lines(D, P) /\ \A e \in Lines(D, P) : rows[e].day = DayOf(D, P, e)
  BY <1>c, <1>2, <1>3
<1>6. ASSUME NEW e \in Lines(D, P) PROVE Figures!UpTo(all, e) = Figures!UpTo(rows, e)
  <2>1. \A f \in Lines(D, P) : Figures!Before(all, f, e) <=> Figures!Before(rows, f, e)
    BY <1>3, <1>5 DEF Figures!Before
  <2>2. QED
    BY <2>1, <1>2, <1>5 DEF Figures!UpTo
<1>7. Statement(D, P, rows)
  <2>1. ASSUME NEW e \in Lines(D, P)
        PROVE  rows[e].balance = SumFunctionOnSet(LineEffects(D, P), Figures!UpTo(rows, e))
    <3>1. rows[e].balance = Figures!SumFunctionOnSet(effect, Figures!UpTo(all, e))
      BY <1>c, <1>2
    <3>2. QED
      BY <3>1, <1>4, <1>6, SameSum
  <2>2. QED
    BY <1>5, <2>1 DEF Statement
<1>8. PICK m : m = [v EXCEPT !.pc = "balance documents", !.rows = rows]
  OBVIOUS
<1>9. /\ DOMAIN m = VisitColumn /\ m.pc = "balance documents" /\ m.balance \in Int
      /\ DOMAIN m.open = {} /\ m.rows = rows
  BY <1>1, <1>8 DEF VisitColumn
<1>10. Visited(D, P, m)
  BY ONLY <1>7, <1>9 DEF Visited, VisitPc, Unopened, Settled, Told, Shown
<1>11. QED
  BY <1>8, <1>10

\* The balance of the partner: the documents.
LEMMA BalanceBegins ==
  ASSUME NEW D \in Seq(Figures!Document), NEW P, NEW v,
         Visited(D, P, v), v.pc = "balance documents"
  PROVE  Visited(D, P, [v EXCEPT !.pc = "balance payments", !.balance = Figures!DocumentSum(D)])
<1>1. DOMAIN v = VisitColumn /\ DOMAIN v.open = {} /\ Statement(D, P, v.rows)
  BY DEF Visited, Unopened, Shown
<1>2. PICK b : b = Figures!DocumentSum(D)
  OBVIOUS
<1>3. b = SumOfDocuments(D) /\ b \in Int
  BY <1>2, SumOfDocumentsIs
<1>4. PICK m : m = [v EXCEPT !.pc = "balance payments", !.balance = b]
  OBVIOUS
<1>5. /\ DOMAIN m = VisitColumn /\ m.pc = "balance payments" /\ m.balance = b
      /\ DOMAIN m.open = {} /\ m.rows = v.rows
  BY <1>1, <1>4 DEF VisitColumn
<1>6. m.pc \in VisitPc /\ m.pc \notin Told /\ m.pc \notin Settled
  BY ONLY <1>5 DEF VisitPc, Settled, Told
<1>7. Visited(D, P, m)
  BY ONLY <1>1, <1>3, <1>5, <1>6 DEF Visited
<1>8. QED
  BY <1>2, <1>4, <1>7

\* The balance of the partner: the payments.
LEMMA BalanceEnds ==
  ASSUME NEW D \in Seq(Figures!Document), NEW P \in Seq(Figures!Payment), NEW v,
         Visited(D, P, v), v.pc = "balance payments"
  PROVE  Visited(D, P, [v EXCEPT !.pc = "options", !.balance = v.balance + Figures!PaymentSum(P)])
<1>1. /\ DOMAIN v = VisitColumn /\ DOMAIN v.open = {} /\ Statement(D, P, v.rows)
      /\ v.balance = SumOfDocuments(D)
  BY DEF Visited, Unopened, Shown
<1>2. PICK b : b = v.balance + Figures!PaymentSum(P)
  OBVIOUS
<1>3. b = SumOfDocuments(D) + SumOfPayments(P) /\ b \in Int
  <2>1. /\ Figures!PaymentSum(P) = SumOfPayments(P)
        /\ SumOfDocuments(D) \in Int /\ SumOfPayments(P) \in Int
    BY SumOfDocumentsIs, SumOfPaymentsIs
  <2>2. QED
    BY ONLY <1>1, <1>2, <2>1
<1>4. PICK m : m = [v EXCEPT !.pc = "options", !.balance = b]
  OBVIOUS
<1>5. /\ DOMAIN m = VisitColumn /\ m.pc = "options" /\ m.balance = b
      /\ DOMAIN m.open = {} /\ m.rows = v.rows
  BY <1>1, <1>4 DEF VisitColumn
<1>6. m.pc \in VisitPc /\ m.pc \notin Settled
  BY ONLY <1>5 DEF VisitPc, Settled
<1>7. Visited(D, P, m)
  BY ONLY <1>1, <1>3, <1>5, <1>6 DEF Visited
<1>8. QED
  BY <1>2, <1>4, <1>7

\* get_payment_allocation_options reads the posted documents.
LEMMA OptionsBegin ==
  ASSUME NEW D, NEW P, NEW v, Visited(D, P, v), v.pc = "options"
  PROVE  Visited(D, P, [v EXCEPT !.pc = "outstanding", !.items = Figures!Posted(D)])
<1>1. /\ DOMAIN v = VisitColumn /\ DOMAIN v.open = {} /\ Statement(D, P, v.rows)
      /\ v.balance = SumOfDocuments(D) + SumOfPayments(P) /\ v.balance \in Int
  BY DEF Visited, Unopened, Shown, Told
<1>2. PICK m : m = [v EXCEPT !.pc = "outstanding", !.items = Figures!Posted(D)]
  OBVIOUS
<1>3. /\ DOMAIN m = VisitColumn /\ m.pc = "outstanding" /\ m.balance = v.balance
      /\ m.items = Figures!Posted(D) /\ m.open = v.open /\ m.rows = v.rows
  BY <1>1, <1>2 DEF VisitColumn
<1>4. Opened(D, P, m.items, m.open)
  BY ONLY <1>1, <1>3 DEF Opened
<1>5. m.pc \in VisitPc /\ m.pc \notin Settled /\ m.pc \notin Unopened
  BY ONLY <1>3 DEF VisitPc, Settled, Unopened
<1>6. Visited(D, P, m)
  BY ONLY <1>1, <1>3, <1>4, <1>5 DEF Visited
<1>7. QED
  BY <1>2, <1>6

ItemShown(D, P, rest, d) ==
  IF Left(D, P, d) = 0 THEN rest
  ELSE [rest EXCEPT !.open = [e \in DOMAIN rest.open \cup {d} |->
                                IF e = d THEN Left(D, P, d) ELSE rest.open[e]]]

\* get_payment_allocation_options works out what is open of one of them.
LEMMA OptionsContinue ==
  ASSUME NEW D, NEW P, NEW v, Visited(D, P, v), v.pc = "outstanding", NEW d \in v.items
  PROVE  Visited(D, P, ItemShown(D, P, [v EXCEPT !.items = v.items \ {d}], d))
<1> PICK rest : rest = [v EXCEPT !.items = v.items \ {d}]
  OBVIOUS
<1> PICK new : new = ItemShown(D, P, rest, d)
  OBVIOUS
<1>a. new = (IF Left(D, P, d) = 0 THEN rest
             ELSE [rest EXCEPT !.open = [e \in DOMAIN rest.open \cup {d} |->
                                           IF e = d THEN Left(D, P, d) ELSE rest.open[e]]])
  BY DEF ItemShown
<1>1. /\ DOMAIN v = VisitColumn /\ Statement(D, P, v.rows) /\ Opened(D, P, v.items, v.open)
      /\ v.balance = SumOfDocuments(D) + SumOfPayments(P) /\ v.balance \in Int
  BY DEF Visited, Shown, Told
<1>2. /\ DOMAIN rest = VisitColumn /\ rest.pc = "outstanding" /\ rest.balance = v.balance
      /\ rest.items = v.items \ {d} /\ rest.open = v.open /\ rest.rows = v.rows
  BY <1>1 DEF VisitColumn
<1>3. PICK open : open = [e \in DOMAIN v.open \cup {d} |->
                            IF e = d THEN Left(D, P, d) ELSE v.open[e]]
  OBVIOUS
<1>4. /\ v.items \subseteq Figures!Posted(D) /\ DOMAIN v.open \subseteq Figures!Posted(D) \ v.items
      /\ \A e \in DOMAIN v.open : v.open[e] = Left(D, P, e)
      /\ \A e \in Figures!Posted(D) \ v.items : e \notin DOMAIN v.open => Left(D, P, e) = 0
  BY <1>1 DEF Opened
<1>5. Left(D, P, d) = 0 => Opened(D, P, v.items \ {d}, v.open)
  BY <1>4 DEF Opened
<1>6. Opened(D, P, v.items \ {d}, open)
  <2>1. DOMAIN open = DOMAIN v.open \cup {d} /\ d \notin DOMAIN v.open
    BY <1>3, <1>4
  <2>2. \A e \in DOMAIN open : open[e] = Left(D, P, e)
    BY <1>3, <1>4, <2>1
  <2>3. QED
    BY <1>4, <2>1, <2>2 DEF Opened
<1>7. /\ DOMAIN new = VisitColumn /\ new.pc = "outstanding" /\ new.balance = v.balance
      /\ new.items = v.items \ {d} /\ new.rows = v.rows
      /\ new.open = IF Left(D, P, d) = 0 THEN v.open ELSE open
  <2>1. CASE Left(D, P, d) = 0
    BY <2>1, <1>2, <1>a
  <2>2. CASE Left(D, P, d) # 0
    <3>1. new = [rest EXCEPT !.open = open]
      BY <2>2, <1>2, <1>3, <1>a
    <3>2. QED
      BY <2>2, <3>1, <1>2 DEF VisitColumn
  <2>3. QED
    BY <2>1, <2>2
<1>8. Opened(D, P, new.items, new.open)
  BY <1>5, <1>6, <1>7
<1>9. new.pc \in VisitPc /\ new.pc \notin Settled /\ new.pc \notin Unopened
  BY ONLY <1>7 DEF VisitPc, Settled, Unopened
<1>10. Visited(D, P, new)
  BY ONLY <1>1, <1>7, <1>8, <1>9 DEF Visited
<1>11. QED
  BY <1>10

\* get_payment_allocation_options has been through all of them.
LEMMA OptionsDone ==
  ASSUME NEW D, NEW P, NEW v, Visited(D, P, v), v.pc = "outstanding", v.items = {}
  PROVE  Visited(D, P, [v EXCEPT !.pc = "turnover"])
<1>1. /\ DOMAIN v = VisitColumn /\ Statement(D, P, v.rows) /\ Opened(D, P, {}, v.open)
      /\ v.balance = SumOfDocuments(D) + SumOfPayments(P) /\ v.balance \in Int
  BY DEF Visited, Shown, Told
<1>2. PICK m : m = [v EXCEPT !.pc = "turnover"]
  OBVIOUS
<1>3. /\ DOMAIN m = VisitColumn /\ m.pc = "turnover" /\ m.balance = v.balance
      /\ m.open = v.open /\ m.rows = v.rows
  BY <1>1, <1>2 DEF VisitColumn
<1>4. m.pc \in VisitPc /\ m.pc \notin Unopened
  BY ONLY <1>3 DEF VisitPc, Unopened
<1>5. Visited(D, P, m)
  BY ONLY <1>1, <1>3, <1>4 DEF Visited
<1>6. QED
  BY <1>2, <1>5

\* The dashboard.
LEMMA TurnoverKnown ==
  ASSUME NEW D \in Seq(Figures!Document), NEW P, NEW v, Visited(D, P, v), v.pc = "turnover"
  PROVE  Visited(D, P, [v EXCEPT !.pc = "register", !.turnover = Figures!DocumentSum(D)])
<1>1. /\ DOMAIN v = VisitColumn /\ Statement(D, P, v.rows) /\ Opened(D, P, {}, v.open)
      /\ v.balance = SumOfDocuments(D) + SumOfPayments(P) /\ v.balance \in Int
  BY DEF Visited, Shown, Told, Settled
<1>2. PICK b : b = Figures!DocumentSum(D)
  OBVIOUS
<1>3. b = SumOfDocuments(D)
  BY <1>2, SumOfDocumentsIs
<1>4. PICK m : m = [v EXCEPT !.pc = "register", !.turnover = b]
  OBVIOUS
<1>5. /\ DOMAIN m = VisitColumn /\ m.pc = "register" /\ m.balance = v.balance
      /\ m.open = v.open /\ m.rows = v.rows /\ m.turnover = b
  BY <1>1, <1>4 DEF VisitColumn
<1>6. m.pc \in VisitPc /\ m.pc \notin Unopened
  BY ONLY <1>5 DEF VisitPc, Unopened
<1>7. Visited(D, P, m)
  BY ONLY <1>1, <1>3, <1>5, <1>6 DEF Visited
<1>8. QED
  BY <1>2, <1>4, <1>7

\* The total of the register is taken from the turnover of the dashboard.
LEMMA RegisterAdded ==
  ASSUME NEW D \in Seq(Figures!Document), NEW P, NEW v, Visited(D, P, v), v.pc = "register",
         NEW total, total = SumOfDocuments(D)
  PROVE  Visited(D, P, [v EXCEPT !.pc = "pricing", !.turnover = v.turnover - total])
<1>1. /\ DOMAIN v = VisitColumn /\ Statement(D, P, v.rows) /\ Opened(D, P, {}, v.open)
      /\ v.balance = SumOfDocuments(D) + SumOfPayments(P) /\ v.balance \in Int
      /\ v.turnover = SumOfDocuments(D)
  BY DEF Visited, Shown, Told, Settled
<1>2. PICK b : b = v.turnover - total
  OBVIOUS
<1>3. b = 0
  BY <1>1, <1>2, SumOfDocumentsIs
<1>4. PICK m : m = [v EXCEPT !.pc = "pricing", !.turnover = b]
  OBVIOUS
<1>5. /\ DOMAIN m = VisitColumn /\ m.pc = "pricing" /\ m.balance = v.balance
      /\ m.open = v.open /\ m.rows = v.rows /\ m.turnover = 0
  BY <1>1, <1>3, <1>4 DEF VisitColumn
<1>6. m.pc \in VisitPc /\ m.pc \notin Unopened
  BY ONLY <1>5 DEF VisitPc, Unopened
<1>7. Visited(D, P, m)
  BY ONLY <1>1, <1>5, <1>6 DEF Visited
<1>8. QED
  BY <1>2, <1>4, <1>7

\* Among the purchases there is a last one: its date is the latest.
LEMMA LastPurchase ==
  ASSUME NEW D \in Seq(Figures!Document), NEW S, S \subseteq DOMAIN D, S # {}
  PROVE  \E i \in S : \A j \in S : \/ D[j].day < D[i].day
                                   \/ D[j].day = D[i].day /\ j <= i
<1>1. PICK later : later = [i \in S |-> {j \in S : \/ D[i].day < D[j].day
                                                   \/ D[i].day = D[j].day /\ i < j}]
  OBVIOUS
<1>2. \A i \in S : D[i].day \in Int /\ i \in Int
  BY DocumentRows
<1>3. IsFiniteSet(S) /\ S # {}
  BY DocumentRows, FS_Subset
<1>4. \A i \in S : i \notin later[i]
  BY <1>1, <1>2
<1>5. \A i, j \in S : j \in later[i] => later[j] \subseteq later[i]
  BY <1>1, <1>2
<1>6. PICK i \in S : \A j \in S : j \notin later[i]
  BY <1>3, <1>4, <1>5, Least
<1>7. \A j \in S : D[j].day < D[i].day \/ (D[j].day = D[i].day /\ j <= i)
  BY <1>1, <1>2, <1>6
<1>8. QED
  BY <1>7

\* The price of the last purchase.
LEMMA PriceFound ==
  ASSUME NEW D \in Seq(Figures!Document), NEW P, NEW v, Visited(D, P, v), v.pc = "pricing",
         NEW cost, Priced(D, cost)
  PROVE  Visited(D, P, [v EXCEPT !.pc = "done", !.cost = cost])
<1>1. /\ DOMAIN v = VisitColumn /\ Statement(D, P, v.rows) /\ Opened(D, P, {}, v.open)
      /\ v.balance = SumOfDocuments(D) + SumOfPayments(P) /\ v.balance \in Int
      /\ v.turnover = 0
  BY DEF Visited, Shown, Told, Settled
<1>2. PICK m : m = [v EXCEPT !.pc = "done", !.cost = cost]
  OBVIOUS
<1>3. /\ DOMAIN m = VisitColumn /\ m.pc = "done" /\ m.balance = v.balance
      /\ m.open = v.open /\ m.rows = v.rows /\ m.turnover = 0 /\ m.cost = cost
  BY <1>1, <1>2 DEF VisitColumn
<1>4. m.pc \in VisitPc /\ m.pc \notin Unopened
  BY ONLY <1>3 DEF VisitPc, Unopened
<1>5. Visited(D, P, m)
  BY ONLY <1>1, <1>3, <1>4, Priced(D, cost) DEF Visited
<1>6. QED
  BY <1>2, <1>5
-----------------------------------------------------------------------------
\* A commit of another request forgets what a visit has shown.
LEMMA Forgotten ==
  ASSUME Visited(documents, payments, visit), Figures!Commit
  PROVE  Visited(documents', payments', visit')
<1>1. CASE visit.pc = "start"
  <2>1. visit' = visit
    BY <1>1 DEF Figures!Commit
  <2>2. DOMAIN visit = VisitColumn /\ visit.balance \in Int
    BY DEF Visited
  <2>3. Visited(documents', payments', visit)
    BY ONLY <1>1, <2>2 DEF Visited, VisitPc, Unopened, Settled, Told, Shown
  <2>4. QED
    BY <2>1, <2>3
<1>2. CASE visit.pc # "start"
  BY <1>2, Unvisited DEF Figures!Commit
<1>3. QED
  BY <1>1, <1>2

\* What others commit between two visits keeps the books in order.
LEMMA BooksCommit ==
  ASSUME Books,
         \/ \E d \in Figures!Document : Figures!CreateDocument(d)
         \/ \E i \in DOMAIN documents : Figures!PostDocument(i) \/ Figures!CancelDocument(i)
         \/ \E type \in {"customer_payment", "supplier_payment", "refund"}, day \in Day, a \in Amount,
               d \in DOMAIN documents \cup {NoDocument} :
              Figures!PostPayment([type |-> type, status |-> "posted", day |-> day, amount |-> a,
                                   document |-> d])
         \/ \E i \in DOMAIN payments : Figures!CancelPayment(i)
  PROVE  Books' /\ Figures!Commit
<1>1. ASSUME NEW d \in Figures!Document, Figures!CreateDocument(d) PROVE Books' /\ Figures!Commit
  BY <1>1, DocumentCreated DEF Figures!CreateDocument
<1>2. ASSUME NEW i \in DOMAIN documents, Figures!PostDocument(i) PROVE Books' /\ Figures!Commit
  BY <1>2, DocumentMarked DEF Figures!PostDocument
<1>3. ASSUME NEW i \in DOMAIN documents, Figures!CancelDocument(i) PROVE Books' /\ Figures!Commit
  BY <1>3, DocumentMarked DEF Figures!CancelDocument
<1>4. ASSUME NEW type \in {"customer_payment", "supplier_payment", "refund"}, NEW day \in Day,
             NEW a \in Amount, NEW d \in DOMAIN documents \cup {NoDocument},
             Figures!PostPayment([type |-> type, status |-> "posted", day |-> day, amount |-> a,
                                  document |-> d])
      PROVE  Books' /\ Figures!Commit
  <2>1. PICK p : p = [type |-> type, status |-> "posted", day |-> day, amount |-> a, document |-> d]
    OBVIOUS
  <2>2. documents \in Seq(Figures!Document)
    BY DEF Books, Papers
  <2>3. d \in Nat \cup {NoDocument}
    BY <2>2, DocumentRows
  <2>4. p \in Figures!Payment /\ p.status = "posted"
    BY <2>1, <2>3 DEF Figures!Payment
  <2>5. Figures!PostPayment(p)
    BY <2>1, <1>4
  <2>6. Figures!Commit
    BY <2>5 DEF Figures!PostPayment
  <2>7. QED
    BY <2>4, <2>5, <2>6, PaymentPosted
<1>5. ASSUME NEW i \in DOMAIN payments, Figures!CancelPayment(i) PROVE Books' /\ Figures!Commit
  BY <1>5, PaymentCancelled DEF Figures!CancelPayment
<1>6. QED
  BY <1>1, <1>2, <1>3, <1>4, <1>5

\* Who only reads leaves the books in order.
LEMMA BooksKept ==
  ASSUME Books, UNCHANGED <<documents, payments>> PROVE Books'
BY DEF Books, Papers, Settles, Figures!Posted, Figures!Allocated, Figures!Total

\* A step of the visitor.
VisitStep ==
  \/ Figures!StatementDocuments \/ Figures!StatementPayments
  \/ Figures!BalanceDocuments \/ Figures!BalancePayments
  \/ Figures!Options \/ (\E d \in visit.items : Figures!NextOption(d)) \/ Figures!OptionsEnd
  \/ Figures!Turnover \/ Figures!Register \/ Figures!Pricing \/ Figures!Leave

\* A visit reads its next figure.
LEMMA VisitGoesOn ==
  ASSUME Books, Visited(documents, payments, visit), VisitStep
  PROVE  Visited(documents, payments, visit') /\ UNCHANGED <<documents, payments>>
<1> USE DEF Figures!Read
<1>1. documents \in Seq(Figures!Document) /\ payments \in Seq(Figures!Payment)
  BY DEF Books, Papers
<1>2. CASE Figures!StatementDocuments
  <2>1. PICK rows : rows = [e \in {0} \X DOMAIN documents |->
          [day |-> documents[e[2]].day, effect |-> Figures!DocumentEffect(documents[e[2]])]]
    OBVIOUS
  <2>2. visit' = [Figures!NoVisit EXCEPT !.pc = "statement payments", !.rows = rows]
    BY <2>1, <1>2 DEF Figures!StatementDocuments
  <2>3. Visited(documents, payments, visit')
    BY <1>1, <2>1, <2>2, StatementBegins
  <2>4. QED
    BY <2>3, <1>2 DEF Figures!StatementDocuments
<1>3. CASE Figures!StatementPayments
  <2>1. /\ visit.pc = "statement payments" /\ UNCHANGED <<documents, payments>>
        /\ visit' = [visit EXCEPT !.pc = "balance documents",
                                 !.rows = LinesCounted(AllLines(payments, visit.rows))]
    BY <1>3 DEF Figures!StatementPayments, LinesCounted, AllLines
  <2>2. QED
    BY <1>1, <2>1, StatementEnds
<1>4. CASE Figures!BalanceDocuments
  BY <1>1, <1>4, BalanceBegins DEF Figures!BalanceDocuments
<1>5. CASE Figures!BalancePayments
  BY <1>1, <1>5, BalanceEnds DEF Figures!BalancePayments
<1>6. CASE Figures!Options
  BY <1>1, <1>6, OptionsBegin DEF Figures!Options
<1>7. ASSUME NEW d \in visit.items, Figures!NextOption(d)
      PROVE  Visited(documents, payments, visit') /\ UNCHANGED <<documents, payments>>
  <2>1. Figures!Outstanding(d) = Left(documents, payments, d)
    BY DEF Figures!Outstanding, Left
  <2>2. /\ visit.pc = "outstanding" /\ UNCHANGED <<documents, payments>>
        /\ visit' = ItemShown(documents, payments, [visit EXCEPT !.items = visit.items \ {d}], d)
    BY <2>1, <1>7 DEF Figures!NextOption, ItemShown
  <2>3. Visited(documents, payments,
                ItemShown(documents, payments, [visit EXCEPT !.items = visit.items \ {d}], d))
    BY <2>2, OptionsContinue
  <2>4. QED
    BY <2>2, <2>3
<1>8. CASE Figures!OptionsEnd
  BY <1>1, <1>8, OptionsDone DEF Figures!OptionsEnd
<1>9. CASE Figures!Turnover
  BY <1>1, <1>9, TurnoverKnown DEF Figures!Turnover
<1>10. CASE Figures!Register
  <2>1. PICK total : total = Figures!SumFunctionOnSet(
                       [i \in DOMAIN documents |-> Figures!Signed(documents[i])], Figures!Posted(documents))
    OBVIOUS
  <2>2. total = SumOfDocuments(documents)
    BY <1>1, <2>1, RegisterIs
  <2>3. /\ visit.pc = "register" /\ UNCHANGED <<documents, payments>>
        /\ visit' = [visit EXCEPT !.pc = "pricing", !.turnover = visit.turnover - total]
    BY <2>1, <1>10 DEF Figures!Register
  <2>4. QED
    BY <1>1, <2>2, <2>3, RegisterAdded
<1>11. CASE Figures!Pricing
  <2>1. PICK S : S = {i \in Figures!Posted(documents) : documents[i].type = "incoming"}
    OBVIOUS
  <2>2. PICK last : last = CHOOSE i \in S : \A j \in S : \/ documents[j].day < documents[i].day
                                                         \/ documents[j].day = documents[i].day /\ j <= i
    OBVIOUS
  <2>3. PICK cost : cost = (IF S = {} THEN 0 ELSE documents[last].amount)
    OBVIOUS
  <2>4. /\ visit.pc = "pricing" /\ UNCHANGED <<documents, payments>>
        /\ visit' = [visit EXCEPT !.pc = "done", !.cost = cost]
    BY <2>1, <2>2, <2>3, <1>11 DEF Figures!Pricing, Figures!Purchases
  <2>5. Priced(documents, cost)
    <3>1. SUFFICES ASSUME S # {}
                   PROVE  \E i \in S : /\ cost = documents[i].amount
                                       /\ \A j \in S : documents[j].day <= documents[i].day
      BY <2>1 DEF Priced
    <3>2. S \subseteq DOMAIN documents
      BY <2>1 DEF Figures!Posted
    <3>3. \E i \in S : \A j \in S : \/ documents[j].day < documents[i].day
                                    \/ documents[j].day = documents[i].day /\ j <= i
      BY <1>1, <3>1, <3>2, LastPurchase
    <3>4. last \in S /\ \A j \in S : \/ documents[j].day < documents[last].day
                                     \/ documents[j].day = documents[last].day /\ j <= last
      BY <2>2, <3>3
    <3>5. \A j \in S : documents[j].day \in Int
      BY <1>1, <3>2, DocumentRows
    <3>6. \A j \in S : documents[j].day <= documents[last].day
      BY <3>4, <3>5
    <3>7. QED
      BY <2>3, <3>1, <3>4, <3>6
  <2>6. Visited(documents, payments, [visit EXCEPT !.pc = "done", !.cost = cost])
    BY <1>1, <2>4, <2>5, PriceFound
  <2>7. QED
    BY <2>4, <2>6
<1>12. CASE Figures!Leave
  BY <1>12, Unvisited DEF Figures!Leave
<1>13. QED
  BY <1>2, <1>3, <1>4, <1>5, <1>6, <1>7, <1>8, <1>9, <1>10, <1>11, <1>12 DEF VisitStep
-----------------------------------------------------------------------------
\* Empty books, and no visit.
LEMMA FiguresStart == Figures!Init => FiguresInv
<1>1. SUFFICES ASSUME documents = <<>>, payments = <<>>, visit = Figures!NoVisit PROVE FiguresInv
  BY DEF Figures!Init
<1>2. documents \in Seq(Figures!Document) /\ payments \in Seq(Figures!Payment)
  BY <1>1, EmptySeq
<1>3. DOMAIN documents = {} /\ DOMAIN payments = {} /\ Len(documents) = 0 /\ Len(payments) = 0
  BY <1>1, <1>2, DocumentRows
<1>4. Papers
  BY <1>2, <1>3, Money DEF Papers
<1>5. Books
  BY <1>3, <1>4 DEF Books, Figures!Posted
<1>6. Visited(documents, payments, visit)
  BY <1>1, Unvisited
<1>7. QED
  BY <1>5, <1>6 DEF FiguresInv

\* Every step keeps the invariant of the reports.
LEMMA FiguresStep == FiguresInv /\ [Figures!Next]_(Figures!vars) => FiguresInv'
<1>1. SUFFICES ASSUME Books, Visited(documents, payments, visit), [Figures!Next]_(Figures!vars)
               PROVE  Books' /\ Visited(documents', payments', visit')
  BY DEF FiguresInv
<1>2. CASE VisitStep
  <2>1. Visited(documents, payments, visit') /\ documents' = documents /\ payments' = payments
    BY <1>1, <1>2, VisitGoesOn
  <2>2. QED
    BY <1>1, <2>1, BooksKept
<1>3. CASE UNCHANGED Figures!vars
  BY <1>1, <1>3, BooksKept DEF Figures!vars
<1>4. CASE \/ \E d \in Figures!Document : Figures!CreateDocument(d)
           \/ \E i \in DOMAIN documents : Figures!PostDocument(i) \/ Figures!CancelDocument(i)
           \/ \E type \in {"customer_payment", "supplier_payment", "refund"}, day \in Day,
                 a \in Amount, d \in DOMAIN documents \cup {NoDocument} :
                Figures!PostPayment([type |-> type, status |-> "posted", day |-> day, amount |-> a,
                                     document |-> d])
           \/ \E i \in DOMAIN payments : Figures!CancelPayment(i)
  <2>1. Books' /\ Figures!Commit
    BY <1>1, <1>4, BooksCommit
  <2>2. QED
    BY <1>1, <2>1, Forgotten
<1>5. QED
  BY <1>1, <1>2, <1>3, <1>4 DEF Figures!Next, VisitStep

\* The invariant of the reports always holds.
LEMMA FiguresInvariant == Figures!Spec => []FiguresInv
<1>1. QED
  BY FiguresStart, FiguresStep, PTL DEF Figures!Spec

\* The tables of the reports keep their types, and a visit its shape.
THEOREM FiguresTypes == Figures!Spec => []Figures!TypeOK
<1>1. FiguresInv => Figures!TypeOK
  BY DEF FiguresInv, Books, Papers, Visited, VisitPc, Figures!TypeOK
<1>2. QED
  BY <1>1, FiguresInvariant, PTL

\* It contains the agreement of all figures.
LEMMA FiguresTold == FiguresInv => Figures!ReportsAgree
<1>1. SUFFICES ASSUME Books, Visited(documents, payments, visit), visit.pc = "done"
               PROVE  /\ Figures!StatementAgrees /\ Figures!OpenItemsAgree /\ visit.turnover = 0
                      /\ Figures!Purchases # {} =>
                           \E i \in Figures!Purchases :
                             /\ visit.cost = documents[i].amount
                             /\ \A j \in Figures!Purchases : documents[j].day <= documents[i].day
  BY DEF FiguresInv, Figures!ReportsAgree
<1>2. documents \in Seq(Figures!Document) /\ payments \in Seq(Figures!Payment)
  BY <1>1 DEF Books, Papers
<1>3. /\ Statement(documents, payments, visit.rows) /\ Opened(documents, payments, {}, visit.open)
      /\ visit.balance = SumOfDocuments(documents) + SumOfPayments(payments)
      /\ visit.turnover = 0 /\ Priced(documents, visit.cost)
  BY <1>1 DEF Visited, Shown, Told, Settled
<1>4. Figures!OpenItemsAgree
  <2>1. SUFFICES ASSUME \A i \in Figures!Posted(payments) : payments[i].document # NoDocument
                 PROVE  visit.balance = Figures!SumFunctionOnSet(OpenAmounts(documents, visit.open),
                                                                 DOMAIN visit.open)
    BY DEF Figures!OpenItemsAgree, OpenAmounts
  <2>2. PICK open : open = visit.open
    OBVIOUS
  <2>3. SumFunctionOnSet(OpenAmounts(documents, open), DOMAIN open)
          = SumOfDocuments(documents) + SumOfPayments(payments)
    BY <1>1, <1>3, <2>1, <2>2, ItemsAgree
  <2>4. QED
    BY <1>3, <2>2, <2>3, SameSum
<1>5. Figures!StatementAgrees
  <2>1. PICK rows : rows = visit.rows
    OBVIOUS
  <2>2. Statement(documents, payments, rows) /\ DOMAIN rows = Lines(documents, payments)
    BY <1>3, <2>1 DEF Statement
  <2>3. ASSUME NEW e \in DOMAIN rows,
               \A f \in DOMAIN rows : rows[f].day = rows[e].day => f \in Figures!UpTo(rows, e)
        PROVE  rows[e].balance = Figures!DueOn(rows[e].day)
    <3>1. rows[e].balance = SumFunctionOnSet(DocumentEffects(documents), Until(documents, rows[e].day))
                            + SumFunctionOnSet(PaymentEffects(payments), Until(payments, rows[e].day))
      BY <1>2, <2>2, <2>3, DayBalance
    <3>2. Figures!DueOn(rows[e].day)
            = Figures!SumFunctionOnSet(DocumentEffects(documents), Until(documents, rows[e].day))
              + Figures!SumFunctionOnSet(PaymentEffects(payments), Until(payments, rows[e].day))
      BY DEF Figures!DueOn, DocumentEffects, PaymentEffects, Until
    <3>3. QED
      BY <3>1, <3>2, SameSum
  <2>4. CASE DOMAIN rows = {}
    <3>1. DOMAIN documents = {} /\ DOMAIN payments = {}
      <4>1. \A i \in DOMAIN documents : <<0, i>> \in Lines(documents, payments)
        BY <1>2, LineIs
      <4>2. \A i \in DOMAIN payments : <<1, i>> \in Lines(documents, payments)
        BY <1>2, LineIs
      <4>3. QED
        BY <4>1, <4>2, <2>2, <2>4
    <3>2. SumOfDocuments(documents) = 0 /\ SumOfPayments(payments) = 0
      BY <3>1, SumEmpty DEF SumOfDocuments, SumOfPayments
    <3>3. visit.balance = 0
      BY <3>2, <1>3
    <3>4. QED
      BY <2>1, <2>3, <2>4, <3>3 DEF Figures!StatementAgrees
  <2>5. CASE DOMAIN rows # {}
    <3>1. \E e \in DOMAIN rows : /\ e \in DOMAIN rows
                                 /\ \A f \in DOMAIN rows : f \in Figures!UpTo(rows, e)
                                 /\ visit.balance = rows[e].balance
      BY <1>2, <1>3, <2>2, <2>5, LastBalance DEF Last
    <3>2. QED
      BY <2>1, <2>3, <2>5, <3>1 DEF Figures!StatementAgrees
  <2>6. QED
    BY <2>4, <2>5
<1>6. Figures!Purchases # {} =>
        \E i \in Figures!Purchases :
          /\ visit.cost = documents[i].amount
          /\ \A j \in Figures!Purchases : documents[j].day <= documents[i].day
  BY <1>3 DEF Priced, Figures!Purchases
<1>7. QED
  BY <1>3, <1>4, <1>5, <1>6

\* What a reader is told in one visit, during which nothing was committed, agrees: the
\* statement with the balance of each day, the last of them with the balance, the open
\* items with it, the dashboard with the register, and the price is the last purchase's.
THEOREM FiguresAgree == Figures!Spec => []ReportsAgree
<1>1. FiguresInv => ReportsAgree
  BY FiguresTold DEF ReportsAgree
<1>2. QED
  BY <1>1, FiguresInvariant, PTL
-----------------------------------------------------------------------------
(* The upgrade. Each migration leaves what the ones before it have made, and  *)
(* adds its own: what a revision has made of a database is a conjunction of   *)
(* one part per migration.                                                    *)
\* What the migrations up to a revision have made of a database.
DbColumn == {"revision", "documents", "payments", "negative", "movements", "sequences",
             "revisions", "allocations", "tasks", "roles"}
Apply(d) == [document |-> d, reason |-> "post", version |-> 1, kind |-> "apply"]
Reverse(d) == [document |-> d, reason |-> "cancel", version |-> 1, kind |-> "reverse"]

OldTables(w) ==
  /\ DOMAIN w = DbColumn /\ w.documents \in [OldDocument -> Migrations!Row]
  /\ DOMAIN w.payments = OldPayment
  /\ \A p \in OldPayment : /\ w.payments[p].document \in OldDocument \cup {NoDocument}
                           /\ w.payments[p].amount \in Nat
                           /\ w.payments[p].type \in Migrations!PaymentType
  /\ DOMAIN w.roles \subseteq Migrations!Role
  /\ \A r \in DOMAIN w.roles : w.roles[r] \subseteq Migrations!Permission
\* Before 0010: nothing has a version, and a document as many movements as it was
\* posted and cancelled.
Unversioned(w) ==
  /\ \A d \in OldDocument : w.documents[d].version = 0
  /\ \A m \in w.movements :
       /\ m.document \in OldDocument /\ m.reason \in {"post", "cancel"}
       /\ m = [document |-> m.document, reason |-> m.reason, version |-> 0, kind |-> "none"]
       /\ w.documents[m.document].status = "posted" => m.reason = "post"
       /\ w.documents[m.document].status = "cancelled" =>
            [document |-> m.document, reason |-> "cancel", version |-> 0, kind |-> "none"]
              \in w.movements
Versioned(w) ==
  /\ \A d \in OldDocument :
       /\ w.documents[d].version = IF w.documents[d].status = "draft" THEN 0 ELSE 1
       /\ \A v \in {1, 2} : <<d, v>> \in w.revisions <=> (v = 1 /\ w.documents[d].status # "draft")
  /\ \A m \in w.movements :
       /\ m.document \in OldDocument /\ (m.kind = "apply" => m = Apply(m.document))
       /\ w.documents[m.document].status = "posted" => (m.kind = "apply" /\ m.version = 1)
       /\ w.documents[m.document].status = "cancelled" => Reverse(m.document) \in w.movements
Numbered(w) ==
  \A d \in OldDocument : w.documents[d].number > 0 =>
    \E s \in w.sequences : s[1] = w.documents[d].type /\ s[2] >= w.documents[d].number
PaidBy(w, d) ==
  {a \in w.allocations : a.document = d /\ w.payments[a.payment].status = "posted"}
AmountsOf(paid) == [a \in paid |-> a.amount]
SettledOf(w, d) == SumFunctionOnSet(AmountsOf(PaidBy(w, d)), PaidBy(w, d))
Whole(w, p) ==
  [payment |-> p, document |-> w.payments[p].document, amount |-> w.payments[p].amount]
\* An allocation of a part of a payment, to the posted document it was linked to.
Proper(w, a) ==
  /\ a.payment \in OldPayment /\ a.document \in OldDocument
  /\ a.amount \in 1 .. w.payments[a.payment].amount /\ w.payments[a.payment].samePartner
  /\ a.document = w.payments[a.payment].document /\ w.documents[a.document].status = "posted"
DueIn(w, p) ==
  /\ w.payments[p].status = "posted" /\ w.payments[p].samePartner /\ w.payments[p].amount > 0
  /\ w.payments[p].document # NoDocument
  /\ w.documents[w.payments[p].document].status = "posted"
Divided(w) ==
  /\ \A d \in OldDocument :
       SettledOf(w, d) <= (IF w.documents[d].status = "posted" THEN w.documents[d].total ELSE 0)
  /\ \A a \in w.allocations : Proper(w, a)
  /\ \A p \in OldPayment : DueIn(w, p) =>
       \/ Whole(w, p) \in w.allocations
       \/ SettledOf(w, w.payments[p].document) = w.documents[w.payments[p].document].total
Tasked(w) ==
  \A d \in OldDocument : {t \in w.tasks : t.document = d}
    = IF w.documents[d].status = "posted" THEN Migrations!Specs(d, w.documents[d]) ELSE {}
\* Every role has what it is granted.
Has(w, grants) == \A r \in DOMAIN w.roles : r \in DOMAIN grants => grants[r] \subseteq w.roles[r]
DraftGrants == [admin |-> {"payments.update"}, cashier |-> {"payments.update"}]
Logistics == {"logistics.read", "logistics.process", "logistics.review"}
TaskGrants ==
  [admin |-> Logistics, manager |-> Logistics, logist |-> Logistics \ {"logistics.review"}]
CashGrants == [manager |-> {"cash"}]

Upgraded(w) ==
  /\ OldTables(w) /\ w.revision \in {5, 6, 9, 10, 11, 12, 13}
  /\ w.revision \in {5, 6, 9} => Unversioned(w)
  /\ w.revision \in {6, 9, 10, 11, 12, 13} => Has(w, DraftGrants)
  /\ w.revision \in {9, 10, 11, 12, 13} => Numbered(w)
  /\ w.revision \in {10, 11, 12, 13} => Versioned(w)
  /\ w.revision \in {11, 12, 13} => Divided(w)
  /\ w.revision \in {12, 13} => Tasked(w) /\ Has(w, TaskGrants)
  /\ w.revision = 13 => Has(w, CashGrants)

\* An old database, before any migration.
LEMMA OldStart == ASSUME NEW w \in OldDatabase PROVE Upgraded(w)
<1>1. Migrations!IsLegacy(w)
  BY OldRows
<1>2. /\ w = Migrations!Legacy(w.documents, w.payments, w.negative, w.roles)
      /\ w.documents \in [OldDocument -> Migrations!Row]
      /\ \A e \in OldDocument : w.documents[e].version = 0
  BY <1>1 DEF Migrations!IsLegacy
<1>3. DOMAIN w = DbColumn /\ w.revision = 5
  BY <1>2 DEF Migrations!Legacy, DbColumn
<1>4. OldTables(w)
  BY <1>1, <1>3 DEF Migrations!IsLegacy, OldTables
<1>5. w.movements = {[document |-> d, reason |-> r, version |-> 0, kind |-> "none"] :
                    d \in {e \in OldDocument : w.documents[e].status # "draft"
                                            /\ w.documents[e].warehouse}, r \in {"post"}}
                 \cup {[document |-> d, reason |-> "cancel", version |-> 0, kind |-> "none"] :
                         d \in {e \in OldDocument : w.documents[e].status = "cancelled"
                                                 /\ w.documents[e].warehouse}}
  BY <1>2 DEF Migrations!Legacy
<1>6. Unversioned(w)
  <2>1. SUFFICES ASSUME NEW m \in w.movements
        PROVE  /\ m.document \in OldDocument /\ m.reason \in {"post", "cancel"}
               /\ m = [document |-> m.document, reason |-> m.reason, version |-> 0, kind |-> "none"]
               /\ w.documents[m.document].status = "posted" => m.reason = "post"
               /\ w.documents[m.document].status = "cancelled" =>
                    [document |-> m.document, reason |-> "cancel", version |-> 0, kind |-> "none"]
                      \in w.movements
    BY <1>2 DEF Unversioned
  <2>2. \A d \in OldDocument : w.documents[d].status = "cancelled" /\ w.documents[d].warehouse =>
          [document |-> d, reason |-> "cancel", version |-> 0, kind |-> "none"] \in w.movements
    BY <1>5
  <2>3. CASE \E d \in OldDocument :
               /\ w.documents[d].warehouse
               /\ m = [document |-> d, reason |-> "post", version |-> 0, kind |-> "none"]
    BY <2>2, <2>3
  <2>4. CASE \E d \in OldDocument :
               /\ w.documents[d].warehouse /\ w.documents[d].status = "cancelled"
               /\ m = [document |-> d, reason |-> "cancel", version |-> 0, kind |-> "none"]
    BY <2>2, <2>4
  <2>5. QED
    BY <2>3, <2>4, <1>5
<1>7. QED
  BY <1>3, <1>4, <1>6 DEF Upgraded

\* A migration that only grants permissions.
LEMMA GrantedRoles ==
  ASSUME NEW roles, DOMAIN roles \subseteq Migrations!Role,
         \A r \in DOMAIN roles : roles[r] \subseteq Migrations!Permission,
         NEW grants, \A r \in DOMAIN grants : grants[r] \subseteq Migrations!Permission
  PROVE  LET new == Migrations!Granted(roles, grants)
         IN  /\ DOMAIN new = DOMAIN roles
             /\ \A r \in DOMAIN new : /\ new[r] \subseteq Migrations!Permission
                                      /\ roles[r] \subseteq new[r]
                                      /\ r \in DOMAIN grants => grants[r] \subseteq new[r]
BY DEF Migrations!Granted

\* What was granted before stays.
LEMMA StillHas ==
  ASSUME NEW w, NEW new, DOMAIN new.roles = DOMAIN w.roles,
         \A r \in DOMAIN new.roles : w.roles[r] \subseteq new.roles[r],
         NEW grants, Has(w, grants)
  PROVE  Has(new, grants)
<1>1. ASSUME NEW r \in DOMAIN new.roles, r \in DOMAIN grants
      PROVE  grants[r] \subseteq new.roles[r]
  <2>1. grants[r] \subseteq w.roles[r] /\ w.roles[r] \subseteq new.roles[r]
    BY <1>1 DEF Has
  <2>2. QED
    BY <2>1
<1>2. QED
  BY <1>1 DEF Has

\* Revision 0006.
LEMMA ToDraftPermissions ==
  ASSUME NEW w, Upgraded(w), w.revision = 5 PROVE Upgraded(Migrations!PaymentDraftPermissions(w))
<1> PICK roles : roles = Migrations!Granted(w.roles, DraftGrants)
  OBVIOUS
<1> PICK new : new = [w EXCEPT !.revision = 6, !.roles = roles]
  OBVIOUS
<1>1. OldTables(w) /\ Unversioned(w) /\ DOMAIN w = DbColumn
  BY DEF Upgraded, OldTables
<1>2. \A r \in DOMAIN DraftGrants : DraftGrants[r] \subseteq Migrations!Permission
  BY DEF Migrations!Permission, DraftGrants
<1>3. /\ DOMAIN roles \subseteq Migrations!Role
      /\ \A r \in DOMAIN roles : /\ roles[r] \subseteq Migrations!Permission
                                 /\ r \in DOMAIN DraftGrants => DraftGrants[r] \subseteq roles[r]
  BY <1>1, <1>2, GrantedRoles DEF OldTables
<1>4. /\ DOMAIN new = DbColumn /\ new.revision = 6 /\ new.roles = roles
      /\ new.documents = w.documents /\ new.payments = w.payments /\ new.movements = w.movements
  BY <1>1 DEF DbColumn
<1>5. OldTables(new) /\ Unversioned(new) /\ Has(new, DraftGrants)
  BY <1>1, <1>3, <1>4 DEF OldTables, Unversioned, Has
<1>6. Upgraded(new)
  BY <1>4, <1>5 DEF Upgraded
<1>7. new = Migrations!PaymentDraftPermissions(w)
  BY DEF Migrations!PaymentDraftPermissions, DraftGrants
<1>8. QED
  BY <1>6, <1>7

\* Revision 0009.
LEMMA ToIntegrityGuards ==
  ASSUME NEW w, Upgraded(w), w.revision = 6 PROVE Upgraded(Migrations!IntegrityGuards(w))
<1> DEFINE numbers(type) == {w.documents[d].number : d \in {e \in OldDocument :
                               w.documents[e].type = type /\ w.documents[e].number > 0}}
<1> PICK sequences : sequences =
      {<<t, Migrations!Latest(numbers(t))>> :
         t \in {u \in {"incoming", "outgoing", "adjustment", "transfer"} : numbers(u) # {}}}
  OBVIOUS
<1> PICK new : new = [w EXCEPT !.revision = 9, !.sequences = sequences]
  BY Zenon
<1>1. OldTables(w) /\ Unversioned(w) /\ Has(w, DraftGrants) /\ DOMAIN w = DbColumn
  BY DEF Upgraded, OldTables
<1>2. /\ DOMAIN new = DbColumn /\ new.revision = 9 /\ new.roles = w.roles
      /\ new.documents = w.documents /\ new.payments = w.payments /\ new.movements = w.movements
      /\ new.sequences = sequences
  BY <1>1 DEF DbColumn
<1>3. OldTables(new) /\ Unversioned(new) /\ Has(new, DraftGrants)
  BY <1>1, <1>2 DEF OldTables, Unversioned, Has
<1>4. Numbered(new)
  <2>1. SUFFICES ASSUME NEW d \in OldDocument, w.documents[d].number > 0
                 PROVE  \E s \in sequences : /\ s[1] = w.documents[d].type
                                             /\ s[2] >= w.documents[d].number
    BY <1>2 DEF Numbered
  <2>2. PICK t : t = w.documents[d].type
    OBVIOUS
  <2>3. PICK S : S = numbers(t)
    OBVIOUS
  <2>4. \A e \in OldDocument : w.documents[e] \in Migrations!Row
    BY <1>1 DEF OldTables
  <2>5. S \subseteq Int /\ w.documents[d].number \in S /\ IsFiniteSet(S)
    <3>1. w.documents[d].number \in S
      BY <2>1, <2>2, <2>3
    <3>2. S \subseteq Int
      BY <2>3, <2>4 DEF Migrations!Row
    <3>3. PICK R : R = {e \in OldDocument : w.documents[e].type = t /\ w.documents[e].number > 0}
      OBVIOUS
    <3>4. IsFiniteSet(R)
      BY <3>3, OldRows, FS_Subset
    <3>5. PICK f : f = [e \in R |-> w.documents[e].number]
      OBVIOUS
    <3>6. S = {f[e] : e \in R}
      BY <2>3, <3>3, <3>5
    <3>7. \A y \in S : \E e \in R : f[e] = y
      BY <3>6
    <3>8. f \in Surjection(R, S)
      BY <3>5, <3>6 DEF Surjection
    <3>9. IsFiniteSet(S)
      BY <3>4, <3>8, FS_Surjection
    <3>10. QED
      BY <3>1, <3>2, <3>9
  <2>6. \E x \in S : \A y \in S : y <= x
    BY <2>5, LeastAndGreatest
  <2>7. Migrations!Latest(S) \in S /\ \A y \in S : y <= Migrations!Latest(S)
    BY <2>6 DEF Migrations!Latest
  <2>8. <<t, Migrations!Latest(S)>> \in sequences
    <3>1. t \in {"incoming", "outgoing", "adjustment", "transfer"}
      BY <2>2, <2>4 DEF Migrations!Row
    <3>2. numbers(t) # {}
      BY <2>3, <2>5
    <3>3. QED
      BY <3>1, <3>2, <2>3
  <2>9. w.documents[d].number <= Migrations!Latest(S) /\ w.documents[d].number \in Int
        /\ Migrations!Latest(S) \in Int
    BY <2>5, <2>7
  <2>10. PICK s : s = <<t, Migrations!Latest(S)>>
    OBVIOUS
  <2>11. s[1] = w.documents[d].type /\ s[2] >= w.documents[d].number
    BY <2>2, <2>9, <2>10
  <2>12. QED
    BY <2>8, <2>10, <2>11
<1>5. Upgraded(new)
  BY ONLY <1>2, <1>3, <1>4 DEF Upgraded
<1>6. new = Migrations!IntegrityGuards(w)
  BY DEF Migrations!IntegrityGuards
<1>7. QED
  BY <1>5, <1>6

\* Revision 0010.
LEMMA ToDocumentRevisions ==
  ASSUME NEW w, Upgraded(w), w.revision = 9 PROVE Upgraded(Migrations!DocumentRevisions(w))
<1> PICK versioned : versioned = {d \in OldDocument : w.documents[d].status \in {"posted", "cancelled"}}
  OBVIOUS
<1> PICK docs : docs =
      [d \in OldDocument |-> IF d \in versioned THEN [w.documents[d] EXCEPT !.version = 1]
                             ELSE w.documents[d]]
  OBVIOUS
<1> PICK moves : moves =
      {[m EXCEPT !.version = 1, !.kind = IF m.reason = "post" THEN "apply" ELSE "reverse"] :
         m \in w.movements}
  OBVIOUS
<1> PICK revs : revs = {<<d, 1>> : d \in versioned}
  OBVIOUS
<1> PICK new : new = [w EXCEPT !.revision = 10, !.documents = docs, !.movements = moves,
                               !.revisions = revs]
  BY Zenon
<1>1. OldTables(w) /\ Unversioned(w) /\ Numbered(w) /\ Has(w, DraftGrants) /\ DOMAIN w = DbColumn
  BY Zenon DEF Upgraded, OldTables
<1>2. /\ DOMAIN new = DbColumn /\ new.revision = 10 /\ new.roles = w.roles
      /\ new.documents = docs /\ new.payments = w.payments /\ new.movements = moves
      /\ new.sequences = w.sequences /\ new.revisions = revs
  BY <1>1 DEF DbColumn
<1>3. ASSUME NEW d \in OldDocument
      PROVE  /\ docs[d] \in Migrations!Row /\ docs[d].status = w.documents[d].status
             /\ docs[d].type = w.documents[d].type /\ docs[d].number = w.documents[d].number
             /\ docs[d].version = IF w.documents[d].status = "draft" THEN 0 ELSE 1
             /\ w.documents[d].status \in {"draft", "posted", "cancelled"}
  <2>1. w.documents[d] \in Migrations!Row /\ w.documents[d].version = 0
    BY <1>1, Zenon DEF OldTables, Unversioned
  <2>2. w.documents[d].status \in {"draft", "posted", "cancelled"}
    BY <2>1, Zenon DEF Migrations!Row
  <2>3. CASE w.documents[d].status = "draft"
    BY <2>1, <2>3, Zenon
  <2>4. CASE w.documents[d].status # "draft"
    <3>1. docs[d] = [w.documents[d] EXCEPT !.version = 1]
      BY <2>2, <2>4, Zenon
    <3>2. QED
      BY <2>1, <2>4, <3>1, Zenon DEF Migrations!Row
  <2>5. QED
    BY <2>2, <2>3, <2>4, Zenon
<1>4. OldTables(new)
  BY <1>1, <1>2, <1>3, Zenon DEF OldTables
<1>5. Numbered(new)
  BY <1>1, <1>2, <1>3, Zenon DEF Numbered
<1>6. ASSUME NEW n \in w.movements
      PROVE  /\ n.document \in OldDocument /\ n.reason \in {"post", "cancel"}
             /\ n = [document |-> n.document, reason |-> n.reason, version |-> 0, kind |-> "none"]
             /\ w.documents[n.document].status = "posted" => n.reason = "post"
             /\ w.documents[n.document].status = "cancelled" =>
                  [document |-> n.document, reason |-> "cancel", version |-> 0, kind |-> "none"]
                    \in w.movements
  BY <1>1, Zenon DEF Unversioned
<1>7. ASSUME NEW m \in moves
      PROVE  /\ m.document \in OldDocument
             /\ m.kind = "apply" => m = Apply(m.document)
             /\ m.version = 1
             /\ w.documents[m.document].status = "posted" => m.kind = "apply"
             /\ w.documents[m.document].status = "cancelled" => Reverse(m.document) \in moves
  <2>1. PICK n \in w.movements :
          m = [n EXCEPT !.version = 1, !.kind = IF n.reason = "post" THEN "apply" ELSE "reverse"]
    BY Zenon
  <2>2. m = [document |-> n.document, reason |-> n.reason, version |-> 1,
             kind |-> IF n.reason = "post" THEN "apply" ELSE "reverse"]
    <3>1. PICK c : c = n.document
      BY Zenon
    <3>2. PICK r : r = n.reason
      BY Zenon
    <3>3. n = [document |-> c, reason |-> r, version |-> 0, kind |-> "none"]
      BY <1>6, <3>1, <3>2, Zenon
    <3>4. PICK k : k = IF r = "post" THEN "apply" ELSE "reverse"
      BY Zenon
    <3>5. m = [n EXCEPT !.version = 1, !.kind = k]
      BY ONLY <2>1, <3>2, <3>4
    <3>6. m = [document |-> c, reason |-> r, version |-> 1, kind |-> k]
      BY ONLY <3>3, <3>5
    <3>7. QED
      BY ONLY <3>1, <3>2, <3>4, <3>6
  <2>3. w.documents[m.document].status = "cancelled" => Reverse(m.document) \in moves
    <3>1. SUFFICES ASSUME w.documents[m.document].status = "cancelled"
                   PROVE  Reverse(m.document) \in moves
      BY Zenon
    <3>2. PICK k : k = [document |-> n.document, reason |-> "cancel", version |-> 0, kind |-> "none"]
      BY Zenon
    <3>3. k \in w.movements
      BY <3>1, <3>2, <2>2, <1>6
    <3>4. Reverse(m.document)
            = [k EXCEPT !.version = 1, !.kind = IF k.reason = "post" THEN "apply" ELSE "reverse"]
      <4>1. PICK c : c = m.document
        BY Zenon
      <4>2. c = n.document
        BY ONLY <4>1, <2>2
      <4>3. k = [document |-> c, reason |-> "cancel", version |-> 0, kind |-> "none"]
        BY ONLY <4>2, <3>2
      <4>4. k.reason # "post"
        BY ONLY <4>3
      <4>5. [k EXCEPT !.version = 1, !.kind = "reverse"] = Reverse(c)
        <5>1. PICK u : u = [k EXCEPT !.version = 1, !.kind = "reverse"]
          BY Zenon
        <5>2. u = [document |-> c, reason |-> "cancel", version |-> 1, kind |-> "reverse"]
          BY ONLY <4>3, <5>1
        <5>3. QED
          BY ONLY <5>1, <5>2 DEF Reverse
      <4>6. QED
        BY ONLY <4>1, <4>4, <4>5
    <3>5. QED
      BY <3>3, <3>4
  <2>4. QED
    BY <2>2, <2>3, <1>6, Zenon DEF Apply
<1>8. \A d \in OldDocument : \A v \in {1, 2} :
        <<d, v>> \in revs <=> (v = 1 /\ w.documents[d].status # "draft")
  BY <1>3, Zenon
<1>9. Versioned(new)
  <2>1. \A d \in OldDocument :
          /\ new.documents[d].version = IF new.documents[d].status = "draft" THEN 0 ELSE 1
          /\ \A v \in {1, 2} :
               <<d, v>> \in new.revisions <=> (v = 1 /\ new.documents[d].status # "draft")
    BY ONLY <1>2, <1>3, <1>8
  <2>2. \A m \in moves :
          /\ m.document \in OldDocument /\ (m.kind = "apply" => m = Apply(m.document))
          /\ docs[m.document].status = "posted" => (m.kind = "apply" /\ m.version = 1)
          /\ docs[m.document].status = "cancelled" => Reverse(m.document) \in moves
    BY ONLY <1>3, <1>7
  <2>3. QED
    BY ONLY <1>2, <2>1, <2>2 DEF Versioned
<1>10. Has(new, DraftGrants)
  BY ONLY <1>1, <1>2 DEF Has
<1>11. Upgraded(new)
  BY ONLY <1>2, <1>4, <1>5, <1>9, <1>10 DEF Upgraded
<1>12. new = Migrations!DocumentRevisions(w)
  BY DEF Migrations!DocumentRevisions
<1>13. QED
  BY <1>11, <1>12, Zenon
-----------------------------------------------------------------------------
\* 0011 goes through the payments, as a recursive function of those before one: there is
\* such a function for every finite set, and what holds of each of its values holds of the last.
Linked(w) == {p \in OldPayment : /\ w.payments[p].document # NoDocument
                                 /\ w.payments[p].status # "cancelled"}
Nothing(w) == [made |-> {}, left |-> [d \in OldDocument |-> IF w.documents[d].status = "posted"
                                                            THEN w.documents[d].total ELSE 0]]
Dividing(g, w, S) ==
  g = [s \in SUBSET S |->
         IF s = {} THEN Nothing(w)
         ELSE Migrations!Take(w, Migrations!Latest(s), g[s \ {Migrations!Latest(s)}])]

\* The latest of some payments is one of them.
LEMMA LatestIn ==
  ASSUME NEW s, s \subseteq OldPayment, s # {} PROVE Migrations!Latest(s) \in s
<1>1. s \subseteq Int /\ IsFiniteSet(s)
  <2>1. OldPayment \subseteq Nat /\ IsFiniteSet(OldPayment)
    BY OldRows
  <2>2. IsFiniteSet(s)
    BY <2>1, FS_Subset
  <2>3. QED
    BY <2>1, <2>2
<1>2. \E x \in s : \A y \in s : y <= x
  BY <1>1, LeastAndGreatest
<1>3. QED
  BY <1>2 DEF Migrations!Latest

\* Of what is taken in turn from a set, a part of the set tells the same.
LEMMA DividingAgree ==
  ASSUME NEW S, S \subseteq OldPayment, NEW R, R \subseteq S, NEW w, NEW g, NEW h,
         Dividing(g, w, S), Dividing(h, w, R)
  PROVE  \A s \in SUBSET R : g[s] = h[s]
<1> DEFINE T == {s \in SUBSET R : g[s] # h[s]}
<1> SUFFICES ASSUME T # {} PROVE FALSE
  OBVIOUS
<1>1. PICK x \in T : \A y \in T : y \subseteq x => y = x
  <2>1. IsFiniteSet(R) /\ T \subseteq SUBSET R
    BY FS_Subset, OldRows
  <2> HIDE DEF T
  <2>2. QED
    BY <2>1, Smallest
<1>2. x # {}
  BY DEF Dividing
<1> DEFINE p == Migrations!Latest(x)
<1>3. p \in x
  BY <1>2, LatestIn
<1> HIDE DEF p
<1>4. g[x \ {p}] = h[x \ {p}]
  BY <1>1, <1>3
<1>5. /\ g[x] = Migrations!Take(w, p, g[x \ {p}])
      /\ h[x] = Migrations!Take(w, p, h[x \ {p}])
  BY <1>2 DEF Dividing, p
<1>6. QED
  BY <1>1, <1>4, <1>5

\* Payments can be taken in turn.
LEMMA DividingExists ==
  ASSUME NEW S, S \subseteq OldPayment, NEW w PROVE \E g : Dividing(g, w, S)
<1> DEFINE T == {s \in SUBSET S : ~ \E g : Dividing(g, w, s)}
           H(s) == CHOOSE g : Dividing(g, w, s)
           Newest(s) == Migrations!Latest(s)
           Next1(s) == s \ {Newest(s)}
<1> SUFFICES ASSUME T # {} PROVE FALSE
  OBVIOUS
<1>1. PICK x \in T : \A y \in T : y \subseteq x => y = x
  <2>1. T \subseteq SUBSET S /\ IsFiniteSet(S)
    BY FS_Subset, OldRows
  <2> HIDE DEF T
  <2>2. QED
    BY <2>1, Smallest
<1>2. \A s \in SUBSET x : s # x => Dividing(H(s), w, s)
  <2> SUFFICES ASSUME NEW s \in SUBSET x, s # x PROVE Dividing(H(s), w, s)
    OBVIOUS
  <2>1. \E g : Dividing(g, w, s)
    BY <1>1
  <2>2. QED
    BY <2>1
<1>3. x \subseteq OldPayment /\ \A s \in SUBSET x : s # {} => Newest(s) \in s
  BY LatestIn
<1> DEFINE g == [s \in SUBSET x |-> IF s = {} THEN Nothing(w)
                                    ELSE Migrations!Take(w, Newest(s), H(Next1(s))[Next1(s)])]
<1> HIDE DEF Newest
<1>4. ASSUME NEW r \in SUBSET x, r # x PROVE g[r] = H(r)[r]
  <2>1. Dividing(H(r), w, r)
    BY <1>2, <1>4
  <2>2. CASE r = {}
    BY <2>1, <2>2 DEF Dividing
  <2>3. CASE r # {}
    <3> DEFINE q == Next1(r)
    <3>1. q \in SUBSET r /\ q # x /\ q \in SUBSET x
      BY <1>3, <1>4, <2>3
    <3>2. Dividing(H(q), w, q)
      BY <1>2, <3>1
    <3> HIDE DEF H, q
    <3>3. H(r)[q] = H(q)[q]
      BY <2>1, <3>1, <3>2, <1>3, DividingAgree
    <3>4. H(r)[r] = Migrations!Take(w, Newest(r), H(r)[q])
      BY <2>1, <2>3 DEF Dividing, q, Newest
    <3>5. g[r] = Migrations!Take(w, Newest(r), H(q)[q])
      BY <2>3 DEF q
    <3>6. QED
      BY <3>3, <3>4, <3>5
  <2>4. QED
    BY <2>2, <2>3
<1>5. Dividing(g, w, x)
  <2>1. ASSUME NEW s \in SUBSET x
        PROVE  g[s] = IF s = {} THEN Nothing(w) ELSE Migrations!Take(w, Newest(s), g[Next1(s)])
    <3>1. CASE s = {}
      BY <3>1
    <3>2. CASE s # {}
      <4>1. Next1(s) \in SUBSET x /\ Next1(s) # x
        BY <3>2, <1>3
      <4>2. g[Next1(s)] = H(Next1(s))[Next1(s)]
        BY <1>4, <4>1
      <4> HIDE DEF H
      <4>3. g[s] = Migrations!Take(w, Newest(s), H(Next1(s))[Next1(s)])
        BY <3>2
      <4>4. QED
        BY <3>2, <4>2, <4>3
    <3>3. QED
      BY <3>1, <3>2
  <2>2. g = [s \in SUBSET x |-> g[s]]
    OBVIOUS
  <2> HIDE DEF g
  <2>3. QED
    BY <2>1, <2>2 DEF Dividing, Newest
<1>6. QED
  BY <1>1, <1>5

\* What a step of it keeps: no allocation is counted twice, and what is settled of a
\* document is gone from what is left of it; a posted payment is taken whole unless
\* nothing is left.
TakenWhole(w, acc, p) ==
  w.payments[p].status = "posted" /\ w.payments[p].samePartner /\ w.payments[p].amount > 0
    => Whole(w, p) \in acc.made \/ acc.left[w.payments[p].document] = 0
Taken(w, s, acc) ==
  /\ DOMAIN acc = {"made", "left"} /\ acc.left \in [OldDocument -> Nat]
  /\ IsFiniteSet(acc.made)
  /\ \A a \in acc.made : a.payment \in s /\ Proper(w, a)
  /\ \A d \in OldDocument :
       LET paid == {a \in acc.made : a.document = d /\ w.payments[a.payment].status = "posted"}
       IN  SumFunctionOnSet(AmountsOf(paid), paid) + acc.left[d] = Nothing(w).left[d]
  /\ \A d \in OldDocument : w.documents[d].status # "posted" => acc.left[d] = 0
  /\ \A p \in s : TakenWhole(w, acc, p)

\* Before the first payment is taken.
LEMMA TakenFirst == ASSUME NEW w, OldTables(w) PROVE Taken(w, {}, Nothing(w))
<1>1. \A d \in OldDocument : w.documents[d].total \in Nat
  BY DEF OldTables, Migrations!Row
<1>2. PICK n : n = Nothing(w)
  OBVIOUS
<1>3. /\ DOMAIN n = {"made", "left"} /\ n.made = {}
      /\ n.left = [d \in OldDocument |-> IF w.documents[d].status = "posted"
                                         THEN w.documents[d].total ELSE 0]
  BY <1>2 DEF Nothing
<1>4. n.left \in [OldDocument -> Nat] /\ IsFiniteSet(n.made)
  BY <1>1, <1>3, FS_EmptySet
<1>5. ASSUME NEW d \in OldDocument, NEW paid,
             paid = {a \in n.made : a.document = d /\ w.payments[a.payment].status = "posted"}
      PROVE  SumFunctionOnSet(AmountsOf(paid), paid) + n.left[d] = n.left[d]
  <2>1. paid = {}
    BY <1>3, <1>5
  <2>2. SumFunctionOnSet(AmountsOf(paid), paid) = 0
    BY <2>1, SumEmpty
  <2>3. n.left[d] \in Int
    BY <1>4
  <2>4. QED
    BY ONLY <2>2, <2>3
<1>6. \A d \in OldDocument : w.documents[d].status # "posted" => n.left[d] = 0
  BY <1>3
<1>7. QED
  BY <1>2, <1>3, <1>4, <1>5, <1>6 DEF Taken

\* One more payment is taken, and its amount divided.
LEMMA TakenNext ==
  ASSUME NEW w, OldTables(w), NEW s, NEW p \in Linked(w), p \notin s, NEW acc, Taken(w, s, acc)
  PROVE  Taken(w, s \cup {p}, Migrations!Take(w, p, acc))
<1> PICK d : d = w.payments[p].document
  OBVIOUS
<1> PICK m : m = w.payments[p].amount
  OBVIOUS
<1> PICK amount : amount = IF m < acc.left[d] THEN m ELSE acc.left[d]
  OBVIOUS
<1>1. p \in OldPayment /\ d \in OldDocument /\ m \in Nat
  BY DEF OldTables, Linked
<1>2. /\ DOMAIN acc = {"made", "left"} /\ acc.left \in [OldDocument -> Nat]
      /\ IsFiniteSet(acc.made) /\ \A a \in acc.made : a.payment \in s /\ Proper(w, a)
      /\ \A e \in OldDocument : w.documents[e].status # "posted" => acc.left[e] = 0
      /\ \A q \in s : TakenWhole(w, acc, q)
  BY DEF Taken
<1>3. Migrations!Take(w, p, acc) =
        IF amount <= 0 \/ ~ w.payments[p].samePartner THEN acc
        ELSE [made |-> acc.made \cup {[payment |-> p, document |-> d, amount |-> amount]},
              left |-> IF w.payments[p].status = "posted"
                       THEN [acc.left EXCEPT ![d] = @ - amount] ELSE acc.left]
  BY DEF Migrations!Take
<1>4. CASE amount <= 0 \/ ~ w.payments[p].samePartner
  <2>1. Migrations!Take(w, p, acc) = acc
    BY <1>3, <1>4
  <2>2. TakenWhole(w, acc, p)
    <3>1. SUFFICES ASSUME w.payments[p].samePartner, m > 0 PROVE acc.left[d] = 0
      BY DEF TakenWhole
    <3>2. acc.left[d] \in Nat /\ amount <= 0
      BY <3>1, <1>1, <1>2, <1>4
    <3>3. QED
      BY ONLY <3>1, <3>2, <1>1, amount = IF m < acc.left[d] THEN m ELSE acc.left[d]
  <2>3. Taken(w, s \cup {p}, acc)
    BY <2>2 DEF Taken
  <2>4. QED
    BY <2>1, <2>3
<1>5. CASE ~ (amount <= 0 \/ ~ w.payments[p].samePartner)
  <2> PICK r : r = [payment |-> p, document |-> d, amount |-> amount]
    OBVIOUS
  <2> PICK left : left = IF w.payments[p].status = "posted"
                         THEN [acc.left EXCEPT ![d] = @ - amount] ELSE acc.left
    OBVIOUS
  <2> PICK new : new = [made |-> acc.made \cup {r}, left |-> left]
    OBVIOUS
  <2>1. Migrations!Take(w, p, acc) = new
    BY <1>3, <1>5
  <2>2. acc.left[d] \in Nat
    BY <1>1, <1>2
  <2>3. amount \in 1 .. m /\ amount <= acc.left[d] /\ amount \in Nat
    BY <2>2, <1>1, <1>5
  <2>4. r.payment = p /\ r.document = d /\ r.amount = amount
    OBVIOUS
  <2>5. left \in [OldDocument -> Nat]
    BY <2>2, <2>3, <1>1, <1>2
  <2>6. DOMAIN new = {"made", "left"} /\ new.made = acc.made \cup {r} /\ new.left = left
    OBVIOUS
  <2>7. r \notin acc.made
    BY <2>4, <1>2
  <2>8. IsFiniteSet(acc.made \cup {r})
    BY <1>2, FS_AddElement
  <2>9. \A a \in acc.made \cup {r} : a.payment \in s \cup {p} /\ Proper(w, a)
    <3>1. w.documents[d].status = "posted"
      BY <2>3, <1>1, <1>2
    <3>2. Proper(w, r)
      BY <3>1, <2>3, <2>4, <1>1, <1>5 DEF Proper
    <3>3. QED
      BY <3>2, <2>4, <1>2
  <2>10. ASSUME NEW e \in OldDocument, NEW old, NEW paid,
                old = {a \in acc.made : a.document = e /\ w.payments[a.payment].status = "posted"},
                paid = {a \in acc.made \cup {r} :
                          a.document = e /\ w.payments[a.payment].status = "posted"}
         PROVE  SumFunctionOnSet(AmountsOf(paid), paid) + left[e] = Nothing(w).left[e]
    <3>1. SumFunctionOnSet(AmountsOf(old), old) + acc.left[e] = Nothing(w).left[e]
      BY <2>10 DEF Taken
    <3>2. CASE d = e /\ w.payments[p].status = "posted"
      <4>1. paid = old \cup {r} /\ r \notin old
        BY <3>2, <2>4, <2>7, <2>10
      <4>2. IsFiniteSet(paid) /\ IsFiniteSet(old)
        BY <2>8, <2>10, <1>2, FS_Subset, Zenon
      <4>3. \A a \in paid : AmountsOf(paid)[a] \in Int /\ AmountsOf(paid)[a] = a.amount
        <5>1. \A a \in paid : a.amount \in Int
          BY <2>9, <2>10 DEF Proper
        <5>2. QED
          BY ONLY <5>1 DEF AmountsOf
      <4>4. \A a \in old : AmountsOf(old)[a] = a.amount
        BY DEF AmountsOf
      <4>5. PICK f : f = AmountsOf(paid)
        OBVIOUS
      <4>6. PICK g : g = AmountsOf(old)
        OBVIOUS
      <4>7. SumFunctionOnSet(f, paid) = f[r] + SumFunctionOnSet(f, paid \ {r})
        <5>1. r \in paid /\ \A a \in paid : f[a] \in Int
          BY <4>1, <4>3, <4>5, Zenon
        <5>2. QED
          BY ONLY <5>1, <4>2, SumRemove
      <4>8. paid \ {r} = old
        BY ONLY <4>1
      <4>9. SumFunctionOnSet(f, old) = SumFunctionOnSet(g, old)
        <5>1. \A a \in old : f[a] \in Int /\ f[a] = g[a]
          BY <4>1, <4>3, <4>4, <4>5, <4>6, Zenon
        <5>2. QED
          BY ONLY <5>1, <4>2, SumSame
      <4>10. f[r] = amount
        BY <4>1, <4>3, <4>5, <2>4, Zenon
      <4>11. SumFunctionOnSet(g, old) \in Int
        <5>1. \A a \in old : g[a] \in Int
          <6>1. \A a \in old : a \in paid
            BY ONLY <4>1
          <6>2. QED
            BY ONLY <6>1, <4>3, <4>4, <4>6
        <5>2. QED
          BY ONLY <5>1, <4>2, SumInt
      <4>12. left[e] = acc.left[e] - amount
        BY <3>2, <1>1, <1>2
      <4>13. acc.left[e] \in Int /\ amount \in Int
        BY <3>2, <2>2, <2>3
      <4>14. SumFunctionOnSet(f, paid) = amount + SumFunctionOnSet(g, old)
        BY ONLY <4>7, <4>8, <4>9, <4>10
      <4>15. SumFunctionOnSet(f, paid) + left[e] = SumFunctionOnSet(g, old) + acc.left[e]
        BY ONLY <4>11, <4>12, <4>13, <4>14
      <4>16. QED
        BY ONLY <4>5, <4>6, <4>15, <3>1
    <3>3. CASE d # e \/ w.payments[p].status # "posted"
      <4>1. paid = old
        BY <3>3, <2>4, <2>10
      <4>2. left[e] = acc.left[e]
        BY <3>3, <1>1, <1>2
      <4>3. QED
        BY <3>1, <4>1, <4>2
    <3>4. QED
      BY <3>2, <3>3
  <2>11. ASSUME NEW e \in OldDocument, w.documents[e].status # "posted" PROVE left[e] = 0
    <3>1. acc.left[e] = 0 /\ e # d
      BY <2>11, <2>3, <1>2, <1>1
    <3>2. QED
      BY <3>1, <1>1, <1>2
  <2>12. ASSUME NEW q \in s \cup {p} PROVE TakenWhole(w, new, q)
    <3>1. CASE q = p
      <4>1. SUFFICES ASSUME w.payments[p].status = "posted" PROVE r = Whole(w, p) \/ left[d] = 0
        BY <3>1, <2>6 DEF TakenWhole
      <4>2. CASE amount = m
        BY <4>2 DEF Whole
      <4>3. CASE amount # m
        <5>1. amount = acc.left[d] /\ left = [acc.left EXCEPT ![d] = @ - amount]
          BY <4>1, <4>3
        <5>2. QED
          BY <5>1, <2>2, <1>1, <1>2
      <4>4. QED
        BY <4>2, <4>3
    <3>2. CASE q \in s
      <4>1. SUFFICES ASSUME w.payments[q].status = "posted", w.payments[q].samePartner,
                            w.payments[q].amount > 0, Whole(w, q) \notin acc.made
                     PROVE  left[w.payments[q].document] = 0
        BY <2>6 DEF TakenWhole
      <4>2. PICK e : e = w.payments[q].document
        OBVIOUS
      <4>3. acc.left[e] = 0
        BY <4>1, <4>2, <3>2, <1>2 DEF TakenWhole
      <4>4. d # e
        BY <4>3, <2>3
      <4>5. left[e] = acc.left[e]
        BY <4>4, <1>2
      <4>6. QED
        BY <4>2, <4>3, <4>5
    <3>3. QED
      BY <3>1, <3>2
  <2>13. Taken(w, s \cup {p}, new)
    BY ONLY <2>5, <2>6, <2>8, <2>9, <2>10, <2>11, <2>12 DEF Taken
  <2>14. QED
    BY <2>1, <2>13, Zenon
<1>6. QED
  BY <1>4, <1>5

\* All payments are taken.
LEMMA TakenAll ==
  ASSUME NEW w, OldTables(w), NEW g, Dividing(g, w, Linked(w))
  PROVE  Taken(w, Linked(w), g[Linked(w)])
<1> PICK L : L = Linked(w)
  OBVIOUS
<1> DEFINE T == {s \in SUBSET L : ~ Taken(w, s, g[s])}
<1>1. L \subseteq OldPayment /\ IsFiniteSet(L)
  <2>1. L \subseteq OldPayment
    BY DEF Linked
  <2>2. QED
    BY <2>1, OldRows, FS_Subset
<1> SUFFICES ASSUME T # {} PROVE FALSE
  OBVIOUS
<1>2. PICK x \in T : \A y \in T : y \subseteq x => y = x
  <2>1. T \subseteq SUBSET L
    OBVIOUS
  <2> HIDE DEF T
  <2>2. QED
    BY <1>1, <2>1, Smallest
<1>3. x # {}
  BY TakenFirst DEF Dividing
<1> DEFINE p == Migrations!Latest(x)
           r == x \ {p}
<1>4. p \in x
  BY <1>1, <1>3, LatestIn
<1>5. g[x] = Migrations!Take(w, p, g[r])
  BY <1>3 DEF Dividing
<1> HIDE DEF p
<1>6. Taken(w, r, g[r]) /\ p \notin r /\ x = r \cup {p} /\ p \in Linked(w)
  BY <1>2, <1>4
<1>7. Taken(w, x, g[x])
  BY <1>5, <1>6, TakenNext
<1>8. QED
  BY <1>2, <1>7

\* Revision 0011.
LEMMA ToPaymentAllocations ==
  ASSUME NEW w, Upgraded(w), w.revision = 10 PROVE Upgraded(Migrations!PaymentAllocations(w))
<1> PICK g : g = CHOOSE h : Dividing(h, w, Linked(w))
  OBVIOUS
<1> PICK acc : acc = g[Linked(w)]
  OBVIOUS
<1> PICK new : new = [w EXCEPT !.revision = 11, !.allocations = acc.made]
  OBVIOUS
<1>1. /\ OldTables(w) /\ Versioned(w) /\ Numbered(w) /\ Has(w, DraftGrants)
      /\ DOMAIN w = DbColumn
  BY DEF Upgraded, OldTables
<1>2. Dividing(g, w, Linked(w))
  <2>1. Linked(w) \subseteq OldPayment
    BY DEF Linked
  <2>2. QED
    BY <2>1, DividingExists
<1>3. Taken(w, Linked(w), acc)
  BY <1>1, <1>2, TakenAll
<1>4. /\ DOMAIN new = DbColumn /\ new.revision = 11 /\ new.roles = w.roles
      /\ new.documents = w.documents /\ new.payments = w.payments /\ new.movements = w.movements
      /\ new.sequences = w.sequences /\ new.revisions = w.revisions /\ new.allocations = acc.made
  BY <1>1 DEF DbColumn
<1>5. OldTables(new) /\ Versioned(new) /\ Numbered(new) /\ Has(new, DraftGrants)
  BY ONLY <1>1, <1>4 DEF OldTables, Versioned, Numbered, Has
<1>6. ASSUME NEW d \in OldDocument
      PROVE  /\ SettledOf(new, d) <= (IF w.documents[d].status = "posted"
                                     THEN w.documents[d].total ELSE 0)
             /\ w.documents[d].status = "posted" /\ acc.left[d] = 0
                  => SettledOf(new, d) = w.documents[d].total
  <2>1. PICK paid : paid = {a \in acc.made : a.document = d /\ w.payments[a.payment].status = "posted"}
    OBVIOUS
  <2>2. PaidBy(new, d) = paid
    BY <1>4, <2>1 DEF PaidBy
  <2>3. SumFunctionOnSet(AmountsOf(paid), paid) + acc.left[d] = Nothing(w).left[d] /\ acc.left[d] \in Nat
    BY <1>3, <2>1 DEF Taken
  <2>4. Nothing(w).left[d] = IF w.documents[d].status = "posted" THEN w.documents[d].total ELSE 0
    BY DEF Nothing
  <2>5. SumFunctionOnSet(AmountsOf(paid), paid) \in Int
    <3>1. PICK f : f = AmountsOf(paid)
      OBVIOUS
    <3>2. \A a \in paid : f[a] \in Int
      BY <2>1, <3>1, <1>3 DEF Taken, Proper, AmountsOf
    <3>3. IsFiniteSet(paid)
      BY <2>1, <1>3, FS_Subset DEF Taken
    <3>4. QED
      BY ONLY <3>1, <3>2, <3>3, SumInt
  <2>6. w.documents[d].total \in Nat
    BY <1>1 DEF OldTables, Migrations!Row
  <2>7. SettledOf(new, d) = SumFunctionOnSet(AmountsOf(paid), paid)
    BY <2>2 DEF SettledOf
  <2>8. QED
    BY ONLY <2>3, <2>4, <2>5, <2>6, <2>7
<1>7. \A a \in acc.made : Proper(new, a)
  BY <1>3, <1>4 DEF Taken, Proper
<1>8. ASSUME NEW p \in OldPayment, DueIn(new, p)
      PROVE  \/ Whole(new, p) \in acc.made
             \/ SettledOf(new, new.payments[p].document)
                  = new.documents[new.payments[p].document].total
  <2>1. PICK d : d = w.payments[p].document
    OBVIOUS
  <2>2. /\ p \in Linked(w) /\ d \in OldDocument /\ w.documents[d].status = "posted"
        /\ w.payments[p].status = "posted" /\ w.payments[p].samePartner
        /\ w.payments[p].amount > 0 /\ Whole(new, p) = Whole(w, p)
    BY <2>1, <1>1, <1>4, <1>8 DEF DueIn, Linked, OldTables, Whole
  <2>3. Whole(w, p) \in acc.made \/ acc.left[d] = 0
    BY <2>1, <2>2, <1>3 DEF Taken, TakenWhole
  <2>4. CASE acc.left[d] = 0
    <3>1. SettledOf(new, d) = w.documents[d].total
      BY <2>2, <2>4, <1>6
    <3>2. QED
      BY <3>1, <2>1, <1>4
  <2>5. QED
    BY <2>2, <2>3, <2>4
<1>9. Divided(new)
  BY ONLY <1>4, <1>6, <1>7, <1>8 DEF Divided
<1>10. Upgraded(new)
  BY ONLY <1>4, <1>5, <1>9 DEF Upgraded
<1>11. new = Migrations!PaymentAllocations(w)
  BY Zenon DEF Migrations!PaymentAllocations, Migrations!MapThenFoldSet, MapThenFoldSet,
               Dividing, Linked, Nothing
<1>12. QED
  BY <1>10, <1>11
\* What follows 0010 and 0011 leaves what they made as it is.
LEMMA MadeIsKept ==
  ASSUME NEW w, NEW new, new.documents = w.documents, new.payments = w.payments,
         new.movements = w.movements, new.sequences = w.sequences, new.revisions = w.revisions,
         new.allocations = w.allocations, Versioned(w), Numbered(w), Divided(w)
  PROVE  Versioned(new) /\ Numbered(new) /\ Divided(new)
<1>1. \A d : PaidBy(new, d) = PaidBy(w, d)
  BY DEF PaidBy
<1>2. Versioned(new) /\ Numbered(new)
  BY DEF Versioned, Numbered
<1>3. /\ \A d : SettledOf(new, d) = SettledOf(w, d)
      /\ \A p : Whole(new, p) = Whole(w, p) /\ (DueIn(new, p) <=> DueIn(w, p))
      /\ \A a : Proper(new, a) <=> Proper(w, a)
  BY <1>1 DEF SettledOf, Whole, DueIn, Proper
<1>4. Divided(new)
  BY <1>3 DEF Divided
<1>5. QED
  BY <1>2, <1>4

\* Revision 0012.
LEMMA ToWarehouseTasks ==
  ASSUME NEW w, Upgraded(w), w.revision = 11 PROVE Upgraded(Migrations!WarehouseTasksMigration(w))
<1> PICK roles : roles = Migrations!Granted(w.roles, TaskGrants)
  OBVIOUS
<1> PICK posted : posted = {d \in OldDocument : /\ w.documents[d].status = "posted"
                                               /\ w.documents[d].version > 0
                                               /\ w.documents[d].type # "adjustment"}
  OBVIOUS
<1> PICK tasks : tasks = UNION {Migrations!Specs(d, w.documents[d]) : d \in posted}
  OBVIOUS
<1> PICK new : new = [w EXCEPT !.revision = 12, !.roles = roles, !.tasks = tasks]
  BY Zenon
<1>1. /\ OldTables(w) /\ Versioned(w) /\ Numbered(w) /\ Divided(w) /\ DOMAIN w = DbColumn
      /\ Has(w, DraftGrants)
  BY DEF Upgraded, OldTables
<1>2. \A r \in DOMAIN TaskGrants : TaskGrants[r] \subseteq Migrations!Permission
  BY DEF Migrations!Permission, TaskGrants, Logistics
<1>3. /\ DOMAIN roles \subseteq Migrations!Role /\ DOMAIN roles = DOMAIN w.roles
      /\ \A r \in DOMAIN roles : /\ roles[r] \subseteq Migrations!Permission
                                 /\ w.roles[r] \subseteq roles[r]
                                 /\ r \in DOMAIN TaskGrants => TaskGrants[r] \subseteq roles[r]
  BY <1>1, <1>2, GrantedRoles DEF OldTables
<1>4. /\ DOMAIN new = DbColumn /\ new.revision = 12 /\ new.roles = roles /\ new.tasks = tasks
      /\ new.documents = w.documents /\ new.payments = w.payments /\ new.movements = w.movements
      /\ new.sequences = w.sequences /\ new.revisions = w.revisions
      /\ new.allocations = w.allocations
  BY <1>1 DEF DbColumn
<1>5. OldTables(new)
  BY ONLY <1>1, <1>3, <1>4 DEF OldTables
<1>6. Versioned(new) /\ Numbered(new) /\ Divided(new)
  BY ONLY <1>1, <1>4, MadeIsKept
<1>7. ASSUME NEW d \in OldDocument
      PROVE  {t \in tasks : t.document = d}
               = IF w.documents[d].status = "posted" THEN Migrations!Specs(d, w.documents[d]) ELSE {}
  <2>1. \A e : \A t \in Migrations!Specs(e, w.documents[e]) : e \in OldDocument => t.document = e
    <3>1. SUFFICES ASSUME NEW e \in OldDocument, NEW t \in Migrations!Specs(e, w.documents[e])
                   PROVE  t.document = e
      OBVIOUS
    <3>2. w.documents[e] \in Migrations!Row
      BY <1>1 DEF OldTables
    <3>3. /\ w.documents[e].warehouse \in BOOLEAN
          /\ w.documents[e].type \in {"incoming", "outgoing", "adjustment", "transfer"}
      BY <3>2 DEF Migrations!Row
    <3>4. QED
      BY <3>1, <3>3 DEF Migrations!Specs
  <2>2. {t \in tasks : t.document = d} = IF d \in posted THEN Migrations!Specs(d, w.documents[d]) ELSE {}
    <3>1. \A t \in tasks : \E e \in posted : t \in Migrations!Specs(e, w.documents[e])
      OBVIOUS
    <3>2. posted \subseteq OldDocument
      OBVIOUS
    <3>3. \A e \in posted : \A t \in Migrations!Specs(e, w.documents[e]) : t \in tasks /\ t.document = e
      BY <2>1, <3>2
    <3>4. \A t \in tasks : t.document = d => d \in posted /\ t \in Migrations!Specs(d, w.documents[d])
      BY <3>1, <3>3
    <3>5. QED
      BY ONLY <3>3, <3>4
  <2>3. CASE w.documents[d].status # "posted"
    BY <2>2, <2>3
  <2>4. CASE w.documents[d].status = "posted"
    <3>1. w.documents[d].version = 1
      BY <2>4, <1>1 DEF Versioned
    <3>2. CASE w.documents[d].type # "adjustment"
      BY <2>2, <2>4, <3>1, <3>2
    <3>3. CASE w.documents[d].type = "adjustment"
      <4>1. w.documents[d].warehouse \in BOOLEAN
        BY <1>1 DEF OldTables, Migrations!Row
      <4>2. Migrations!Specs(d, w.documents[d]) = {}
        BY <3>3, <4>1 DEF Migrations!Specs
      <4>3. QED
        BY <2>2, <4>2, <3>3
    <3>4. QED
      BY <3>2, <3>3
  <2>5. QED
    BY <2>3, <2>4
<1>8. Tasked(new)
  BY ONLY <1>4, <1>7 DEF Tasked
<1>9. Has(new, TaskGrants) /\ Has(new, DraftGrants)
  <2>1. Has(new, TaskGrants)
    BY ONLY <1>3, <1>4 DEF Has
  <2>2. QED
    BY ONLY <2>1, <1>1, <1>3, <1>4, StillHas
<1>10. Upgraded(new)
  BY ONLY <1>4, <1>5, <1>6, <1>8, <1>9 DEF Upgraded
<1>11. new = Migrations!WarehouseTasksMigration(w)
  BY DEF Migrations!WarehouseTasksMigration, TaskGrants, Logistics
<1>12. QED
  BY <1>10, <1>11

\* Revision 0013.
LEMMA ToManagerCash ==
  ASSUME NEW w, Upgraded(w), w.revision = 12 PROVE Upgraded(Migrations!ManagerCash(w))
<1> PICK roles : roles = Migrations!Granted(w.roles, CashGrants)
  OBVIOUS
<1> PICK new : new = [w EXCEPT !.revision = 13, !.roles = roles]
  OBVIOUS
<1>1. /\ OldTables(w) /\ Versioned(w) /\ Numbered(w) /\ Divided(w) /\ DOMAIN w = DbColumn
      /\ Tasked(w) /\ Has(w, DraftGrants) /\ Has(w, TaskGrants)
  BY DEF Upgraded, OldTables
<1>2. \A r \in DOMAIN CashGrants : CashGrants[r] \subseteq Migrations!Permission
  BY DEF Migrations!Permission, CashGrants
<1>3. /\ DOMAIN roles \subseteq Migrations!Role /\ DOMAIN roles = DOMAIN w.roles
      /\ \A r \in DOMAIN roles : /\ roles[r] \subseteq Migrations!Permission
                                 /\ w.roles[r] \subseteq roles[r]
                                 /\ r \in DOMAIN CashGrants => CashGrants[r] \subseteq roles[r]
  BY <1>1, <1>2, GrantedRoles DEF OldTables
<1>4. /\ DOMAIN new = DbColumn /\ new.revision = 13 /\ new.roles = roles /\ new.tasks = w.tasks
      /\ new.documents = w.documents /\ new.payments = w.payments /\ new.movements = w.movements
      /\ new.sequences = w.sequences /\ new.revisions = w.revisions
      /\ new.allocations = w.allocations
  BY <1>1 DEF DbColumn
<1>5. OldTables(new)
  BY ONLY <1>1, <1>3, <1>4 DEF OldTables
<1>6. Versioned(new) /\ Numbered(new) /\ Divided(new)
  BY ONLY <1>1, <1>4, MadeIsKept
<1>7. Tasked(new)
  BY ONLY <1>1, <1>4 DEF Tasked
<1>8. Has(new, CashGrants) /\ Has(new, TaskGrants) /\ Has(new, DraftGrants)
  <2>1. Has(new, CashGrants)
    BY ONLY <1>3, <1>4 DEF Has
  <2>2. QED
    BY ONLY <2>1, <1>1, <1>3, <1>4, StillHas
<1>9. Upgraded(new)
  BY ONLY <1>4, <1>5, <1>6, <1>7, <1>8 DEF Upgraded
<1>10. new = Migrations!ManagerCash(w)
  BY DEF Migrations!ManagerCash, CashGrants
<1>11. QED
  BY <1>9, <1>10

\* The seed of roles after the last revision.
LEMMA ToBootstrap ==
  ASSUME NEW w, Upgraded(w), w.revision = 13
  PROVE  Upgraded([w EXCEPT !.roles = Migrations!RolePermissions])
<1> PICK roles : roles = Migrations!RolePermissions
  OBVIOUS
<1> PICK new : new = [w EXCEPT !.roles = roles]
  OBVIOUS
<1>1. /\ OldTables(w) /\ Versioned(w) /\ Numbered(w) /\ Divided(w) /\ DOMAIN w = DbColumn
      /\ Tasked(w)
  BY DEF Upgraded, OldTables
<1>2. /\ DOMAIN roles \subseteq Migrations!Role
      /\ \A r \in DOMAIN roles : roles[r] \subseteq Migrations!Permission
  BY DEF Migrations!RolePermissions, Migrations!Role, Migrations!Permission
<1>3. /\ DOMAIN new = DbColumn /\ new.revision = 13 /\ new.roles = roles /\ new.tasks = w.tasks
      /\ new.documents = w.documents /\ new.payments = w.payments /\ new.movements = w.movements
      /\ new.sequences = w.sequences /\ new.revisions = w.revisions
      /\ new.allocations = w.allocations
  BY <1>1 DEF DbColumn
<1>4. OldTables(new)
  BY ONLY <1>1, <1>2, <1>3 DEF OldTables
<1>5. Versioned(new) /\ Numbered(new) /\ Divided(new)
  BY ONLY <1>1, <1>3, MadeIsKept
<1>6. Tasked(new)
  BY ONLY <1>1, <1>3 DEF Tasked
<1>7. Has(new, CashGrants) /\ Has(new, TaskGrants) /\ Has(new, DraftGrants)
  BY ONLY <1>3, roles = Migrations!RolePermissions
     DEF Has, CashGrants, TaskGrants, DraftGrants, Logistics, Migrations!RolePermissions,
         Migrations!Permission
<1>8. Upgraded(new)
  BY ONLY <1>3, <1>4, <1>5, <1>6, <1>7 DEF Upgraded
<1>9. QED
  BY <1>8
-----------------------------------------------------------------------------
UpgradeInv == Upgraded(db) /\ Upgraded(work)

\* An old database; the transaction has changed nothing of it.
LEMMA UpgradeStart == Migrations!Init => UpgradeInv
BY OldStart DEF Migrations!Init, UpgradeInv

\* A migration, its commit, its rollback and the seed keep the invariant.
LEMMA UpgradeStep == UpgradeInv /\ [Migrations!Next]_(Migrations!vars) => UpgradeInv'
<1>1. SUFFICES ASSUME Upgraded(db), Upgraded(work), [Migrations!Next]_(Migrations!vars)
               PROVE  Upgraded(db') /\ Upgraded(work')
  BY DEF UpgradeInv
<1>2. ASSUME NEW from, NEW new, Migrations!Migrate(from, new),
             work.revision = from => Upgraded(new)
      PROVE  Upgraded(db') /\ Upgraded(work')
  BY <1>1, <1>2 DEF Migrations!Migrate
<1>3. CASE Migrations!Migrate(5, Migrations!PaymentDraftPermissions(work))
  BY <1>1, <1>2, <1>3, ToDraftPermissions
<1>4. CASE Migrations!Migrate(6, Migrations!IntegrityGuards(work))
  BY <1>1, <1>2, <1>4, ToIntegrityGuards
<1>5. CASE Migrations!Migrate(9, Migrations!DocumentRevisions(work))
  BY <1>1, <1>2, <1>5, ToDocumentRevisions
<1>6. CASE Migrations!Migrate(10, Migrations!PaymentAllocations(work))
  BY <1>1, <1>2, <1>6, ToPaymentAllocations
<1>7. CASE Migrations!Migrate(11, Migrations!WarehouseTasksMigration(work))
  BY <1>1, <1>2, <1>7, ToWarehouseTasks
<1>8. CASE Migrations!Migrate(12, Migrations!ManagerCash(work))
  BY <1>1, <1>2, <1>8, ToManagerCash
<1>9. CASE Migrations!CommitUpgrade \/ Migrations!AbortUpgrade
  BY <1>1, <1>9 DEF Migrations!CommitUpgrade, Migrations!AbortUpgrade
<1>10. CASE Migrations!BootstrapAdmin
  BY <1>1, <1>10, ToBootstrap DEF Migrations!BootstrapAdmin
<1>11. CASE UNCHANGED Migrations!vars
  BY <1>1, <1>11 DEF Migrations!vars
<1>12. QED
  BY <1>1, <1>3, <1>4, <1>5, <1>6, <1>7, <1>8, <1>9, <1>10, <1>11 DEF Migrations!Next

\* The invariant of the upgrade always holds.
LEMMA UpgradeInvariant == Migrations!Spec => []UpgradeInv
BY UpgradeStart, UpgradeStep, PTL DEF Migrations!Spec

\* It contains the types.
LEMMA UpgradedTypes == UpgradeInv => Migrations!TypeOK
BY DEF UpgradeInv, Upgraded, OldTables, Migrations!TypeOK

\* What a document is settled by, of the database.
LEMMA SettledIs == ASSUME NEW d PROVE Migrations!Settled(d) = SettledOf(db, d)
BY DEF Migrations!Settled, SettledOf, PaidBy, AmountsOf, Migrations!SumFunctionOnSet,
       SumFunctionOnSet, Migrations!FoldFunctionOnSet, FoldFunctionOnSet, MapThenFoldSet,
       Migrations!MapThenFoldSet

\* It contains that nothing is missing at the last revision.
LEMMA UpgradedIsComplete == UpgradeInv => Migrations!UpgradeIsComplete
<1>1. SUFFICES ASSUME OldTables(db), Versioned(db), Numbered(db), Divided(db), Tasked(db),
                      Has(db, DraftGrants), Has(db, TaskGrants), Has(db, CashGrants)
               PROVE  Migrations!UpgradeIsComplete
  BY Zenon DEF UpgradeInv, Upgraded, Migrations!UpgradeIsComplete
<1>2. ASSUME NEW d \in OldDocument, NEW r, r = db.documents[d]
      PROVE  /\ {v \in 1 .. 2 : <<d, v>> \in db.revisions} = 1 .. r.version
             /\ r.status = "draft" <=> r.version = 0
             /\ r.status = "posted" => Migrations!Active(d) = {m \in db.movements : m.document = d}
             /\ r.status = "cancelled" =>
                  \A m \in Migrations!Active(d) :
                    [m EXCEPT !.kind = "reverse", !.reason = "cancel"] \in db.movements
             /\ Migrations!Settled(d) <= (IF r.status = "posted" THEN r.total ELSE 0)
             /\ r.number > 0 => \E s \in db.sequences : s[1] = r.type /\ s[2] >= r.number
             /\ {t \in db.tasks : t.document = d}
                  = IF r.status = "posted" THEN Migrations!Specs(d, r) ELSE {}
  <2>1. /\ r.version = IF r.status = "draft" THEN 0 ELSE 1
        /\ \A v \in {1, 2} : <<d, v>> \in db.revisions <=> (v = 1 /\ r.status # "draft")
    BY <1>1, <1>2 DEF Versioned
  <2>2. {v \in 1 .. 2 : <<d, v>> \in db.revisions} = 1 .. r.version
    BY ONLY <2>1
  <2>3. \A m \in db.movements : m.document = d =>
          /\ m.kind = "apply" => m = Apply(d)
          /\ r.status = "posted" => (m.kind = "apply" /\ m.version = 1)
          /\ r.status = "cancelled" => Reverse(d) \in db.movements
    BY <1>1, <1>2 DEF Versioned
  <2>4. r.status = "posted" => Migrations!Active(d) = {m \in db.movements : m.document = d}
    BY <2>1, <2>3, <1>2 DEF Migrations!Active
  <2>5. ASSUME r.status = "cancelled", NEW m \in Migrations!Active(d)
        PROVE  [m EXCEPT !.kind = "reverse", !.reason = "cancel"] \in db.movements
    <3>1. m = Apply(d) /\ Reverse(d) \in db.movements
      BY <2>3, <2>5 DEF Migrations!Active
    <3>2. [m EXCEPT !.kind = "reverse", !.reason = "cancel"] = Reverse(d)
      <4>1. PICK u : u = [m EXCEPT !.kind = "reverse", !.reason = "cancel"]
        OBVIOUS
      <4>2. m = [document |-> d, reason |-> "post", version |-> 1, kind |-> "apply"]
        BY ONLY <3>1 DEF Apply
      <4>3. u = [document |-> d, reason |-> "cancel", version |-> 1, kind |-> "reverse"]
        BY ONLY <4>1, <4>2
      <4>4. QED
        BY ONLY <4>1, <4>3 DEF Reverse
    <3>3. QED
      BY <3>1, <3>2
  <2>6. Migrations!Settled(d) <= (IF r.status = "posted" THEN r.total ELSE 0)
    BY <1>1, <1>2, SettledIs DEF Divided
  <2>7. r.number > 0 => \E s \in db.sequences : s[1] = r.type /\ s[2] >= r.number
    BY <1>1, <1>2 DEF Numbered
  <2>8. {t \in db.tasks : t.document = d}
          = IF r.status = "posted" THEN Migrations!Specs(d, r) ELSE {}
    BY <1>1, <1>2 DEF Tasked
  <2>9. r.status = "draft" <=> r.version = 0
    BY <2>1
  <2>10. QED
    BY <2>2, <2>4, <2>5, <2>6, <2>7, <2>8, <2>9, Zenon
<1>3. \A a \in db.allocations :
        /\ a.amount \in 1 .. db.payments[a.payment].amount /\ db.payments[a.payment].samePartner
        /\ a.document = Migrations!Link(a.payment) /\ db.documents[a.document].status = "posted"
  BY <1>1 DEF Divided, Proper, Migrations!Link
<1>4. ASSUME NEW p \in OldPayment, Migrations!Due(p)
      PROVE  \/ [payment |-> p, document |-> Migrations!Link(p), amount |-> db.payments[p].amount]
                  \in db.allocations
             \/ Migrations!Settled(Migrations!Link(p)) = db.documents[Migrations!Link(p)].total
  <2>1. DueIn(db, p) /\ Migrations!Link(p) = db.payments[p].document
    BY <1>4 DEF Migrations!Due, Migrations!Link, DueIn
  <2>2. \/ Whole(db, p) \in db.allocations
        \/ SettledOf(db, db.payments[p].document) = db.documents[db.payments[p].document].total
    BY <2>1, <1>1 DEF Divided
  <2>3. QED
    BY <2>1, <2>2, SettledIs DEF Whole
<1>5. ASSUME \A p \in OldPayment : Migrations!Link(p) # NoDocument =>
               ~ Migrations!Refused(db.payments[p], db.documents[Migrations!Link(p)]),
             NEW a \in db.allocations
      PROVE  ~ Migrations!Refused(db.payments[a.payment], db.documents[a.document])
  <2>1. a.payment \in OldPayment /\ a.document \in OldDocument
    BY <1>1 DEF Divided, Proper
  <2>2. a.document # NoDocument
    BY <2>1, OldRows
  <2>3. QED
    BY <2>1, <2>2, <1>3, <1>5
<1>6. ASSUME NEW r \in DOMAIN db.roles PROVE Migrations!MigrationGrants[r] \subseteq db.roles[r]
  <2>1. r \in Migrations!Role
    BY <1>1 DEF OldTables
  <2>2. /\ r \in DOMAIN DraftGrants => DraftGrants[r] \subseteq db.roles[r]
        /\ r \in DOMAIN TaskGrants => TaskGrants[r] \subseteq db.roles[r]
        /\ r \in DOMAIN CashGrants => CashGrants[r] \subseteq db.roles[r]
    BY <1>1 DEF Has
  <2>3. QED
    BY ONLY <2>1, <2>2
       DEF Migrations!Role, Migrations!MigrationGrants, DraftGrants, TaskGrants, CashGrants, Logistics
<1>7. QED
  BY <1>2, <1>3, <1>4, <1>5, <1>6, Zenon DEF Migrations!UpgradeIsComplete

\* The upgrade keeps the types of the tables, in the database and in its transaction.
THEOREM UpgradeTypes == Migrations!Spec => []Migrations!TypeOK
BY UpgradeInvariant, UpgradedTypes, PTL
-----------------------------------------------------------------------------
(* The whole. The parts share no variable, so that what is proved of each part *)
(* from its own initial states and steps holds in the back office.            *)
\* The parts share no variable: a step is a step of one, and the others see none.
LEMMA PartsApart ==
  ASSUME [AllNext]_allVars
  PROVE  /\ part' = part
         /\ [Next]_vars /\ [Imports!Next]_(Imports!vars) /\ [Cards!Next]_(Cards!vars)
         /\ [Figures!Next]_(Figures!vars) /\ [Migrations!Next]_(Migrations!vars)
<1> USE DEF vars, Imports!vars, Imports!tables, Cards!vars, Figures!vars, Migrations!vars, importVars, directoryVars,
            reportVars, upgradeVars
<1>1. CASE part = "users" /\ Next
           /\ UNCHANGED <<part, importVars, directoryVars, reportVars, upgradeVars, legacyVars>>
  BY <1>1
<1>2. CASE part = "imports" /\ Imports!Next
           /\ UNCHANGED <<part, vars, directoryVars, reportVars, upgradeVars, legacyVars>>
  BY <1>2
<1>3. CASE part = "cards" /\ Cards!Next
           /\ UNCHANGED <<part, vars, importVars, reportVars, upgradeVars, legacyVars>>
  BY <1>3
<1>4. CASE part = "figures" /\ Figures!Next
           /\ UNCHANGED <<part, vars, importVars, directoryVars, upgradeVars, legacyVars>>
  BY <1>4
<1>5. CASE part = "migrations" /\ Migrations!Next
           /\ UNCHANGED <<part, vars, importVars, directoryVars, reportVars, legacyVars>>
  BY <1>5
<1>6. CASE part = "reader" /\ Reader!Next
           /\ UNCHANGED <<part, vars, importVars, directoryVars, reportVars, upgradeVars>>
  BY <1>6
<1>7. CASE UNCHANGED allVars
  BY <1>7 DEF allVars
<1>8. QED
  BY <1>1, <1>2, <1>3, <1>4, <1>5, <1>6, <1>7 DEF AllNext

\* The back office behaves, of each part, as the module of that part says: what is
\* proved of users, imports, the directory and the reports holds of it.
THEOREM PartsImplemented == AllSpec => Spec /\ Imports!Spec /\ Cards!Spec /\ Figures!Spec
<1>1. AllInit => Init /\ Imports!Init /\ Cards!Init /\ Figures!Init
  BY DEF AllInit
<1>2. [AllNext]_allVars => /\ [Next]_vars /\ [Imports!Next]_(Imports!vars)
                           /\ [Cards!Next]_(Cards!vars) /\ [Figures!Next]_(Figures!vars)
  BY PartsApart
<1>3. QED
  BY <1>1, <1>2, PTL DEF AllSpec, Spec, Imports!Spec, Cards!Spec, Figures!Spec

\* A database that is being upgraded starts as an old one, and only migrations
\* touch it.
LEMMA UpgradeApart == AllSpec => [](part = "migrations" => UpgradeInv)
<1>1. AllInit => (part = "migrations" => UpgradeInv)
  BY UpgradeStart DEF AllInit
<1>2. (part = "migrations" => UpgradeInv) /\ [AllNext]_allVars
        => (part = "migrations" => UpgradeInv)'
  BY PartsApart, UpgradeStep
<1>3. QED
  BY <1>1, <1>2, PTL DEF AllSpec

\* Every table and every session, request and visit keeps its type, whichever part
\* is at work.
THEOREM PartsTyped ==
  AllSpec => [](/\ TypeOK /\ Imports!TypeOK /\ Cards!TypeOK /\ Figures!TypeOK
                /\ part = "migrations" => Migrations!TypeOK)
<1>1. (part = "migrations" => UpgradeInv) => (part = "migrations" => Migrations!TypeOK)
  BY UpgradedTypes
<1>2. QED
  BY <1>1, UpgradeApart, PartsImplemented, AccountTypes, ImportTypes, DirectoryTypes,
     FiguresTypes, PTL

\* A database that has come to the last revision lacks nothing of what the program
\* expects: movements, versions, numbers and tasks of the documents, the linked money
\* allocated up to their totals, and the permissions the migrations grant to every role.
THEOREM UpgradesComplete == AllSpec => []UpgradeIsComplete
<1>1. (part = "migrations" => UpgradeInv) => UpgradeIsComplete
  BY UpgradedIsComplete DEF UpgradeIsComplete
<1>2. QED
  BY <1>1, UpgradeApart, PTL

\* What the back office promises, whichever of its parts is at work: an account is
\* locked for wrong passwords only; edits of accounts and of the directory have the
\* effect of one at a time; the movements explain the opening stock; an import is
\* there as a whole or not at all; a report agrees with the books; an upgraded
\* database lacks nothing.
THEOREM BackOfficeCorrect ==
  AllSpec => /\ [](/\ LockIsEarned /\ SerialEdits /\ OpeningExplained /\ ReportsAgree
                   /\ UpgradeIsComplete)
             /\ ImportsAreWhole /\ SerialDirectory
BY PartsImplemented, LockEarned, EditsInOrder, OpeningIsExplained, ImportsWhole,
   DirectoryInOrder, FiguresAgree, UpgradesComplete, PTL
=============================================================================
