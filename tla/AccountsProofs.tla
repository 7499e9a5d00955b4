--------------------------- MODULE AccountsProofs ---------------------------
(***************************************************************************)
(* For any number of accounts and calls: unless a password is saved with a  *)
(* row that is out of date, an active administrator remains.                *)
(***************************************************************************)
EXTENDS Accounts, TLAPS

\* A call is about an account, and an update has a patch and, once it holds the lock,
\* a row.
CallsOK ==
    \A p \in Procs :
        /\ call[p].at # "idle" => call[p].u \in Users /\ users[call[p].u] # None
        /\ call[p].at \in {"admitted", "counting", "deciding"} => call[p].patch \in Patch

\* Of a row there is one holder.
LocksExclusive ==
    \A p, q \in Procs : p # q => \A u \in Users : ~ (Holds(p, u) /\ Holds(q, u))

\* What is read under the lock stands until it is written.
RowsStand ==
    \A p \in Procs : call[p].at \in {"counting", "deciding"} => users[call[p].u] = call[p].row

\* So do the administrators that were found to be left.
OthersStand ==
    \A p \in Procs :
        /\ call[p].u \notin call[p].todo
        /\ \A v \in call[p].others : ActiveAdmin(v) /\ v # call[p].u

\* One is left where one may be lost.
LossIsCovered ==
    \A p \in Procs :
        call[p].at = "deciding" /\ Losing(call[p].row, call[p].patch) => call[p].others # {}

\* A timely save finds the row it has read.
SavesAgree == \A p \in Procs : call[p].at = "saving" => call[p].base = call[p].row

IInv ==
    /\ TypeOK /\ CallsOK /\ LocksExclusive /\ RowsStand /\ OthersStand /\ LossIsCovered
    /\ SavesAgree /\ AnAdminRemains

-----------------------------------------------------------------------------
\* A patched row is a row.
LEMMA PatchedIsUser ==
    ASSUME NEW row \in User, NEW patch \in Patch
    PROVE  Patched(row, patch) \in User
  BY NoUserAssumption DEF Patched, User, Patch

\* An update that is not losing an administrator leaves it one.
LEMMA PatchedStaysAdmin ==
    ASSUME NEW row \in User, NEW patch \in Patch,
           row.role = "admin", row.active, ~ Losing(row, patch)
    PROVE  Patched(row, patch).role = "admin" /\ Patched(row, patch).active
  BY NoUserAssumption DEF Patched, User, Patch, Losing, Role

\* A save of a row that is as the entity read it again changes neither column.
LEMMA MergedIsNow ==
    ASSUME NEW now \in User, NEW row
    PROVE  Merged(now, row, row) = now
  BY DEF Merged, User

-----------------------------------------------------------------------------
\* What a call may hold for the invariant to stand.
Sound(p, d) ==
    /\ d.at # "idle" => d.u \in Users /\ users[d.u] # None
    /\ d.at \in {"admitted", "counting", "deciding"} => d.patch \in Patch
    /\ \A u \in Users :
          (d.at \in {"counting", "deciding"} /\ d.u = u) \/ u \in d.others => Free(p, u)
    /\ d.at \in {"counting", "deciding"} => users[d.u] = d.row
    /\ d.u \notin d.todo
    /\ \A v \in d.others : ActiveAdmin(v) /\ v # d.u
    /\ d.at = "deciding" /\ Losing(d.row, d.patch) => d.others # {}
    /\ d.at = "saving" => d.base = d.row

\* A step of one call that leaves the rows alone keeps the invariant, if what the
\* call holds after it is sound.
LEMMA SoundSteps ==
    ASSUME IInv, users' = users, NEW p \in Procs, NEW d \in Call,
           call' = [call EXCEPT ![p] = d], Sound(p, d)
    PROVE  IInv'
<1>1. call'[p] = d /\ \A q \in Procs \ {p} : call'[q] = call[q]
  BY DEF IInv, TypeOK
<1>2. TypeOK'
  BY DEF IInv, TypeOK
<1>3. CallsOK'
  BY <1>1 DEF IInv, CallsOK, Sound
<1>4. LocksExclusive'
  <2> SUFFICES ASSUME NEW q \in Procs, NEW r \in Procs, q # r, NEW u \in Users,
                      Holds(q, u)', Holds(r, u)'
               PROVE  FALSE
    BY DEF LocksExclusive
  <2>1. \A s \in Procs \ {p} : Holds(s, u)' => Holds(s, u)
    BY <1>1 DEF Holds
  <2>2. Holds(p, u)' => Free(p, u)
    BY <1>1 DEF Holds, Sound
  <2> QED
    BY <2>1, <2>2 DEF Free, IInv, LocksExclusive
<1>5. RowsStand'
  BY <1>1 DEF IInv, RowsStand, Sound
<1>6. OthersStand'
  BY <1>1 DEF IInv, OthersStand, Sound, ActiveAdmin
<1>7. LossIsCovered'
  BY <1>1 DEF IInv, LossIsCovered, Sound
<1>8. SavesAgree'
  BY <1>1 DEF IInv, SavesAgree, Sound
<1>9. AnAdminRemains'
  BY DEF IInv, AnAdminRemains, ActiveAdmin
<1> QED
  BY <1>2, <1>3, <1>4, <1>5, <1>6, <1>7, <1>8, <1>9 DEF IInv

\* An idle call holds nothing.
LEMMA IdleIsSound == Idle \in Call /\ \A p \in Procs : Sound(p, Idle)
  BY NoUserAssumption DEF Idle, Call, Sound, Losing

LEMMA FinishKeeps ==
    ASSUME IInv, users' = users, NEW p \in Procs, call' = [call EXCEPT ![p] = Idle]
    PROVE  IInv'
  BY SoundSteps, IdleIsSound

-----------------------------------------------------------------------------
(* The actions                                                             *)

LEMMA CreateKeeps ==
    ASSUME IInv, NEW p \in Procs, NEW u \in Users, NEW role \in Role, Create(p, u, role)
    PROVE  IInv'
<1>1. \A v \in Users : users[v] # None => users'[v] = users[v]
  BY DEF Create, IInv, TypeOK
<1>2. call' = call
  BY DEF Create
<1>3. [role |-> role, active |-> TRUE] \in User
  BY DEF User
<1>4. TypeOK'
  BY <1>3 DEF Create, IInv, TypeOK
<1>5. CallsOK'
  BY <1>1, <1>2 DEF IInv, CallsOK
<1>6. LocksExclusive'
  BY <1>2 DEF IInv, LocksExclusive, Holds
<1>7. RowsStand'
  BY <1>1, <1>2 DEF IInv, RowsStand, CallsOK
<1>8. \A v \in Users : ActiveAdmin(v) => ActiveAdmin(v)'
  BY <1>1 DEF ActiveAdmin
<1>9. OthersStand'
  <2>1. \A q \in Procs : call[q].others \in SUBSET Users
    BY DEF IInv, TypeOK, Call
  <2> QED
    BY <1>2, <1>8, <2>1 DEF IInv, OthersStand
<1>10. LossIsCovered' /\ SavesAgree'
  BY <1>2 DEF IInv, LossIsCovered, SavesAgree
<1>11. AnAdminRemains'
  BY <1>8 DEF IInv, AnAdminRemains
<1> QED
  BY <1>4, <1>5, <1>6, <1>7, <1>9, <1>10, <1>11 DEF IInv

LEMMA UpdateKeeps ==
    ASSUME IInv, NEW p \in Procs, NEW a \in Users, NEW u \in Users, NEW patch \in Patch,
           Update(p, a, u, patch)
    PROVE  IInv'
<1>1. PICK d : d = [Idle EXCEPT !.at = "admitted", !.u = u, !.own = (a = u), !.patch = patch]
  OBVIOUS
<1>2. d \in Call
  BY <1>1, NoUserAssumption DEF Idle, Call
<1>3. Sound(p, d)
  BY <1>1 DEF Update, Sound, Idle
<1>4. users' = users /\ call' = [call EXCEPT ![p] = d]
  BY <1>1 DEF Update
<1> QED
  BY <1>2, <1>3, <1>4, SoundSteps

LEMMA LockUserKeeps ==
    ASSUME IInv, NEW p \in Procs, LockUser(p)
    PROVE  IInv'
<1>1. PICK c : c = call[p]
  OBVIOUS
<1>2. /\ c \in Call /\ c.at = "admitted" /\ c.u \in Users /\ users[c.u] \in User
      /\ c.patch \in Patch
  BY <1>1 DEF LockUser, IInv, TypeOK, CallsOK
<1>3. PICK todo : todo = IF Losing(users[c.u], c.patch)
                           THEN {v \in Users \ {c.u} : ActiveAdmin(v)} ELSE {}
  OBVIOUS
<1>4. PICK d : d = [c EXCEPT !.at = IF Losing(users[c.u], c.patch) THEN "counting" ELSE "deciding",
                             !.row = users[c.u], !.todo = todo]
  OBVIOUS
<1>5. todo \in SUBSET Users /\ c.u \notin todo
  BY <1>3
<1>6. d \in Call
  BY <1>2, <1>4, <1>5 DEF Call
<1>7. /\ d.at = IF Losing(users[c.u], c.patch) THEN "counting" ELSE "deciding"
      /\ d.u = c.u /\ d.patch = c.patch /\ d.row = users[c.u] /\ d.todo = todo
      /\ d.others = c.others
  BY <1>2, <1>4 DEF Call
<1>8. \A v \in c.others : ActiveAdmin(v) /\ v # c.u /\ Holds(p, v)
  BY <1>1 DEF IInv, OthersStand, Holds
<1>9. Free(p, c.u) /\ users[c.u] # None
  BY <1>1, <1>2 DEF LockUser, IInv, CallsOK
<1>10. \A v \in Users : Holds(p, v) => Free(p, v)
  BY DEF IInv, LocksExclusive, Free
<1>11. Sound(p, d)
  BY <1>2, <1>5, <1>7, <1>8, <1>9, <1>10 DEF Sound
<1>12. users' = users /\ call' = [call EXCEPT ![p] = d]
  BY <1>1, <1>3, <1>4 DEF LockUser
<1> QED
  BY <1>6, <1>11, <1>12, SoundSteps

LEMMA LockOtherKeeps ==
    ASSUME IInv, NEW p \in Procs, NEW u \in Users, LockOther(p, u)
    PROVE  IInv'
<1>1. PICK c : c = call[p]
  OBVIOUS
<1>2. c \in Call /\ c.at = "counting" /\ u \in c.todo /\ Free(p, u)
  BY <1>1 DEF LockOther, IInv, TypeOK
<1>3. PICK d : d = [c EXCEPT !.todo = @ \ {u},
                             !.others = IF ActiveAdmin(u) THEN @ \cup {u} ELSE @]
  OBVIOUS
<1>4. d \in Call
  BY <1>2, <1>3 DEF Call
<1>5. /\ d.at = "counting" /\ d.u = c.u /\ d.patch = c.patch /\ d.row = c.row
      /\ d.todo = c.todo \ {u}
      /\ d.others = IF ActiveAdmin(u) THEN c.others \cup {u} ELSE c.others
  BY <1>2, <1>3 DEF Call
<1>6. \A v \in Users : Holds(p, v) => Free(p, v)
  BY DEF IInv, LocksExclusive, Free
<1>7. \A v \in Users : (c.u = v \/ v \in c.others) => Free(p, v)
  BY <1>1, <1>2, <1>6 DEF Holds
<1>8. /\ c.u \in Users /\ users[c.u] # None /\ c.patch \in Patch /\ users[c.u] = c.row
      /\ c.u \notin c.todo
      /\ \A v \in c.others : ActiveAdmin(v) /\ v # c.u
  BY <1>1, <1>2 DEF IInv, CallsOK, RowsStand, OthersStand
<1>9. Sound(p, d)
  BY <1>2, <1>5, <1>7, <1>8 DEF Sound
<1>10. users' = users /\ call' = [call EXCEPT ![p] = d]
  BY <1>1, <1>3 DEF LockOther
<1> QED
  BY <1>4, <1>9, <1>10, SoundSteps

LEMMA CountedKeeps ==
    ASSUME IInv, NEW p \in Procs, Counted(p)
    PROVE  IInv'
<1>1. PICK c : c = call[p]
  OBVIOUS
<1>2. c \in Call /\ c.at = "counting" /\ users' = users
  BY <1>1 DEF Counted, IInv, TypeOK
<1>3. CASE c.others = {}
  BY <1>1, <1>2, <1>3, FinishKeeps DEF Counted
<1>4. CASE c.others # {}
  <2>1. PICK d : d = [c EXCEPT !.at = "deciding"]
    OBVIOUS
  <2>2. d \in Call
    BY <1>2, <2>1 DEF Call
  <2>3. /\ d.at = "deciding" /\ d.u = c.u /\ d.patch = c.patch /\ d.row = c.row
        /\ d.todo = c.todo /\ d.others = c.others
    BY <1>2, <2>1 DEF Call
  <2>4. \A v \in Users : (c.u = v \/ v \in c.others) => Free(p, v)
    BY <1>1, <1>2 DEF IInv, LocksExclusive, Free, Holds
  <2>5. /\ c.u \in Users /\ users[c.u] # None /\ c.patch \in Patch /\ users[c.u] = c.row
        /\ c.u \notin c.todo
        /\ \A v \in c.others : ActiveAdmin(v) /\ v # c.u
    BY <1>1, <1>2 DEF IInv, CallsOK, RowsStand, OthersStand
  <2>6. Sound(p, d)
    BY <1>4, <2>3, <2>4, <2>5 DEF Sound
  <2>7. call' = [call EXCEPT ![p] = d]
    BY <1>1, <1>4, <2>1 DEF Counted
  <2> QED
    BY <1>2, <2>2, <2>6, <2>7, SoundSteps
<1> QED
  BY <1>3, <1>4

LEMMA PasswordReadKeeps ==
    ASSUME IInv, NEW p \in Procs, NEW u \in Users, PasswordRead(p, u)
    PROVE  IInv'
<1>1. PICK d : d = [Idle EXCEPT !.at = "passwordRead", !.u = u, !.row = users[u]]
  OBVIOUS
<1>2. users[u] \in User /\ users[u] # None
  BY DEF PasswordRead, IInv, TypeOK
<1>3. d \in Call
  BY <1>1, <1>2, NoUserAssumption DEF Idle, Call
<1>4. Sound(p, d)
  BY <1>1, <1>2 DEF Sound, Idle
<1>5. users' = users /\ call' = [call EXCEPT ![p] = d]
  BY <1>1 DEF PasswordRead
<1> QED
  BY <1>3, <1>4, <1>5, SoundSteps

LEMMA SaveReloadKeeps ==
    ASSUME IInv, SavesAreTimely, NEW p \in Procs, SaveReload(p)
    PROVE  IInv'
<1>1. PICK c : c = call[p]
  OBVIOUS
<1>2. /\ c \in Call /\ c.at = "passwordRead" /\ c.u \in Users /\ users[c.u] \in User
      /\ users[c.u] # None /\ users[c.u] = c.row
  BY <1>1 DEF SaveReload, IInv, TypeOK, CallsOK, SavesAreTimely
<1>3. PICK d : d = [c EXCEPT !.at = "saving", !.base = users[c.u]]
  OBVIOUS
<1>4. d \in Call
  BY <1>2, <1>3 DEF Call
<1>5. /\ d.at = "saving" /\ d.u = c.u /\ d.row = c.row /\ d.base = users[c.u]
      /\ d.todo = c.todo /\ d.others = c.others
  BY <1>2, <1>3 DEF Call
<1>6. /\ c.u \notin c.todo
      /\ \A v \in c.others : ActiveAdmin(v) /\ v # c.u
  BY <1>1 DEF IInv, OthersStand
<1>7. \A v \in Users : v \in c.others => Free(p, v)
  BY <1>1 DEF IInv, LocksExclusive, Free, Holds
<1>8. Sound(p, d)
  BY <1>2, <1>5, <1>6, <1>7 DEF Sound
<1>9. users' = users /\ call' = [call EXCEPT ![p] = d]
  BY <1>1, <1>3 DEF SaveReload
<1> QED
  BY <1>4, <1>8, <1>9, SoundSteps

LEMMA SaveWriteKeeps ==
    ASSUME IInv, SavesAreTimely, NEW p \in Procs, SaveWrite(p)
    PROVE  IInv'
<1>1. PICK c : c = call[p]
  OBVIOUS
<1>2. /\ c.at = "saving" /\ c.u \in Users /\ users[c.u] \in User
      /\ c.base = c.row
  BY <1>1 DEF SaveWrite, IInv, TypeOK, CallsOK, SavesAgree
<1>3. users' = [users EXCEPT ![c.u] = Merged(@, c.base, c.row)]
  BY <1>1 DEF SaveWrite
<1>4. Merged(users[c.u], c.base, c.row) = users[c.u]
  BY <1>2, MergedIsNow
<1>5. users' = users
  BY <1>2, <1>3, <1>4 DEF IInv, TypeOK
<1> QED
  BY <1>5, FinishKeeps DEF SaveWrite

LEMMA CrashKeeps ==
    ASSUME IInv, NEW p \in Procs, Crash(p)
    PROVE  IInv'
  BY FinishKeeps DEF Crash

\* The row that is written is one that nobody else has read under a lock; if it was
\* an active administrator's and is no longer, one of those found is still there.
LEMMA UpdateCommitKeeps ==
    ASSUME IInv, NEW p \in Procs, UpdateCommit(p)
    PROVE  IInv'
<1>1. PICK c : c = call[p]
  OBVIOUS
<1>2. /\ c \in Call /\ c.at = "deciding" /\ c.u \in Users /\ c.patch \in Patch
      /\ users[c.u] \in User /\ users[c.u] # None /\ c.row = users[c.u]
  BY <1>1 DEF UpdateCommit, IInv, TypeOK, CallsOK, RowsStand
<1>3. call' = [call EXCEPT ![p] = Idle]
  BY DEF UpdateCommit
<1>4. CASE users' = users
  BY <1>3, <1>4, FinishKeeps
<1>5. CASE users' = [users EXCEPT ![c.u] = Patched(c.row, c.patch)]
  <2>1. Patched(c.row, c.patch) \in User
    BY <1>2, PatchedIsUser
  <2>2. /\ users' \in [Users -> User \cup {None}]
        /\ users'[c.u] = Patched(c.row, c.patch) /\ users'[c.u] # None
        /\ \A v \in Users \ {c.u} : users'[v] = users[v]
    BY <1>2, <1>5, <2>1, NoUserAssumption DEF IInv, TypeOK
  <2>3. call'[p] = Idle /\ \A q \in Procs \ {p} : call'[q] = call[q]
    BY <1>3 DEF IInv, TypeOK
  <2>4. TypeOK'
    BY <1>3, <2>2, IdleIsSound DEF IInv, TypeOK
  <2>5. Idle.at = "idle" /\ Idle.others = {} /\ Idle.todo = {}
    BY DEF Idle
  <2>6. CallsOK'
    BY <2>2, <2>3, <2>5 DEF IInv, CallsOK
  <2>7. \A q \in Procs, v \in Users : Holds(q, v)' => q # p /\ Holds(q, v)
    BY <2>3, <2>5 DEF Holds
  <2>8. LocksExclusive'
    BY <2>7 DEF IInv, LocksExclusive
  <2>9. \A q \in Procs \ {p} : ~ Holds(q, c.u)
    BY <1>1, <1>2 DEF IInv, LocksExclusive, Holds
  <2>10. RowsStand'
    <3> SUFFICES ASSUME NEW q \in Procs, call'[q].at \in {"counting", "deciding"}
                 PROVE  users'[call'[q].u] = call'[q].row
      BY DEF RowsStand
    <3>1. q # p /\ call'[q] = call[q]
      BY <2>3, <2>5
    <3>2. call[q].u \in Users /\ call[q].u # c.u
      BY <2>9, <3>1 DEF IInv, CallsOK, Holds
    <3> QED
      BY <2>2, <3>1, <3>2 DEF IInv, RowsStand
  <2>11. \A q \in Procs : call[q].others \in SUBSET Users
    BY DEF IInv, TypeOK, Call
  <2>12. \A v \in Users \ {c.u} : ActiveAdmin(v) => ActiveAdmin(v)'
    BY <2>2 DEF ActiveAdmin
  <2>13. OthersStand'
    <3> SUFFICES ASSUME NEW q \in Procs
                 PROVE  /\ call'[q].u \notin call'[q].todo
                        /\ \A v \in call'[q].others : ActiveAdmin(v)' /\ v # call'[q].u
      BY DEF OthersStand
    <3>1. CASE q = p
      BY <2>3, <2>5, <3>1
    <3>2. CASE q # p
      <4>1. call'[q] = call[q]
        BY <2>3, <3>2
      <4>2. \A v \in call[q].others : v # c.u /\ v \in Users
        BY <2>9, <2>11, <3>2 DEF Holds
      <4> QED
        BY <2>12, <4>1, <4>2 DEF IInv, OthersStand
    <3> QED
      BY <3>1, <3>2
  <2>14. LossIsCovered' /\ SavesAgree'
    BY <2>3, <2>5 DEF IInv, LossIsCovered, SavesAgree
  <2>15. AnAdminRemains'
    <3>1. CASE Losing(c.row, c.patch)
      <4>1. PICK v \in c.others : ActiveAdmin(v) /\ v # c.u
        BY <1>1, <1>2, <3>1 DEF IInv, LossIsCovered, OthersStand
      <4>2. v \in Users \ {c.u}
        BY <1>1, <2>11, <4>1
      <4> QED
        BY <2>12, <4>1, <4>2 DEF AnAdminRemains
    <3>2. CASE ~ Losing(c.row, c.patch)
      <4>1. PICK v \in Users : ActiveAdmin(v)
        BY DEF IInv, AnAdminRemains
      <4>2. CASE v # c.u
        BY <2>12, <4>1, <4>2 DEF AnAdminRemains
      <4>3. CASE v = c.u
        <5>1. c.row.role = "admin" /\ c.row.active
          BY <1>2, <4>1, <4>3 DEF ActiveAdmin
        <5>2. /\ Patched(c.row, c.patch).role = "admin"
              /\ Patched(c.row, c.patch).active
          BY <1>2, <3>2, <5>1, PatchedStaysAdmin
        <5> QED
          BY <1>2, <2>2, <5>2 DEF AnAdminRemains, ActiveAdmin
      <4> QED
        BY <4>2, <4>3
    <3> QED
      BY <3>1, <3>2
  <2> QED
    BY <2>4, <2>6, <2>8, <2>10, <2>13, <2>14, <2>15 DEF IInv
<1> QED
  BY <1>1, <1>4, <1>5 DEF UpdateCommit

-----------------------------------------------------------------------------
LEMMA InitHolds == Init => IInv
<1> SUFFICES ASSUME Init
             PROVE  IInv
  OBVIOUS
<1>1. PICK first \in Users :
        users = [u \in Users |-> IF u = first THEN [role |-> "admin", active |-> TRUE] ELSE None]
  BY DEF Init
<1>2. \A p \in Procs : call[p] = Idle
  BY DEF Init
<1>3. Idle.at = "idle" /\ Idle.others = {} /\ Idle.todo = {}
  BY DEF Idle
<1>4. TypeOK
  <2>1. [role |-> "admin", active |-> TRUE] \in User
    BY DEF User, Role
  <2> QED
    BY <1>1, <2>1, IdleIsSound DEF Init, TypeOK
<1>5. CallsOK /\ RowsStand /\ OthersStand /\ LossIsCovered /\ SavesAgree
  BY <1>2, <1>3 DEF CallsOK, RowsStand, OthersStand, LossIsCovered, SavesAgree
<1>6. LocksExclusive
  BY <1>2, <1>3 DEF LocksExclusive, Holds
<1>7. AnAdminRemains
  <2>1. users[first] = [role |-> "admin", active |-> TRUE]
    BY <1>1
  <2>2. users[first] \in User
    BY <2>1 DEF User, Role
  <2>3. users[first] # None
    BY <2>2, NoUserAssumption
  <2> QED
    BY <2>1, <2>3 DEF AnAdminRemains, ActiveAdmin
<1> QED
  BY <1>4, <1>5, <1>6, <1>7 DEF IInv

LEMMA StepKeeps == IInv /\ SavesAreTimely /\ [Next]_vars => IInv'
<1> SUFFICES ASSUME IInv, SavesAreTimely, [Next]_vars
             PROVE  IInv'
  OBVIOUS
<1>1. ASSUME NEW p \in Procs, NEW u \in Users, NEW role \in Role, Create(p, u, role)
      PROVE  IInv'
  BY <1>1, CreateKeeps
<1>2. ASSUME NEW p \in Procs, NEW a \in Users, NEW u \in Users, NEW patch \in Patch,
             Update(p, a, u, patch)
      PROVE  IInv'
  BY <1>2, UpdateKeeps
<1>3. ASSUME NEW p \in Procs, NEW u \in Users, PasswordRead(p, u)
      PROVE  IInv'
  BY <1>3, PasswordReadKeeps
<1>4. ASSUME NEW p \in Procs, Continue(p)
      PROVE  IInv'
  BY <1>4, LockUserKeeps, LockOtherKeeps, CountedKeeps, UpdateCommitKeeps, SaveReloadKeeps,
     SaveWriteKeeps DEF Continue
<1>5. ASSUME NEW p \in Procs, Crash(p)
      PROVE  IInv'
  BY <1>5, CrashKeeps
<1>6. CASE UNCHANGED vars
  BY <1>6 DEF vars, IInv, TypeOK, CallsOK, LocksExclusive, Holds, RowsStand, OthersStand,
     LossIsCovered, SavesAgree, AnAdminRemains, ActiveAdmin
<1> QED
  BY <1>1, <1>2, <1>3, <1>4, <1>5, <1>6 DEF Next

\* However many updates race, wait for each other and die, an active administrator
\* remains, unless a password is saved with a row that has changed since it was read.
THEOREM AdminRemains == Spec => TimelySavesKeepAnAdmin
<1>1. IInv => AnAdminRemains
  BY DEF IInv
<1> QED
  BY <1>1, InitHolds, StepKeeps, PTL DEF Spec, TimelySavesKeepAnAdmin

=============================================================================
