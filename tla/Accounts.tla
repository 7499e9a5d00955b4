------------------------------ MODULE Accounts ------------------------------
(***************************************************************************)
(* UsersService: the accounts of administrators, operators and auditors.    *)
(*                                                                         *)
(* update() is a transaction that locks the row it changes and, where an    *)
(* administrator would be lost, the rows of the other administrators, so it *)
(* is split at each of these statements.  resetPassword() and               *)
(* changeOwnPassword() lock nothing: they read the row, hash, and save() it. *)
(*                                                                         *)
(* Passwords and emails are left out: every change of a password writes a   *)
(* new hash, and a user is its email.  An auditor is an operator here.      *)
(***************************************************************************)
EXTENDS Naturals

CONSTANTS
    Users,
    Procs,         \* concurrent calls the server has in flight
    None           \* SQL NULL, and a column a patch does not name

VARIABLES
    users,         \* the rows, None where there is none
    call           \* what each process is serving

vars == <<users, call>>

-----------------------------------------------------------------------------
Role == {"admin", "operator"}

User == [role: Role, active: BOOLEAN]

ASSUME NoUserAssumption == None \notin User \cup Users \cup Role \cup BOOLEAN

\* UpdateUserDto: an empty one is refused.
Patch ==
    {patch \in [role: Role \cup {None}, active: BOOLEAN \cup {None}] :
        patch.role # None \/ patch.active # None}

\* What a call holds across its awaits: the row it is about, whether that is the
\* caller's own, the row as it read it (base: as save() read it again) and, for
\* update(), the other administrators it has still to lock and those it has locked.
Call ==
    [at: {"idle", "admitted", "counting", "deciding", "passwordRead", "saving"},
     u: Users \cup {None}, own: BOOLEAN, patch: Patch \cup {None},
     row: User \cup {None}, base: User \cup {None},
     todo: SUBSET Users, others: SUBSET Users]

Idle ==
    [at |-> "idle", u |-> None, own |-> FALSE, patch |-> None, row |-> None, base |-> None,
     todo |-> {}, others |-> {}]

TypeOK ==
    /\ users \in [Users -> User \cup {None}]
    /\ call \in [Procs -> Call]

ActiveAdmin(u) == users[u] # None /\ users[u].role = "admin" /\ users[u].active

\* The first administrator comes with the deployment.
Init ==
    /\ \E first \in Users :
         users = [u \in Users |-> IF u = first THEN [role |-> "admin", active |-> TRUE] ELSE None]
    /\ call = [p \in Procs |-> Idle]

-----------------------------------------------------------------------------
(* Row locks                                                               *)

Holds(p, u) ==
    \/ call[p].at \in {"counting", "deciding"} /\ call[p].u = u
    \/ u \in call[p].others

Free(p, u) == \A q \in Procs \ {p} : ~ Holds(q, u)

-----------------------------------------------------------------------------
\* JwtAuthGuard: the row of the caller decides, not the token.
Admitted(a, mustBe) == users[a] # None /\ users[a].active /\ users[a].role \in mustBe

\* POST /users; the email is unique.
Create(p, u, role) ==
    /\ call[p].at = "idle"
    /\ \E a \in Users : Admitted(a, {"admin"})
    /\ users[u] = None
    /\ users' = [users EXCEPT ![u] = [role |-> role, active |-> TRUE]]
    /\ UNCHANGED call

\* PATCH /users/:id
Update(p, a, u, patch) ==
    /\ call[p].at = "idle"
    /\ Admitted(a, {"admin"})
    /\ users[u] # None
    /\ call' = [call EXCEPT ![p] =
          [Idle EXCEPT !.at = "admitted", !.u = u, !.own = (a = u), !.patch = patch]]
    /\ UNCHANGED users

\* Slip: a deactivated administrator is not lost.
LosingByRole(row, patch) == row.role = "admin" /\ patch.role \notin {None, "admin"}

Losing(row, patch) ==
    /\ row.role = "admin"
    /\ patch.role \notin {None, "admin"} \/ patch.active = FALSE

\* SELECT ... FOR UPDATE of the row.  If an administrator may be lost, the next
\* statement is the SELECT of the others; whom it finds is decided when it starts.
LockUser(p) ==
    /\ call[p].at = "admitted"
    /\ Free(p, call[p].u)
    /\ LET row == users[call[p].u]
       IN call' = [call EXCEPT ![p].at = IF Losing(row, call[p].patch) THEN "counting" ELSE "deciding",
                               ![p].row = row,
                               ![p].todo = IF Losing(row, call[p].patch)
                                             THEN {u \in Users \ {call[p].u} : ActiveAdmin(u)}
                                             ELSE {}]
    /\ UNCHANGED users

\* ... FOR UPDATE locks what it has found, one row after the other; a row that has
\* changed while it waited is looked at again, and left out if it no longer fits.
LockOther(p, u) ==
    /\ call[p].at = "counting"
    /\ u \in call[p].todo
    /\ Free(p, u)
    /\ call' = [call EXCEPT ![p].todo = @ \ {u},
                            ![p].others = IF ActiveAdmin(u) THEN @ \cup {u} ELSE @]
    /\ UNCHANGED users

\* "this is the last active admin" when nobody else is.
Counted(p) ==
    /\ call[p].at = "counting"
    /\ call[p].todo = {}
    /\ call' = [call EXCEPT ![p] = IF call[p].others = {} THEN Idle ELSE [@ EXCEPT !.at = "deciding"]]
    /\ UNCHANGED users

\* Nobody deactivates themselves or changes their own role.
LocksOneselfOut(row, patch) == patch.active = FALSE \/ patch.role \notin {None, row.role}

Patched(row, patch) ==
    [role   |-> IF patch.role = None THEN row.role ELSE patch.role,
     active |-> IF patch.active = None THEN row.active ELSE patch.active]

\* The row is written and the transaction commits, or is given up.
UpdateCommit(p) ==
    /\ call[p].at = "deciding"
    /\ LET c == call[p]
       IN IF c.own /\ LocksOneselfOut(c.row, c.patch)
            THEN UNCHANGED users
            ELSE users' = [users EXCEPT ![c.u] = Patched(c.row, c.patch)]
    /\ call' = [call EXCEPT ![p] = Idle]

-----------------------------------------------------------------------------
\* POST /users/:id/password by an administrator, POST /auth/password by the user.
PasswordRead(p, u) ==
    /\ call[p].at = "idle"
    /\ users[u] # None
    /\ Admitted(u, Role) \/ \E a \in Users : Admitted(a, {"admin"})
    /\ call' = [call EXCEPT ![p] = [Idle EXCEPT !.at = "passwordRead", !.u = u, !.row = users[u]]]
    /\ UNCHANGED users

\* TypeORM's save() of a loaded entity: it reads the row again ...
SaveReload(p) ==
    /\ call[p].at = "passwordRead"
    /\ call' = [call EXCEPT ![p].at = "saving", ![p].base = users[call[p].u]]
    /\ UNCHANGED users

\* ... and updates the columns in which the entity differs from what it read.
Merged(now, base, row) ==
    [role   |-> IF row.role # base.role THEN row.role ELSE now.role,
     active |-> IF row.active # base.active THEN row.active ELSE now.active]

SaveWrite(p) ==
    /\ call[p].at = "saving"
    /\ Free(p, call[p].u)
    /\ users' = [users EXCEPT ![call[p].u] = Merged(@, call[p].base, call[p].row)]
    /\ call' = [call EXCEPT ![p] = Idle]

-----------------------------------------------------------------------------
\* The call dies and its transaction is rolled back: the server stops, or PostgreSQL ends
\* one of two calls that wait for each other's rows.
Crash(p) ==
    /\ call[p].at # "idle"
    /\ call' = [call EXCEPT ![p] = Idle]
    /\ UNCHANGED users

Continue(p) ==
    \/ LockUser(p) \/ Counted(p) \/ UpdateCommit(p) \/ SaveReload(p) \/ SaveWrite(p)
    \/ \E u \in Users : LockOther(p, u)

Next ==
    \E p \in Procs :
        \/ \E u \in Users :
             \/ \E role \in Role : Create(p, u, role)
             \/ \E a \in Users, patch \in Patch : Update(p, a, u, patch)
             \/ PasswordRead(p, u)
        \/ Continue(p) \/ Crash(p)

Spec == Init /\ [][Next]_vars

-----------------------------------------------------------------------------
\* update() locks so that two administrators "demoting each other at the same moment
\* cannot both pass the last-admin check and leave the deployment with nobody able to
\* manage it".
AnAdminRemains == \E u \in Users : ActiveAdmin(u)

\* No password is about to be saved with a row that has changed since it was read.
SavesAreTimely ==
    \A p \in Procs :
        call[p].at \in {"passwordRead", "saving"} => users[call[p].u] = call[p].row

\* They do not, however updates race, wait for each other and die, unless a password
\* is saved with a row that is out of date.
TimelySavesKeepAnAdmin == []SavesAreTimely => []AnAdminRemains

=============================================================================
