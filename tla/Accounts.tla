------------------------------ MODULE Accounts ------------------------------
(***************************************************************************)
(* Accounts, media and requester profiles: UsersService (src/modules/iam),  *)
(* MediaService and its facade (src/modules/media), MediaDeskService        *)
(* (src/modules/media-desk) and the guards in front of them.  An action is  *)
(* what a handler does between two awaits; the guards' read of the account  *)
(* of the caller is the first.                                              *)
(*                                                                         *)
(* A row of users is [email, role, active]: role None is a requester (kind  *)
(* REQUESTER), every other role is staff; active is status ACTIVE.  A       *)
(* profile is stored under the account it belongs to.  A medium is its name *)
(* (with its country).  Passwords, sessions and the lock are in Sessions.   *)
(***************************************************************************)
EXTENDS Naturals, FiniteSets

CONSTANTS
  Handlers,     \* handlers that may be in flight at the same time
  Users,        \* identifiers of User rows, numbers in the order of creation (bound)
  Emails,       \* addresses, with those of the seed
  Media,        \* identifiers of Media rows (bound)
  Names,        \* names of media, with that of the seed
  Subjects,     \* identifiers of requests that documents are attached to
  Documents,    \* identifiers of documents and of their objects (bound)
  MaxCommands,  \* bound: calls
  None,
  Failures      \* whether awaits may throw

ASSUME AccountBounds == MaxCommands \in Nat
ASSUME AccountFlags == Failures \in BOOLEAN
ASSUME UsersAssumption == Users \subseteq Nat
ASSUME NoneAssumption ==
  None \notin Users \cup Emails \cup Media \cup Names \cup Subjects \cup Documents

VARIABLES
  user,      \* User rows
  gone,      \* identifiers of deleted users, which no row gets again
  profile,   \* RequesterProfile rows: the medium and isEditorInChief
  media,     \* Media rows
  authors,   \* accounts that decisions, complements or scans refer to
  commands,  \* calls so far
  handler

accountVars == <<user, gone, profile, media, authors>>

Staff == {"ADMIN", "RESPONSABLE_ACCREDITATION", "COMMISSION_VALIDATION"}

UserRows == [email : Emails, role : Staff \cup {None}, active : BOOLEAN]
ProfileRows == [media : Media, editor : BOOLEAN]

ASSUME NoRowAssumption == None \notin UserRows \cup ProfileRows \cup Staff

\* The permissions the modelled routes ask for.
ROLE_PERMISSIONS ==
  [ ADMIN |-> {"users:manage", "media:manage", "requests:validate"},
    RESPONSABLE_ACCREDITATION |-> {"media:manage", "requests:validate"},
    COMMISSION_VALIDATION |-> {"requests:validate"} ]

Exists(u) == user[u] # None
IsStaff(u) == Exists(u) /\ user[u].role # None
Active(u) == Exists(u) /\ user[u].active

\* JwtStrategy.validate reads the account again, PermissionsGuard looks the
\* permission up.
May(a, permission) ==
  Active(a) /\ user[a].role # None /\ permission \in ROLE_PERMISSIONS[user[a].role]

IdleHandler ==
  [ pc |-> "idle", actor |-> None, target |-> None, email |-> None, role |-> None,
    media |-> None, name |-> None, on |-> FALSE ]

Places ==
  {"idle", "address", "createUser", "profileMedia", "profileWrite", "editor",
   "roleFind", "roleWrite", "statusFind", "statusWrite", "deleteFind", "deleteWrite",
   "mediaFind", "mediaCreate", "mediaRead", "mediaRename", "flagFind", "flagWrite",
   "uploadOwner", "uploadFind", "uploadPut", "uploadWrite", "reviewFind", "reviewWrite"}

HandlerStates ==
  [ pc : Places, actor : Users \cup {None},
    target : Users \cup Subjects \cup Documents \cup {None},
    email : Emails \cup {None}, role : Staff \cup {None}, media : Media \cup Documents \cup {None},
    name : Names \cup Documents \cup {None}, on : BOOLEAN ]

At(p, place) == handler[p].pc = place
Become(p, state) == handler' = [handler EXCEPT ![p] = state]
Goto(p, place) == Become(p, [handler[p] EXCEPT !.pc = place])
Return(p) == Become(p, IdleHandler)

\* A call arrives.
Call(p, call) ==
  /\ At(p, "idle") /\ commands < MaxCommands
  /\ Become(p, call)
  /\ commands' = commands + 1

Arrives(p, call) == Call(p, call) /\ UNCHANGED accountVars

-----------------------------------------------------------------------------
(* Registration                                                            *)

Register(p, email, m) ==
  Arrives(p, [IdleHandler EXCEPT !.pc = "address", !.email = email, !.media = m])

\* addJournalist: assertEditor reads the profile of the caller.
AddJournalist(p, a, email) ==
  /\ Active(a)
  /\ Arrives(p, [IdleHandler EXCEPT !.pc = "editor", !.actor = a, !.email = email])

AssertEditor(p) ==
  /\ At(p, "editor")
  /\ LET own == profile[handler[p].actor] IN
     IF own # None /\ own.editor
     THEN Become(p, [handler[p] EXCEPT !.pc = "address", !.media = own.media])
     ELSE Return(p)
  /\ UNCHANGED <<accountVars, commands>>

CreateStaffUser(p, a, email, role) ==
  /\ May(a, "users:manage")
  /\ Arrives(p, [IdleHandler EXCEPT !.pc = "address", !.actor = a, !.email = email, !.role = role])

Taken(email) == \E u \in Users : Exists(u) /\ user[u].email = email

\* findByEmail
FindAddress(p) ==
  /\ At(p, "address")
  /\ IF Taken(handler[p].email) THEN Return(p) ELSE Goto(p, "createUser")
  /\ UNCHANGED <<accountVars, commands>>

\* A row under the next identifier.
NewUser(u, email, role) ==
  /\ ~Exists(u) /\ u \notin gone
  /\ \A v \in Users : v < u => Exists(v) \/ v \in gone
  /\ user' = [user EXCEPT ![u] = [email |-> email, role |-> role, active |-> TRUE]]

\* Plausible bug: the address has no unique key, only the lookup before.
CreateUser_NoUniqueKey(p) ==
  /\ At(p, "createUser")
  /\ \E u \in Users :
       /\ NewUser(u, handler[p].email, handler[p].role)
       /\ IF handler[p].role = None
          THEN Become(p, [handler[p] EXCEPT !.pc = "profileMedia", !.target = u])
          ELSE Return(p)
  /\ UNCHANGED <<gone, profile, media, authors, commands>>

\* The unique key of the address refuses a second row.  A requester goes on to
\* its profile, in another service and without a transaction.
CreateUser(p) ==
  /\ At(p, "createUser") /\ ~Taken(handler[p].email)
  /\ \E u \in Users :
       /\ NewUser(u, handler[p].email, handler[p].role)
       /\ IF handler[p].role = None
          THEN Become(p, [handler[p] EXCEPT !.pc = "profileMedia", !.target = u])
          ELSE Return(p)
  /\ UNCHANGED <<gone, profile, media, authors, commands>>

\* createRequesterProfile: getMedia throws for an unknown medium, and the
\* account stays without profile.
ProfileMedia(p) ==
  /\ At(p, "profileMedia")
  /\ IF media[handler[p].media] # None THEN Goto(p, "profileWrite") ELSE Return(p)
  /\ UNCHANGED <<accountVars, commands>>

ProfileWrite(p) ==
  /\ At(p, "profileWrite") /\ Exists(handler[p].target)
  /\ profile' = [profile EXCEPT ![handler[p].target] = [media |-> handler[p].media, editor |-> FALSE]]
  /\ Return(p)
  /\ UNCHANGED <<user, gone, media, authors, commands>>

-----------------------------------------------------------------------------
(* Administration of accounts                                              *)

UpdateStaffUser(p, a, u, role) ==
  /\ May(a, "users:manage")
  /\ Arrives(p, [IdleHandler EXCEPT !.pc = "roleFind", !.actor = a, !.target = u, !.role = role])

\* Only staff has a role; nothing keeps an administrator from changing its own.
RoleFind(p) ==
  /\ At(p, "roleFind")
  /\ IF IsStaff(handler[p].target) THEN Goto(p, "roleWrite") ELSE Return(p)
  /\ UNCHANGED <<accountVars, commands>>

RoleWrite(p) ==
  /\ At(p, "roleWrite") /\ Exists(handler[p].target)
  /\ user' = [user EXCEPT ![handler[p].target].role = handler[p].role]
  /\ Return(p)
  /\ UNCHANGED <<gone, profile, media, authors, commands>>

UpdateStatus(p, a, u, active) ==
  /\ May(a, "users:manage")
  /\ Arrives(p, [IdleHandler EXCEPT !.pc = "statusFind", !.actor = a, !.target = u, !.on = active])

DeleteStaffUser(p, a, u) ==
  /\ May(a, "users:manage")
  /\ Arrives(p, [IdleHandler EXCEPT !.pc = "deleteFind", !.actor = a, !.target = u])

\* findById, and nobody suspends or deletes its own account; two administrators
\* may suspend or delete each other at once, and none is left.
TargetFind(p, from, to) ==
  /\ At(p, from)
  /\ IF Exists(handler[p].target) /\ handler[p].target # handler[p].actor
     THEN Goto(p, to)
     ELSE Return(p)
  /\ UNCHANGED <<accountVars, commands>>

StatusWrite(p) ==
  /\ At(p, "statusWrite") /\ Exists(handler[p].target)
  /\ user' = [user EXCEPT ![handler[p].target].active = handler[p].on]
  /\ Return(p)
  /\ UNCHANGED <<gone, profile, media, authors, commands>>

\* A decision, a complement or a scan, or anything else a row keeps for good
\* under the account of its author (foreign keys that restrict deletion).
LeaveHistory(a) ==
  /\ Active(a) /\ user[a].role # None /\ commands < MaxCommands
  /\ authors' = authors \cup {a}
  /\ commands' = commands + 1
  /\ UNCHANGED <<user, gone, profile, media, handler>>

-----------------------------------------------------------------------------
(* Media and profiles                                                      *)

CreateMedia(p, a, name) ==
  /\ May(a, "media:manage")
  /\ Arrives(p, [IdleHandler EXCEPT !.pc = "mediaFind", !.actor = a, !.name = name])

\* The lookup is all there is: names have no unique key, and two calls at once
\* create twins.
MediaFind(p) ==
  /\ At(p, "mediaFind")
  /\ IF \E m \in Media : media[m] = handler[p].name THEN Return(p) ELSE Goto(p, "mediaCreate")
  /\ UNCHANGED <<accountVars, commands>>

MediaCreate(p) ==
  /\ At(p, "mediaCreate")
  /\ \E m \in Media : media[m] = None /\ media' = [media EXCEPT ![m] = handler[p].name]
  /\ Return(p)
  /\ UNCHANGED <<user, gone, profile, authors, commands>>

UpdateMedia(p, a, m, name) ==
  /\ May(a, "media:manage")
  /\ Arrives(p, [IdleHandler EXCEPT !.pc = "mediaRead", !.actor = a, !.media = m, !.name = name])

\* Plausible bug: a medium that does not exist is renamed.
MediaRead_NoCheck(p) ==
  /\ At(p, "mediaRead")
  /\ Goto(p, "mediaRename")
  /\ UNCHANGED <<accountVars, commands>>

\* getMedia; a medium may be renamed to the name of another.
MediaRead(p) ==
  /\ At(p, "mediaRead")
  /\ IF media[handler[p].media] # None THEN Goto(p, "mediaRename") ELSE Return(p)
  /\ UNCHANGED <<accountVars, commands>>

MediaRename(p) ==
  /\ At(p, "mediaRename")
  /\ media' = [media EXCEPT ![handler[p].media] = handler[p].name]
  /\ Return(p)
  /\ UNCHANGED <<user, gone, profile, authors, commands>>

UpdateEditorInChiefFlag(p, a, u, flag) ==
  /\ May(a, "media:manage")
  /\ Arrives(p, [IdleHandler EXCEPT !.pc = "flagFind", !.actor = a, !.target = u, !.on = flag])

FlagFind(p) ==
  /\ At(p, "flagFind")
  /\ IF profile[handler[p].target] # None THEN Goto(p, "flagWrite") ELSE Return(p)
  /\ UNCHANGED <<accountVars, commands>>

FlagWrite(p) ==
  /\ At(p, "flagWrite") /\ profile[handler[p].target] # None
  /\ profile' = [profile EXCEPT ![handler[p].target].editor = handler[p].on]
  /\ Return(p)
  /\ UNCHANGED <<user, gone, media, authors, commands>>

-----------------------------------------------------------------------------
AccountCalls(p) ==
  \/ \E email \in Emails, m \in Media : Register(p, email, m)
  \/ \E a \in Users :
       \/ \E email \in Emails : AddJournalist(p, a, email)
       \/ \E email \in Emails, role \in Staff : CreateStaffUser(p, a, email, role)
       \/ \E u \in Users, role \in Staff : UpdateStaffUser(p, a, u, role)
       \/ \E u \in Users, on \in BOOLEAN : UpdateStatus(p, a, u, on)
       \/ \E u \in Users : DeleteStaffUser(p, a, u)
       \/ \E name \in Names : CreateMedia(p, a, name)
       \/ \E m \in Media, name \in Names : UpdateMedia(p, a, m, name)
       \/ \E u \in Users, flag \in BOOLEAN : UpdateEditorInChiefFlag(p, a, u, flag)

AccountSteps(p) ==
  \/ AssertEditor(p) \/ FindAddress(p) \/ CreateUser(p) \/ ProfileMedia(p) \/ ProfileWrite(p)
  \/ RoleFind(p) \/ RoleWrite(p)
  \/ TargetFind(p, "statusFind", "statusWrite") \/ StatusWrite(p)
  \/ TargetFind(p, "deleteFind", "deleteWrite")
  \/ MediaFind(p) \/ MediaCreate(p) \/ MediaRead(p) \/ MediaRename(p)
  \/ FlagFind(p) \/ FlagWrite(p)

=============================================================================
