-------------------------- MODULE BackOfficeProofs --------------------------
(***************************************************************************)
(* Theorems about BackOffice and Accounts, for every value of their         *)
(* constants.                                                               *)
(***************************************************************************)
EXTENDS BackOffice, FiniteSetTheorems, TLAPS

-----------------------------------------------------------------------------
(* The handlers.                                                           *)

Administers ==
  {"roleFind", "roleWrite", "statusFind", "statusWrite", "deleteFind", "deleteWrite"}
OnMedia == {"mediaFind", "mediaCreate", "mediaRead", "mediaRename"}
Reviews == {"reviewFind", "reviewWrite"}

\* What a handler needs at its place.
Needs(h) ==
  /\ h.pc \in {"editor", "address", "createUser"} => h.email \in Emails
  /\ h.pc \in {"address", "createUser"} /\ h.role = None => h.media \in Media
  /\ h.pc = "editor" => h.actor \in Users /\ h.role = None
  /\ h.pc \in {"profileMedia", "profileWrite"} => h.target \in Users /\ h.media \in Media
  /\ h.pc \in {"roleFind", "roleWrite"} => h.role \in Staff
  /\ h.pc \in Administers => h.actor \in Users /\ h.target \in Users
  /\ h.pc \in OnMedia => h.name \in Names
  /\ h.pc \in {"mediaRead", "mediaRename"} => h.media \in Media
  /\ h.pc \in {"flagFind", "flagWrite"} => h.target \in Users
  /\ h.pc \in Uploads => h.actor \in Users /\ h.target \in Subjects
  /\ h.pc \in {"uploadOwner", "uploadFind"} => h.media = None
  /\ h.pc \in {"uploadPut", "uploadWrite"} => h.media \in Documents \cup {None}
  /\ h.pc = "uploadWrite" => h.name \in Documents
  /\ h.pc \in Reviews => h.actor \in Users /\ h.target \in Documents

LoadedStates == {h \in HandlerStates : Needs(h)}

\* What a handler has found and is still there.
Found(h, m, d) ==
  /\ h.pc = "mediaRename" => m[h.media] # None
  /\ h.pc = "reviewWrite" => d[h.target] # None
  /\ h.pc \in {"uploadPut", "uploadWrite"} /\ h.media # None => d[h.media] # None

RowsTyped ==
  /\ user \in [Users -> UserRows \cup {None}]
  /\ gone \subseteq Users /\ authors \subseteq Users
  /\ profile \in [Users -> ProfileRows \cup {None}]
  /\ media \in [Media -> Names \cup {None}]
  /\ document \in [Documents -> DocumentRows \cup {None}]
  /\ object \subseteq Documents
  /\ owner \in [Subjects -> Users \cup {None}]
  /\ contested \subseteq Subjects

SeedTyped ==
  /\ catalogue \subseteq CatalogueRows
  /\ seedAt \in DOMAIN After \cup {"done", "running"}
  /\ crashes \in Nat /\ commands \in Nat

\* The inductive form of TypeOK.  Before the service starts nobody calls.
TypeInv ==
  /\ RowsTyped /\ SeedTyped
  /\ handler \in [Handlers -> LoadedStates]
  /\ \A p \in Handlers : Found(handler[p], media, document)
  /\ ~Running => \A p \in Handlers : At(p, "idle")

\* The record of an idle handler needs nothing.
LEMMA IdleLoaded ==
  /\ IdleHandler \in LoadedStates /\ IdleHandler.pc = "idle"
  /\ \A m, d : Found(IdleHandler, m, d)
  BY DEF IdleHandler, LoadedStates, HandlerStates, Places, Needs, Found, Administers, OnMedia,
     Uploads, Reviews

\* Replacing the record of one handler.
LEMMA BecomeRow ==
  ASSUME handler \in [Handlers -> LoadedStates], NEW p \in Handlers, NEW s, Become(p, s)
  PROVE  /\ handler'[p] = s
         /\ \A q \in Handlers \ {p} : handler'[q] = handler[q]
         /\ s \in LoadedStates => handler' \in [Handlers -> LoadedStates]
  BY DEF Become

\* Going on to another place.
LEMMA GotoRow ==
  ASSUME handler \in [Handlers -> LoadedStates], NEW p \in Handlers, NEW place \in Places,
         Goto(p, place)
  PROVE  /\ handler'[p].pc = place
         /\ handler'[p].actor = handler[p].actor /\ handler'[p].target = handler[p].target
         /\ handler'[p].email = handler[p].email /\ handler'[p].role = handler[p].role
         /\ handler'[p].media = handler[p].media /\ handler'[p].name = handler[p].name
         /\ handler'[p].on = handler[p].on
         /\ handler'[p] \in HandlerStates
         /\ Needs(handler'[p]) => handler'[p] \in LoadedStates
<1>1. handler[p] \in HandlerStates
  BY DEF LoadedStates
<1>2. handler'[p] = [handler[p] EXCEPT !.pc = place]
  BY BecomeRow DEF Goto
<1> QED
  BY <1>1, <1>2 DEF HandlerStates, LoadedStates

-----------------------------------------------------------------------------
(* Calls.                                                                  *)

\* The places at which calls begin.
First ==
  { "address", "editor", "roleFind", "statusFind", "deleteFind", "mediaFind", "mediaRead",
    "flagFind", "uploadOwner", "uploadFind", "reviewFind" }

Begins(p) ==
  /\ At(p, "idle") /\ handler'[p] \in LoadedStates /\ handler'[p].pc \in First
  /\ handler'[p].pc \in Uploads /\ Uploading(handler'[p].target) => handler'[p].target \in contested'
  /\ handler'[p].pc \in Administers => May(handler'[p].actor, "users:manage")

Calls(p) ==
  \/ AccountCalls(p) /\ UNCHANGED <<documentVars, seedVars>>
  \/ \E a \in Users, s \in Subjects : Upload(p, a, s)
  \/ \E a \in Users, d \in Documents, valid \in BOOLEAN : Review(p, a, d, valid)

\* A call that is well formed begins.
LEMMA CallBegins ==
  ASSUME handler \in [Handlers -> LoadedStates], NEW p \in Handlers, NEW call, Call(p, call),
         call \in HandlerStates, Needs(call), call.pc \in First,
         call.pc \in Administers => May(call.actor, "users:manage"),
         call.pc \in Uploads /\ Uploading(call.target) => call.target \in contested'
  PROVE  Begins(p)
  BY BecomeRow DEF Call, Begins, LoadedStates

\* Every call begins with what it needs.
LEMMA CallsBegin ==
  ASSUME handler \in [Handlers -> LoadedStates], NEW p \in Handlers, Calls(p)
  PROVE  /\ Begins(p)
         /\ \A q \in Handlers \ {p} : handler'[q] = handler[q]
         /\ UNCHANGED <<accountVars, document, object, owner, seedVars>>
         /\ commands' = commands + 1
<1> USE DEF First, Places, Needs, Administers, OnMedia, Uploads, Reviews, IdleHandler, HandlerStates
<1>1. ASSUME NEW email \in Emails, NEW m \in Media, Register(p, email, m)
      PROVE  Begins(p)
  <2> DEFINE call == [IdleHandler EXCEPT !.pc = "address", !.email = email, !.media = m]
  <2>1. call \in HandlerStates /\ Needs(call) /\ call.pc = "address"
    OBVIOUS
  <2> QED
    BY <1>1, <2>1, CallBegins DEF Register, Arrives
<1>2. ASSUME NEW a \in Users, NEW email \in Emails, AddJournalist(p, a, email)
      PROVE  Begins(p)
  <2> DEFINE call == [IdleHandler EXCEPT !.pc = "editor", !.actor = a, !.email = email]
  <2>1. call \in HandlerStates /\ Needs(call) /\ call.pc = "editor"
    OBVIOUS
  <2> QED
    BY <1>2, <2>1, CallBegins DEF AddJournalist, Arrives
<1>3. ASSUME NEW a \in Users, NEW email \in Emails, NEW role \in Staff,
             CreateStaffUser(p, a, email, role)
      PROVE  Begins(p)
  <2> DEFINE call ==
        [IdleHandler EXCEPT !.pc = "address", !.actor = a, !.email = email, !.role = role]
  <2>1. call \in HandlerStates /\ Needs(call) /\ call.pc = "address"
    BY NoRowAssumption
  <2> QED
    BY <1>3, <2>1, CallBegins DEF CreateStaffUser, Arrives
<1>4. ASSUME NEW a \in Users, NEW u \in Users, NEW role \in Staff, UpdateStaffUser(p, a, u, role)
      PROVE  Begins(p)
  <2> DEFINE call ==
        [IdleHandler EXCEPT !.pc = "roleFind", !.actor = a, !.target = u, !.role = role]
  <2>1. call \in HandlerStates /\ Needs(call) /\ call.pc = "roleFind" /\ call.actor = a
    OBVIOUS
  <2> QED
    BY <1>4, <2>1, CallBegins DEF UpdateStaffUser, Arrives
<1>5. ASSUME NEW a \in Users, NEW u \in Users, NEW on \in BOOLEAN, UpdateStatus(p, a, u, on)
      PROVE  Begins(p)
  <2> DEFINE call ==
        [IdleHandler EXCEPT !.pc = "statusFind", !.actor = a, !.target = u, !.on = on]
  <2>1. call \in HandlerStates /\ Needs(call) /\ call.pc = "statusFind" /\ call.actor = a
    OBVIOUS
  <2> QED
    BY <1>5, <2>1, CallBegins DEF UpdateStatus, Arrives
<1>6. ASSUME NEW a \in Users, NEW u \in Users, DeleteStaffUser(p, a, u)
      PROVE  Begins(p)
  <2> DEFINE call == [IdleHandler EXCEPT !.pc = "deleteFind", !.actor = a, !.target = u]
  <2>1. call \in HandlerStates /\ Needs(call) /\ call.pc = "deleteFind" /\ call.actor = a
    OBVIOUS
  <2> QED
    BY <1>6, <2>1, CallBegins DEF DeleteStaffUser, Arrives
<1>7. ASSUME NEW a \in Users, NEW name \in Names, CreateMedia(p, a, name)
      PROVE  Begins(p)
  <2> DEFINE call == [IdleHandler EXCEPT !.pc = "mediaFind", !.actor = a, !.name = name]
  <2>1. call \in HandlerStates /\ Needs(call) /\ call.pc = "mediaFind"
    OBVIOUS
  <2> QED
    BY <1>7, <2>1, CallBegins DEF CreateMedia, Arrives
<1>8. ASSUME NEW a \in Users, NEW m \in Media, NEW name \in Names, UpdateMedia(p, a, m, name)
      PROVE  Begins(p)
  <2> DEFINE call ==
        [IdleHandler EXCEPT !.pc = "mediaRead", !.actor = a, !.media = m, !.name = name]
  <2>1. call \in HandlerStates /\ Needs(call) /\ call.pc = "mediaRead"
    OBVIOUS
  <2> QED
    BY <1>8, <2>1, CallBegins DEF UpdateMedia, Arrives
<1>9. ASSUME NEW a \in Users, NEW u \in Users, NEW flag \in BOOLEAN,
             UpdateEditorInChiefFlag(p, a, u, flag)
      PROVE  Begins(p)
  <2> DEFINE call == [IdleHandler EXCEPT !.pc = "flagFind", !.actor = a, !.target = u, !.on = flag]
  <2>1. call \in HandlerStates /\ Needs(call) /\ call.pc = "flagFind"
    OBVIOUS
  <2> QED
    BY <1>9, <2>1, CallBegins DEF UpdateEditorInChiefFlag, Arrives
<1>10. ASSUME NEW a \in Users, NEW s \in Subjects, Upload(p, a, s)
       PROVE  Begins(p)
  <2>1. PICK place \in {"uploadFind", "uploadOwner"} :
          Call(p, [IdleHandler EXCEPT !.actor = a, !.target = s, !.pc = place])
    BY <1>10 DEF Upload
  <2> DEFINE call == [IdleHandler EXCEPT !.actor = a, !.target = s, !.pc = place]
  <2>2. call \in HandlerStates /\ Needs(call) /\ call.pc = place /\ call.target = s
    OBVIOUS
  <2>3. Uploading(s) => s \in contested'
    BY <1>10 DEF Upload
  <2> HIDE DEF call
  <2> QED
    BY <2>1, <2>2, <2>3, CallBegins DEF call
<1>11. ASSUME NEW a \in Users, NEW d \in Documents, NEW valid \in BOOLEAN, Review(p, a, d, valid)
       PROVE  Begins(p)
  <2> DEFINE call ==
        [IdleHandler EXCEPT !.pc = "reviewFind", !.actor = a, !.target = d, !.on = valid]
  <2>1. call \in HandlerStates /\ Needs(call) /\ call.pc = "reviewFind"
    OBVIOUS
  <2> QED
    BY <1>11, <2>1, CallBegins DEF Review
<1>12. Begins(p)
  BY <1>1, <1>2, <1>3, <1>4, <1>5, <1>6, <1>7, <1>8, <1>9, <1>10, <1>11 DEF Calls, AccountCalls
<1>13. /\ UNCHANGED <<accountVars, document, object, owner, seedVars>>
       /\ \E call : Call(p, call)
  BY DEF Calls, AccountCalls, Register, AddJournalist, CreateStaffUser, UpdateStaffUser,
     UpdateStatus, DeleteStaffUser, CreateMedia, UpdateMedia, UpdateEditorInChiefFlag, Upload,
     Review, Arrives, documentVars
<1> QED
  BY <1>12, <1>13, BecomeRow DEF Call

-----------------------------------------------------------------------------
(* Steps of a handler that was called.                                     *)

\* On to another place, with what that place relies on.
Moves(p) ==
  \/ /\ At(p, "editor")
     /\ LET own == profile[handler[p].actor] IN
        own # None /\ Become(p, [handler[p] EXCEPT !.pc = "address", !.media = own.media])
  \/ At(p, "address") /\ Goto(p, "createUser")
  \/ /\ At(p, "createUser") /\ handler[p].role = None
     /\ \E u \in Users :
          /\ NewUser(u, handler[p].email, None)
          /\ Become(p, [handler[p] EXCEPT !.pc = "profileMedia", !.target = u])
  \/ At(p, "profileMedia") /\ media[handler[p].media] # None /\ Goto(p, "profileWrite")
  \/ At(p, "roleFind") /\ IsStaff(handler[p].target) /\ Goto(p, "roleWrite")
  \/ At(p, "statusFind") /\ handler[p].target # handler[p].actor /\ Goto(p, "statusWrite")
  \/ At(p, "deleteFind") /\ handler[p].target # handler[p].actor /\ Goto(p, "deleteWrite")
  \/ /\ At(p, "mediaFind") /\ \A m \in Media : media[m] # handler[p].name
     /\ Goto(p, "mediaCreate")
  \/ At(p, "mediaRead") /\ media[handler[p].media] # None /\ Goto(p, "mediaRename")
  \/ At(p, "flagFind") /\ Goto(p, "flagWrite")
  \/ At(p, "uploadOwner") /\ Goto(p, "uploadFind")
  \/ UploadFind(p)
  \/ UploadPut(p)
  \/ At(p, "reviewFind") /\ Stored(handler[p].target) /\ Goto(p, "reviewWrite")

Writes(p) ==
  \/ CreateUser(p) \/ ProfileWrite(p) \/ RoleWrite(p) \/ StatusWrite(p) \/ DeleteWrite(p)
  \/ MediaCreate(p) \/ MediaRename(p) \/ FlagWrite(p)
  \/ UploadPut(p) \/ UploadWrite(p) \/ ReviewWrite(p)

Steps(p) ==
  \/ AccountSteps(p) /\ UNCHANGED <<documentVars, seedVars>>
  \/ UploadOwner(p) \/ UploadFind(p) \/ UploadPut(p) \/ UploadWrite(p)
  \/ ReviewFind(p) \/ ReviewWrite(p) \/ DeleteWrite(p) \/ Abort(p)

\* A handler that goes on moves or ends; all but the writes leave the rows.
LEMMA StepsMove ==
  ASSUME NEW p \in Handlers, Steps(p)
  PROVE  /\ ~At(p, "idle") /\ (Moves(p) \/ Return(p))
         /\ Writes(p) \/ UNCHANGED <<accountVars, documentVars>>
         /\ UNCHANGED <<authors, owner, contested, seedVars, commands>>
<1>1. CASE AssertEditor(p) /\ UNCHANGED <<documentVars, seedVars>>
  BY <1>1 DEF AssertEditor, At, Moves, accountVars, documentVars
<1>2. CASE FindAddress(p) /\ UNCHANGED <<documentVars, seedVars>>
  BY <1>2 DEF FindAddress, At, Moves, accountVars, documentVars
<1>3. CASE CreateUser(p) /\ UNCHANGED <<documentVars, seedVars>>
  BY <1>3 DEF CreateUser, At, Moves, Writes, documentVars
<1>4. CASE ProfileMedia(p) /\ UNCHANGED <<documentVars, seedVars>>
  BY <1>4 DEF ProfileMedia, At, Moves, accountVars, documentVars
<1>5. CASE ProfileWrite(p) /\ UNCHANGED <<documentVars, seedVars>>
  BY <1>5 DEF ProfileWrite, At, Writes, documentVars
<1>6. CASE RoleFind(p) /\ UNCHANGED <<documentVars, seedVars>>
  BY <1>6 DEF RoleFind, At, Moves, accountVars, documentVars
<1>7. CASE (RoleWrite(p) \/ StatusWrite(p)) /\ UNCHANGED <<documentVars, seedVars>>
  BY <1>7 DEF RoleWrite, StatusWrite, At, Writes, documentVars
<1>8. CASE /\ \/ TargetFind(p, "statusFind", "statusWrite")
              \/ TargetFind(p, "deleteFind", "deleteWrite")
           /\ UNCHANGED <<documentVars, seedVars>>
  BY <1>8 DEF TargetFind, At, Moves, accountVars, documentVars
<1>9. CASE MediaFind(p) /\ UNCHANGED <<documentVars, seedVars>>
  BY <1>9 DEF MediaFind, At, Moves, accountVars, documentVars
<1>10. CASE MediaRead(p) /\ UNCHANGED <<documentVars, seedVars>>
  BY <1>10 DEF MediaRead, At, Moves, accountVars, documentVars
<1>11. CASE (MediaCreate(p) \/ MediaRename(p)) /\ UNCHANGED <<documentVars, seedVars>>
  BY <1>11 DEF MediaCreate, MediaRename, At, Writes, documentVars
<1>12. CASE FlagFind(p) /\ UNCHANGED <<documentVars, seedVars>>
  BY <1>12 DEF FlagFind, At, Moves, accountVars, documentVars
<1>13. CASE FlagWrite(p) /\ UNCHANGED <<documentVars, seedVars>>
  BY <1>13 DEF FlagWrite, At, Writes, documentVars
<1>14. CASE UploadOwner(p) \/ UploadFind(p) \/ UploadPut(p) \/ UploadWrite(p)
  BY <1>14 DEF UploadOwner, UploadFind, UploadPut, UploadWrite, At, Moves, Writes, Keep,
     accountVars, documentVars
<1>15. CASE ReviewFind(p) \/ ReviewWrite(p)
  BY <1>15 DEF ReviewFind, ReviewWrite, At, Moves, Writes, Keep, accountVars, documentVars
<1>16. CASE DeleteWrite(p) \/ Abort(p)
  BY <1>16 DEF DeleteWrite, Abort, At, Writes, Keep, accountVars, documentVars
<1> QED
  BY <1>1, <1>2, <1>3, <1>4, <1>5, <1>6, <1>7, <1>8, <1>9, <1>10, <1>11, <1>12, <1>13, <1>14,
     <1>15, <1>16 DEF Steps, AccountSteps

\* Steps of the running service.
LEMMA ServingSteps ==
  Serving <=> \/ \E p \in Handlers : Calls(p) \/ Steps(p)
              \/ \E a \in Users : LeaveHistory(a) /\ UNCHANGED <<documentVars, seedVars>>
              \/ \E s \in Subjects, u \in Users : OpenRequest(s, u)
  BY DEF Serving, Calls, Steps

\* A handler has what it needs where it moves to.
LEMMA MovesLoaded ==
  ASSUME TypeInv, NEW p \in Handlers, Moves(p)
  PROVE  handler'[p] \in LoadedStates /\ handler' \in [Handlers -> LoadedStates]
<1> USE DEF Needs, Administers, OnMedia, Uploads, Reviews, Places
<1>0. /\ handler \in [Handlers -> LoadedStates]
      /\ handler[p] \in HandlerStates /\ Needs(handler[p])
  BY DEF TypeInv, LoadedStates
<1>a. handler[p] \in HandlerStates
  BY <1>0
<1>1. CASE /\ At(p, "editor")
           /\ LET own == profile[handler[p].actor] IN
              own # None /\ Become(p, [handler[p] EXCEPT !.pc = "address", !.media = own.media])
  <2> DEFINE own == profile[handler[p].actor]
             s == [handler[p] EXCEPT !.pc = "address", !.media = own.media]
  <2>1. own \in ProfileRows /\ handler[p].role = None /\ handler[p].email \in Emails
    BY <1>0, <1>1 DEF At, TypeInv, RowsTyped
  <2>2. own.media \in Media
    BY <2>1 DEF ProfileRows
  <2> HIDE DEF own
  <2>3. s \in LoadedStates
    <3>0. s \in HandlerStates
      BY <1>a, <2>2 DEF HandlerStates
    <3>1. s.pc = "address" /\ s.email = handler[p].email /\ s.media = own.media
      BY <1>a DEF HandlerStates
    <3> HIDE DEF s
    <3>2. Needs(s)
      BY <2>1, <2>2, <3>1
    <3> QED
      BY <3>0, <3>2 DEF LoadedStates
  <2>4. Become(p, s)
    BY <1>1 DEF own
  <2> QED
    BY <1>0, <2>3, <2>4, BecomeRow
<1>2. CASE /\ At(p, "createUser") /\ handler[p].role = None
           /\ \E u \in Users :
                Become(p, [handler[p] EXCEPT !.pc = "profileMedia", !.target = u])
  <2>1. PICK u \in Users : Become(p, [handler[p] EXCEPT !.pc = "profileMedia", !.target = u])
    BY <1>2
  <2> DEFINE s == [handler[p] EXCEPT !.pc = "profileMedia", !.target = u]
  <2>2. s \in LoadedStates
    <3>0. handler[p].media \in Media
      BY <1>0, <1>2 DEF At
    <3>1. s \in HandlerStates /\ s.pc = "profileMedia" /\ s.target \in Users /\ s.media \in Media
      BY <1>a, <3>0 DEF HandlerStates
    <3> HIDE DEF s
    <3>2. Needs(s)
      BY <3>1
    <3> QED
      BY <3>1, <3>2 DEF LoadedStates
  <2> QED
    BY <1>0, <2>1, <2>2, BecomeRow
<1>3. ASSUME NEW place \in Places, Goto(p, place), Needs([handler[p] EXCEPT !.pc = place])
      PROVE  handler'[p] \in LoadedStates /\ handler' \in [Handlers -> LoadedStates]
  <2>1. [handler[p] EXCEPT !.pc = place] \in LoadedStates
    BY <1>0, <1>3 DEF HandlerStates, LoadedStates
  <2> QED
    BY <1>0, <1>3, <2>1, BecomeRow DEF Goto
<1>4. CASE At(p, "address") /\ Goto(p, "createUser")
  BY <1>0, <1>3, <1>4 DEF At, HandlerStates
<1>5. CASE At(p, "profileMedia") /\ Goto(p, "profileWrite")
  BY <1>0, <1>3, <1>5 DEF At, HandlerStates
<1>6. CASE At(p, "roleFind") /\ Goto(p, "roleWrite")
  BY <1>0, <1>3, <1>6 DEF At, HandlerStates
<1>7. CASE At(p, "statusFind") /\ Goto(p, "statusWrite")
  BY <1>0, <1>3, <1>7 DEF At, HandlerStates
<1>8. CASE At(p, "deleteFind") /\ Goto(p, "deleteWrite")
  BY <1>0, <1>3, <1>8 DEF At, HandlerStates
<1>9. CASE At(p, "mediaFind") /\ Goto(p, "mediaCreate")
  BY <1>0, <1>3, <1>9 DEF At, HandlerStates
<1>10. CASE At(p, "mediaRead") /\ Goto(p, "mediaRename")
  BY <1>0, <1>3, <1>10 DEF At, HandlerStates
<1>11. CASE At(p, "flagFind") /\ Goto(p, "flagWrite")
  BY <1>0, <1>3, <1>11 DEF At, HandlerStates
<1>12. CASE At(p, "uploadOwner") /\ Goto(p, "uploadFind")
  BY <1>0, <1>3, <1>12 DEF At, HandlerStates
<1>13. CASE At(p, "reviewFind") /\ Goto(p, "reviewWrite")
  BY <1>0, <1>3, <1>13 DEF At, HandlerStates
<1>14. CASE UploadFind(p)
  <2>0. /\ handler[p].pc = "uploadFind" /\ handler[p].actor \in Users
        /\ handler[p].target \in Subjects /\ handler[p].media = None
    BY <1>0, <1>14 DEF At, UploadFind
  <2>1. CASE Goto(p, "uploadPut")
    <3> DEFINE s == [handler[p] EXCEPT !.pc = "uploadPut"]
    <3>1. s.pc = "uploadPut" /\ s.actor \in Users /\ s.target \in Subjects /\ s.media = None
      BY <1>a, <2>0 DEF HandlerStates
    <3> HIDE DEF s
    <3>2. Needs(s)
      BY <3>1
    <3> QED
      BY <1>3, <2>1, <3>2 DEF s
  <2>2. ASSUME NEW d \in Documents, Become(p, [handler[p] EXCEPT !.pc = "uploadPut", !.media = d])
        PROVE  handler'[p] \in LoadedStates /\ handler' \in [Handlers -> LoadedStates]
    <3> DEFINE s == [handler[p] EXCEPT !.pc = "uploadPut", !.media = d]
    <3>0. s \in HandlerStates
      BY <1>a DEF HandlerStates
    <3>1. /\ s.pc = "uploadPut" /\ s.media = d /\ s.actor = handler[p].actor
          /\ s.target = handler[p].target
      BY <1>a DEF HandlerStates
    <3> HIDE DEF s
    <3>2. Needs(s)
      BY <2>0, <3>1
    <3>3. s \in LoadedStates
      BY <3>0, <3>2 DEF LoadedStates
    <3> QED
      BY <1>0, <2>2, <3>3, BecomeRow DEF s
  <2> QED
    BY <1>14, <2>1, <2>2 DEF UploadFind
<1>15. CASE UploadPut(p)
  <2>1. PICK d \in Documents : Become(p, [handler[p] EXCEPT !.pc = "uploadWrite", !.name = d])
    BY <1>15 DEF UploadPut
  <2> DEFINE s == [handler[p] EXCEPT !.pc = "uploadWrite", !.name = d]
  <2>2. s \in LoadedStates
    <3>0. /\ handler[p].actor \in Users /\ handler[p].target \in Subjects
          /\ handler[p].media \in Documents \cup {None}
      BY <1>0, <1>15 DEF At, UploadPut
    <3>1. s \in HandlerStates
      BY <1>a DEF HandlerStates
    <3>2. /\ s.pc = "uploadWrite" /\ s.name = d /\ s.actor = handler[p].actor
          /\ s.target = handler[p].target /\ s.media = handler[p].media
      BY <1>a DEF HandlerStates
    <3> HIDE DEF s
    <3>3. Needs(s)
      BY <3>0, <3>2
    <3> QED
      BY <3>1, <3>3 DEF LoadedStates
  <2> QED
    BY <1>0, <2>1, <2>2, BecomeRow
<1> QED
  BY <1>1, <1>2, <1>4, <1>5, <1>6, <1>7, <1>8, <1>9, <1>10, <1>11, <1>12, <1>13, <1>14, <1>15
  DEF Moves

\* Where a handler moves from and to.
LEMMA MovesTo ==
  ASSUME TypeInv, NEW p \in Handlers, Moves(p)
  PROVE  /\ handler'[p].pc = "address" => At(p, "editor")
         /\ handler'[p].pc = "createUser" => At(p, "address")
         /\ handler'[p].pc = "statusWrite" =>
              At(p, "statusFind") /\ handler[p].target # handler[p].actor
         /\ handler'[p].pc = "deleteWrite" =>
              At(p, "deleteFind") /\ handler[p].target # handler[p].actor
         /\ handler'[p].pc = "roleWrite" => At(p, "roleFind")
         /\ handler'[p].pc = "mediaCreate" =>
              At(p, "mediaFind") /\ \A m \in Media : media[m] # handler[p].name
         /\ handler'[p].pc = "mediaRename" => At(p, "mediaRead")
         /\ handler'[p].pc = "uploadFind" => At(p, "uploadOwner")
         /\ handler'[p].pc = "uploadPut" => UploadFind(p)
         /\ handler'[p].pc = "uploadWrite" => UploadPut(p)
         /\ handler'[p].pc \notin First \ {"address", "uploadFind"}
<1>0. handler \in [Handlers -> LoadedStates] /\ handler[p] \in HandlerStates
  BY DEF TypeInv, LoadedStates
<1>1. ASSUME NEW place \in Places, Goto(p, place)
      PROVE  handler'[p].pc = place
  BY <1>0, <1>1, GotoRow
<1>2. ASSUME NEW m, Become(p, [handler[p] EXCEPT !.pc = "address", !.media = m])
      PROVE  handler'[p].pc = "address"
  <2>1. handler'[p] = [handler[p] EXCEPT !.pc = "address", !.media = m]
    BY <1>0, <1>2, BecomeRow
  <2> QED
    BY <1>0, <2>1 DEF HandlerStates
<1>3. ASSUME NEW u, Become(p, [handler[p] EXCEPT !.pc = "profileMedia", !.target = u])
      PROVE  handler'[p].pc = "profileMedia"
  <2>1. handler'[p] = [handler[p] EXCEPT !.pc = "profileMedia", !.target = u]
    BY <1>0, <1>3, BecomeRow
  <2> QED
    BY <1>0, <2>1 DEF HandlerStates
<1>4. CASE UploadFind(p)
  <2>1. ASSUME NEW d, Become(p, [handler[p] EXCEPT !.pc = "uploadPut", !.media = d])
        PROVE  handler'[p].pc = "uploadPut"
    <3>1. handler'[p] = [handler[p] EXCEPT !.pc = "uploadPut", !.media = d]
      BY <1>0, <2>1, BecomeRow
    <3> QED
      BY <1>0, <3>1 DEF HandlerStates
  <2>2. handler'[p].pc = "uploadPut"
    BY <1>1, <1>4, <2>1 DEF UploadFind, Places
  <2> QED
    BY <1>4, <2>2 DEF First
<1>5. CASE UploadPut(p)
  <2>1. ASSUME NEW d, Become(p, [handler[p] EXCEPT !.pc = "uploadWrite", !.name = d])
        PROVE  handler'[p].pc = "uploadWrite"
    <3>1. handler'[p] = [handler[p] EXCEPT !.pc = "uploadWrite", !.name = d]
      BY <1>0, <2>1, BecomeRow
    <3> QED
      BY <1>0, <3>1 DEF HandlerStates
  <2>2. handler'[p].pc = "uploadWrite"
    BY <1>5, <2>1 DEF UploadPut
  <2> QED
    BY <1>5, <2>2 DEF First
<1> QED
  BY <1>1, <1>2, <1>3, <1>4, <1>5 DEF Moves, Places, First, At

-----------------------------------------------------------------------------
(* Types.                                                                  *)

\* What is written, and by whom.
LEMMA Written ==
  ASSUME [Next]_vars
  PROVE  /\ \/ user' = user
            \/ \E p \in Handlers : CreateUser(p) \/ RoleWrite(p) \/ StatusWrite(p) \/ DeleteWrite(p)
            \/ SeedNext
         /\ \/ profile' = profile
            \/ \E p \in Handlers : ProfileWrite(p) \/ FlagWrite(p) \/ DeleteWrite(p)
            \/ SeedNext
         /\ \/ media' = media
            \/ \E p \in Handlers : MediaCreate(p) \/ MediaRename(p)
            \/ SeedNext
         /\ \/ document' = document
            \/ \E p \in Handlers : UploadWrite(p) \/ ReviewWrite(p) \/ DeleteWrite(p)
         /\ object' = object \/ \E p \in Handlers : UploadPut(p)
         /\ gone' = gone \/ \E p \in Handlers : DeleteWrite(p)
         /\ authors' = authors \/ \E a \in Users : LeaveHistory(a)
         /\ owner' = owner \/ \E s \in Subjects, u \in Users : OpenRequest(s, u)
         /\ \/ contested' = contested
            \/ \E p \in Handlers, a \in Users, s \in Subjects : Upload(p, a, s)
<1> USE DEF accountVars, documentVars, vars
<1>1. CASE SeedNext
  BY <1>1 DEF SeedNext, UpsertStaff, SeedMedia, SeedCatalogue, SeedEditor, SeedProfile,
     SeedCrash, Start, SeedKeeps
<1>2. ASSUME NEW p \in Handlers, Steps(p)
      PROVE  \/ Writes(p) /\ UNCHANGED <<authors, owner, contested>>
             \/ UNCHANGED <<accountVars, documentVars>>
  BY <1>2, StepsMove
<1>3. ASSUME NEW p \in Handlers, Writes(p)
      PROVE  /\ \/ user' = user
                \/ CreateUser(p) \/ RoleWrite(p) \/ StatusWrite(p) \/ DeleteWrite(p)
             /\ profile' = profile \/ ProfileWrite(p) \/ FlagWrite(p) \/ DeleteWrite(p)
             /\ media' = media \/ MediaCreate(p) \/ MediaRename(p)
             /\ gone' = gone \/ DeleteWrite(p)
  BY <1>3 DEF Writes, CreateUser, ProfileWrite, RoleWrite, StatusWrite, MediaCreate, MediaRename,
     FlagWrite, UploadPut, UploadWrite, ReviewWrite, DeleteWrite
<1>4. ASSUME NEW p \in Handlers, Steps(p), Writes(p)
      PROVE  /\ document' = document \/ UploadWrite(p) \/ ReviewWrite(p) \/ DeleteWrite(p)
             /\ object' = object \/ UploadPut(p)
  BY <1>4 DEF Steps, AccountSteps, UploadOwner, UploadFind, UploadPut, UploadWrite, ReviewFind,
     ReviewWrite, DeleteWrite, Abort, Keep
<1>5. ASSUME NEW p \in Handlers, Calls(p)
      PROVE  /\ UNCHANGED <<accountVars, document, object, owner>>
             /\ contested' = contested \/ \E a \in Users, s \in Subjects : Upload(p, a, s)
  BY <1>5 DEF Calls, AccountCalls, Register, AddJournalist, CreateStaffUser, UpdateStaffUser,
     UpdateStatus, DeleteStaffUser, CreateMedia, UpdateMedia, UpdateEditorInChiefFlag, Upload,
     Review, Arrives
<1>6. CASE \E a \in Users : LeaveHistory(a) /\ UNCHANGED <<documentVars, seedVars>>
  BY <1>6 DEF LeaveHistory
<1>7. CASE \E s \in Subjects, u \in Users : OpenRequest(s, u)
  BY <1>7 DEF OpenRequest
<1>8. CASE UNCHANGED vars
  BY <1>8
<1>9. CASE \E p \in Handlers : Calls(p)
  BY <1>5, <1>9
<1>10. CASE \E p \in Handlers : Steps(p)
  <2>1. PICK p \in Handlers : Steps(p)
    BY <1>10
  <2>2. CASE UNCHANGED <<accountVars, documentVars>>
    BY <2>2
  <2>3. CASE Writes(p) /\ UNCHANGED <<authors, owner, contested>>
    BY <1>3, <1>4, <2>1, <2>3
  <2> QED
    BY <1>2, <2>1, <2>2, <2>3
<1> QED
  BY <1>1, <1>6, <1>7, <1>8, <1>9, <1>10, ServingSteps DEF Next

\* The row of a new account, under an identifier nobody had.
Born(u, row) ==
  /\ ~Exists(u) /\ u \notin gone /\ ~Taken(row.email) /\ row.active
  /\ \A v \in Users : v < u => Exists(v) \/ v \in gone

\* An account whose row changes keeps its address, and its role but for staff.
Kept(u, row) ==
  /\ Exists(u) /\ row.email = user[u].email
  /\ \/ row.role = user[u].role /\ \E p \in Handlers : StatusWrite(p) /\ handler[p].target = u
     \/ row.role \in Staff /\ \E p \in Handlers : RoleWrite(p) /\ handler[p].target = u

\* What a handler has at hand, by type and place.
LEMMA AtHand ==
  ASSUME TypeInv, NEW p \in Handlers
  PROVE  handler[p] \in HandlerStates /\ Needs(handler[p])
  BY DEF TypeInv, LoadedStates

\* One account changes at a time.
LEMMA UserChanges ==
  ASSUME TypeInv, [Next]_vars
  PROVE  \/ user' = user
         \/ \E u \in Users, row \in UserRows :
              user' = [user EXCEPT ![u] = row] /\ (Born(u, row) \/ Kept(u, row))
         \/ \E p \in Handlers :
              /\ DeleteWrite(p) /\ handler[p].target \in Users
              /\ Erase(handler[p].target) /\ ~Restricted(handler[p].target)
<1>0. user \in [Users -> UserRows \cup {None}]
  BY DEF TypeInv, RowsTyped
<1>1. ASSUME NEW email \in Emails, NEW role \in Staff \cup {None}, NEW u \in Users,
             NewUser(u, email, role), ~Taken(email)
      PROVE  \E row \in UserRows : user' = [user EXCEPT ![u] = row] /\ Born(u, row)
  <2> DEFINE row == [email |-> email, role |-> role, active |-> TRUE]
  <2>1. row \in UserRows /\ row.email = email /\ row.active
    BY DEF UserRows
  <2> QED
    BY <1>1, <2>1 DEF NewUser, Born
<1>2. ASSUME NEW p \in Handlers, CreateUser(p)
      PROVE  \E u \in Users, row \in UserRows : user' = [user EXCEPT ![u] = row] /\ Born(u, row)
  <2>1. handler[p].email \in Emails /\ handler[p].role \in Staff \cup {None}
    BY <1>2, AtHand DEF CreateUser, At, Needs, HandlerStates
  <2> QED
    BY <1>1, <1>2, <2>1 DEF CreateUser
<1>3. ASSUME NEW p \in Handlers, RoleWrite(p)
      PROVE  \E u \in Users, row \in UserRows : user' = [user EXCEPT ![u] = row] /\ Kept(u, row)
  <2> DEFINE u == handler[p].target
             row == [user[u] EXCEPT !.role = handler[p].role]
  <2>1. u \in Users /\ handler[p].role \in Staff /\ user[u] \in UserRows
    BY <1>0, <1>3, AtHand DEF RoleWrite, At, Needs, Administers, Exists
  <2>2. row \in UserRows /\ row.email = user[u].email /\ row.role \in Staff
    BY <2>1 DEF UserRows
  <2> QED
    BY <1>3, <2>1, <2>2 DEF RoleWrite, Kept
<1>4. ASSUME NEW p \in Handlers, StatusWrite(p)
      PROVE  \E u \in Users, row \in UserRows : user' = [user EXCEPT ![u] = row] /\ Kept(u, row)
  <2> DEFINE u == handler[p].target
             row == [user[u] EXCEPT !.active = handler[p].on]
  <2>1. u \in Users /\ handler[p].on \in BOOLEAN /\ user[u] \in UserRows
    BY <1>0, <1>4, AtHand DEF StatusWrite, At, Needs, Administers, Exists, HandlerStates
  <2>2. row \in UserRows /\ row.email = user[u].email /\ row.role = user[u].role
    BY <2>1 DEF UserRows
  <2> QED
    BY <1>4, <2>1, <2>2 DEF StatusWrite, Kept
<1>5. ASSUME NEW p \in Handlers, DeleteWrite(p)
      PROVE  \/ user' = user
             \/ /\ handler[p].target \in Users
                /\ Erase(handler[p].target) /\ ~Restricted(handler[p].target)
  BY <1>5, AtHand DEF DeleteWrite, At, Needs, Administers
<1>6. CASE SeedNext
  <2>1. \/ user' = user
        \/ \E u \in Users, email \in Emails, role \in Staff \cup {None} :
             NewUser(u, email, role) /\ ~Taken(email)
    BY <1>6, SeedAssumption DEF SeedNext, UpsertStaff, SeedMedia, SeedCatalogue, SeedEditor,
       SeedProfile, SeedCrash, Start, accountVars, Staff
  <2> QED
    BY <1>1, <2>1
<1> QED
  BY <1>2, <1>3, <1>4, <1>5, <1>6, Written

\* One profile changes at a time, or goes with its account.
LEMMA ProfileChanges ==
  ASSUME TypeInv, [Next]_vars
  PROVE  \/ profile' = profile
         \/ \E u \in Users, row \in ProfileRows :
              /\ profile' = [profile EXCEPT ![u] = row] /\ user' = user
              /\ \/ \E p \in Handlers :
                      /\ ProfileWrite(p) /\ handler[p].target = u /\ handler[p].media = row.media
                 \/ \E p \in Handlers :
                      FlagWrite(p) /\ profile[u] # None /\ row.media = profile[u].media
                 \/ SeedProfile /\ Exists(u) /\ user[u].email = EditorEmail
                    /\ media[row.media] = DemoMedia /\ row.editor
         \/ \E p \in Handlers :
              /\ DeleteWrite(p) /\ handler[p].target \in Users
              /\ Erase(handler[p].target) /\ ~Restricted(handler[p].target)
<1>0. profile \in [Users -> ProfileRows \cup {None}]
  BY DEF TypeInv, RowsTyped
<1>1. ASSUME NEW p \in Handlers, ProfileWrite(p)
      PROVE  \E u \in Users, row \in ProfileRows :
               /\ profile' = [profile EXCEPT ![u] = row] /\ user' = user
               /\ handler[p].target = u /\ handler[p].media = row.media
  <2> DEFINE row == [media |-> handler[p].media, editor |-> FALSE]
  <2>1. handler[p].target \in Users /\ handler[p].media \in Media
    BY <1>1, AtHand DEF ProfileWrite, At, Needs
  <2>2. row \in ProfileRows /\ row.media = handler[p].media
    BY <2>1 DEF ProfileRows
  <2> QED
    BY <1>1, <2>1, <2>2 DEF ProfileWrite
<1>2. ASSUME NEW p \in Handlers, FlagWrite(p)
      PROVE  \E u \in Users, row \in ProfileRows :
               /\ profile' = [profile EXCEPT ![u] = row] /\ user' = user
               /\ profile[u] # None /\ row.media = profile[u].media
  <2> DEFINE u == handler[p].target
             row == [profile[u] EXCEPT !.editor = handler[p].on]
  <2>1. u \in Users /\ handler[p].on \in BOOLEAN /\ profile[u] \in ProfileRows /\ profile[u] # None
    BY <1>0, <1>2, AtHand DEF FlagWrite, At, Needs, HandlerStates
  <2>2. row \in ProfileRows /\ row.media = profile[u].media
    BY <2>1 DEF ProfileRows
  <2> QED
    BY <1>2, <2>1, <2>2 DEF FlagWrite
<1>3. ASSUME NEW p \in Handlers, DeleteWrite(p)
      PROVE  \/ profile' = profile
             \/ /\ handler[p].target \in Users
                /\ Erase(handler[p].target) /\ ~Restricted(handler[p].target)
  BY <1>3, AtHand DEF DeleteWrite, At, Needs, Administers
<1>4. CASE SeedProfile
  <2>1. PICK u \in Users, m \in Media :
          /\ Exists(u) /\ user[u].email = EditorEmail /\ media[m] = DemoMedia
          /\ profile' = [profile EXCEPT ![u] = [media |-> m, editor |-> TRUE]]
    BY <1>4 DEF SeedProfile
  <2> DEFINE row == [media |-> m, editor |-> TRUE]
  <2>2. row \in ProfileRows /\ row.media = m /\ row.editor
    BY DEF ProfileRows
  <2> QED
    BY <1>4, <2>1, <2>2 DEF SeedProfile
<1>5. CASE SeedNext /\ ~SeedProfile
  BY <1>5 DEF SeedNext, UpsertStaff, SeedMedia, SeedCatalogue, SeedEditor, SeedCrash, Start,
     accountVars
<1> QED
  BY <1>1, <1>2, <1>3, <1>4, <1>5, Written

\* One medium changes at a time, and gets a name.
LEMMA MediaChanges ==
  ASSUME TypeInv, [Next]_vars
  PROVE  \/ media' = media
         \/ \E m \in Media, name \in Names :
              /\ media' = [media EXCEPT ![m] = name]
              /\ \/ \E p \in Handlers :
                      MediaCreate(p) /\ media[m] = None /\ name = handler[p].name
                 \/ \E p \in Handlers : MediaRename(p) /\ media[m] # None
                 \/ SeedMedia /\ name = DemoMedia /\ \A n \in Media : media[n] # DemoMedia
<1>1. ASSUME NEW p \in Handlers, MediaCreate(p)
      PROVE  \E m \in Media, name \in Names :
               /\ media' = [media EXCEPT ![m] = name] /\ media[m] = None /\ name = handler[p].name
  BY <1>1, AtHand DEF MediaCreate, At, Needs, OnMedia
<1>2. ASSUME NEW p \in Handlers, MediaRename(p)
      PROVE  \E m \in Media, name \in Names :
               media' = [media EXCEPT ![m] = name] /\ media[m] # None
  BY <1>2, AtHand DEF MediaRename, At, Needs, OnMedia, TypeInv, Found
<1>3. CASE SeedMedia
  BY <1>3, SeedAssumption DEF SeedMedia
<1>4. CASE SeedNext /\ ~SeedMedia
  BY <1>4 DEF SeedNext, UpsertStaff, SeedProfile, SeedCatalogue, SeedEditor, SeedCrash, Start,
     accountVars
<1> QED
  BY <1>1, <1>2, <1>3, <1>4, Written

\* A document is still absent, or what it is of did not change.
Amended(d) ==
  \/ document[d] = None /\ document'[d] = None
  \/ /\ Stored(d) /\ document'[d] \in DocumentRows
     /\ document'[d].subject = document[d].subject /\ document'[d].by = document[d].by
     /\ document'[d].version = document[d].version

\* Nobody but an upload makes a document wait or supersedes it.
Judged(d) ==
  /\ document'[d].status = "PENDING" => document[d].status = "PENDING"
  /\ document'[d].status = "SUPERSEDED" => document[d].status = "SUPERSEDED"

\* Documents change by an upload or keep their versions.
LEMMA DocumentChanges ==
  ASSUME TypeInv, [Next]_vars
  PROVE  /\ document' \in [Documents -> DocumentRows \cup {None}]
         /\ \/ \A d \in Documents : Amended(d) /\ Judged(d)
            \/ \E p \in Handlers :
                 /\ UploadWrite(p) /\ handler[p].name \in Documents
                 /\ NewVersion(p) \in DocumentRows /\ document'[handler[p].name] = NewVersion(p)
                 /\ \A d \in Documents \ {handler[p].name} :
                      /\ Amended(d)
                      /\ d = handler[p].media => document'[d].status = "SUPERSEDED"
                      /\ d # handler[p].media => document'[d] = document[d]
<1>0. document \in [Documents -> DocumentRows \cup {None}]
  BY DEF TypeInv, RowsTyped
<1>1. ASSUME NEW d \in Documents, document'[d] = document[d]
      PROVE  Amended(d) /\ Judged(d)
  BY <1>0, <1>1 DEF Amended, Judged, Stored
<1>2. CASE document' = document
  BY <1>0, <1>1, <1>2
<1>3. ASSUME NEW p \in Handlers, ReviewWrite(p)
      PROVE  /\ document' \in [Documents -> DocumentRows \cup {None}]
             /\ \A d \in Documents : Amended(d) /\ Judged(d)
  <2> DEFINE t == handler[p].target
             row == [document[t] EXCEPT !.status = IF handler[p].on THEN "VALIDATED" ELSE "REJECTED",
                                        !.reviewer = handler[p].actor]
  <2>1. t \in Documents /\ handler[p].actor \in Users /\ Stored(t) /\ document[t] \in DocumentRows
    BY <1>0, <1>3, AtHand DEF ReviewWrite, At, Needs, Reviews, TypeInv, Found, Stored
  <2>2. /\ row \in DocumentRows /\ row.status \in {"VALIDATED", "REJECTED"}
        /\ row.subject = document[t].subject /\ row.by = document[t].by
        /\ row.version = document[t].version
    BY <2>1 DEF DocumentRows
  <2>3. document' = [document EXCEPT ![t] = row]
    BY <1>3 DEF ReviewWrite
  <2>4. Amended(t) /\ Judged(t)
    BY <1>0, <2>1, <2>2, <2>3 DEF Amended, Judged
  <2> QED
    BY <1>0, <1>1, <2>1, <2>2, <2>3, <2>4
<1>4. ASSUME NEW p \in Handlers, DeleteWrite(p), document' # document
      PROVE  /\ document' \in [Documents -> DocumentRows \cup {None}]
             /\ \A d \in Documents : Amended(d) /\ Judged(d)
  <2> DEFINE u == handler[p].target
             row(d) == [document[d] EXCEPT !.reviewer = None]
  <2>1. document' = [d \in Documents |->
          IF Stored(d) /\ document[d].reviewer = u THEN row(d) ELSE document[d]]
    BY <1>4 DEF DeleteWrite, Erase
  <2>2. ASSUME NEW d \in Documents
        PROVE  document'[d] \in DocumentRows \cup {None} /\ Amended(d) /\ Judged(d)
    <3>1. CASE Stored(d) /\ document[d].reviewer = u
      <4>1. /\ row(d) \in DocumentRows /\ row(d).status = document[d].status
            /\ row(d).subject = document[d].subject /\ row(d).by = document[d].by
            /\ row(d).version = document[d].version
        BY <1>0, <3>1 DEF DocumentRows, Stored
      <4>2. document'[d] = row(d)
        BY <2>1, <3>1
      <4> QED
        BY <3>1, <4>1, <4>2 DEF Amended, Judged
    <3>2. CASE ~(Stored(d) /\ document[d].reviewer = u)
      BY <1>0, <1>1, <2>1, <3>2
    <3> QED
      BY <3>1, <3>2
  <2> QED
    BY <2>1, <2>2
<1>5. ASSUME NEW p \in Handlers, UploadWrite(p)
      PROVE  /\ document' \in [Documents -> DocumentRows \cup {None}]
             /\ handler[p].name \in Documents
             /\ NewVersion(p) \in DocumentRows /\ document'[handler[p].name] = NewVersion(p)
             /\ \A d \in Documents \ {handler[p].name} :
                  /\ Amended(d)
                  /\ d = handler[p].media => document'[d].status = "SUPERSEDED"
                  /\ d # handler[p].media => document'[d] = document[d]
  <2> DEFINE n == handler[p].name
             b == handler[p].media
             row == [document[b] EXCEPT !.status = "SUPERSEDED"]
  <2>1. /\ n \in Documents /\ handler[p].actor \in Users /\ handler[p].target \in Subjects
        /\ b \in Documents \cup {None}
        /\ b # None => document[b] # None
    BY <1>5, AtHand DEF UploadWrite, At, Needs, Uploads, TypeInv, Found
  <2>2. ASSUME b # None
        PROVE  /\ b \in Documents /\ Stored(b) /\ document[b] \in DocumentRows
               /\ row \in DocumentRows /\ row.status = "SUPERSEDED"
               /\ row.subject = document[b].subject /\ row.by = document[b].by
               /\ row.version = document[b].version
    BY <1>0, <2>1, <2>2 DEF DocumentRows, Stored
  <2>3. NewVersion(p) \in DocumentRows
    <3>1. b # None => document[b].version + 1 \in Nat
      BY <2>2 DEF DocumentRows
    <3> QED
      BY <2>1, <3>1 DEF NewVersion, DocumentRows
  <2>4. document' = [d \in Documents |-> IF d = n THEN NewVersion(p)
                                         ELSE IF d = b THEN row ELSE document[d]]
    BY <1>5, <2>2 DEF UploadWrite
  <2>5. document'[n] = NewVersion(p)
    BY <2>1, <2>4
  <2>6. ASSUME NEW d \in Documents \ {n}
        PROVE  /\ document'[d] \in DocumentRows \cup {None} /\ Amended(d)
               /\ d = b => document'[d].status = "SUPERSEDED"
               /\ d # b => document'[d] = document[d]
    <3>1. CASE d = b
      <4>1. b # None /\ document'[d] = row
        BY <2>4, <3>1, NoneAssumption
      <4> QED
        BY <2>2, <3>1, <4>1 DEF Amended
    <3>2. CASE d # b
      BY <1>0, <1>1, <2>4, <3>2
    <3> QED
      BY <3>1, <3>2
  <2>7. document' \in [Documents -> DocumentRows \cup {None}]
    BY <2>3, <2>4, <2>5, <2>6
  <2> QED
    BY <1>5, <2>1, <2>3, <2>5, <2>6, <2>7
<1> QED
  BY <1>2, <1>3, <1>4, <1>5, Written

\* Media and documents that are there stay.
LEMMA RowsLast ==
  ASSUME TypeInv, [Next]_vars
  PROVE  /\ \A m \in Media : media[m] # None => media'[m] # None
         /\ \A d \in Documents : Stored(d) => document'[d] # None
<1>1. \A m \in Media : media[m] # None => media'[m] # None
  BY MediaChanges, NoneAssumption DEF TypeInv, RowsTyped
<1>2. \A d \in Documents : Stored(d) => document'[d] # None
  BY DocumentChanges, NoDocumentAssumption DEF Amended, Stored
<1> QED
  BY <1>1, <1>2

\* The rows keep their types.
LEMMA RowsStep ==
  ASSUME TypeInv, [Next]_vars
  PROVE  RowsTyped'
<1>0. RowsTyped
  BY DEF TypeInv
<1>1. user' \in [Users -> UserRows \cup {None}]
  BY <1>0, UserChanges DEF RowsTyped, Erase
<1>2. profile' \in [Users -> ProfileRows \cup {None}]
  BY <1>0, ProfileChanges DEF RowsTyped, Erase
<1>3. media' \in [Media -> Names \cup {None}]
  BY <1>0, MediaChanges DEF RowsTyped
<1>4. document' \in [Documents -> DocumentRows \cup {None}]
  BY DocumentChanges
<1>5. object' \subseteq Documents
  BY <1>0, Written DEF RowsTyped, UploadPut
<1>6. gone' \subseteq Users
  <2>1. ASSUME NEW p \in Handlers, DeleteWrite(p)
        PROVE  gone' = gone \/ (gone' = gone \cup {handler[p].target} /\ handler[p].target \in Users)
    BY <2>1, AtHand DEF DeleteWrite, Erase, At, Needs, Administers
  <2> QED
    BY <1>0, <2>1, Written DEF RowsTyped
<1>7. authors' \subseteq Users
  BY <1>0, Written DEF RowsTyped, LeaveHistory
<1>8. owner' \in [Subjects -> Users \cup {None}]
  BY <1>0, Written DEF RowsTyped, OpenRequest
<1>9. contested' \subseteq Subjects
  BY <1>0, Written DEF RowsTyped, Upload
<1> QED
  BY <1>1, <1>2, <1>3, <1>4, <1>5, <1>6, <1>7, <1>8, <1>9 DEF RowsTyped

\* The steps of the seed keep its types, and nobody calls.
LEMMA SeedStep ==
  ASSUME TypeInv, SeedNext
  PROVE  SeedTyped' /\ UNCHANGED handler /\ ~Running
<1>1. SeedTyped
  BY DEF TypeInv
<1>2. CASE UpsertStaff("admin", AdminEmail, "ADMIN")
  BY <1>1, <1>2 DEF UpsertStaff, SeedGoto, SeedKeeps, SeedTyped, After, Running
<1>3. CASE UpsertStaff("staff", AgentEmail, "COMMISSION_VALIDATION")
  BY <1>1, <1>3 DEF UpsertStaff, SeedGoto, SeedKeeps, SeedTyped, After, Running
<1>4. CASE SeedMedia \/ SeedEditor \/ SeedProfile
  BY <1>1, <1>4 DEF SeedMedia, SeedEditor, SeedProfile, SeedGoto, SeedKeeps, SeedTyped, After, Running
<1>5. CASE SeedCatalogue
  <2>1. /\ seedAt \in CatalogueRows /\ catalogue' = catalogue \cup {seedAt}
        /\ seedAt' = After[seedAt] /\ UNCHANGED <<crashes, commands, handler>>
    BY <1>5 DEF SeedCatalogue, SeedGoto, SeedKeeps
  <2>2. seedAt' \in DOMAIN After
    BY <2>1 DEF CatalogueRows, After
  <2>3. ~Running
    BY <2>1 DEF CatalogueRows, Running
  <2> QED
    BY <1>1, <2>1, <2>2, <2>3 DEF SeedTyped
<1>6. CASE SeedCrash \/ Start
  BY <1>1, <1>6 DEF SeedCrash, Start, SeedTyped, After, Running
<1> QED
  BY <1>2, <1>3, <1>4, <1>5, <1>6 DEF SeedNext

\* What a handler does when the service runs.
LEMMA HandlerChanges ==
  ASSUME TypeInv, [Next]_vars
  PROVE  \/ UNCHANGED handler
         \/ /\ Running /\ UNCHANGED seedVars
            /\ \E p \in Handlers :
                 /\ \A q \in Handlers \ {p} : handler'[q] = handler[q]
                 /\ handler'[p] \in LoadedStates /\ handler' \in [Handlers -> LoadedStates]
                 /\ \/ Begins(p) /\ UNCHANGED <<accountVars, document, object, owner>>
                    \/ Steps(p) /\ (Moves(p) \/ handler'[p] = IdleHandler)
<1>0. handler \in [Handlers -> LoadedStates]
  BY DEF TypeInv
<1>1. CASE SeedNext
  BY <1>1, SeedStep
<1>2. ASSUME NEW p \in Handlers, Calls(p), Running
      PROVE  /\ \A q \in Handlers \ {p} : handler'[q] = handler[q]
             /\ handler'[p] \in LoadedStates /\ handler' \in [Handlers -> LoadedStates]
             /\ UNCHANGED seedVars
             /\ Begins(p) /\ UNCHANGED <<accountVars, document, object, owner>>
  <2>1. \E call : Become(p, call)
    BY <1>2 DEF Calls, AccountCalls, Register, AddJournalist, CreateStaffUser, UpdateStaffUser,
       UpdateStatus, DeleteStaffUser, CreateMedia, UpdateMedia, UpdateEditorInChiefFlag, Upload,
       Review, Arrives, Call
  <2> QED
    BY <1>0, <1>2, <2>1, CallsBegin, BecomeRow DEF Begins
<1>3. ASSUME NEW p \in Handlers, Steps(p), Running
      PROVE  /\ \A q \in Handlers \ {p} : handler'[q] = handler[q]
             /\ handler'[p] \in LoadedStates /\ handler' \in [Handlers -> LoadedStates]
             /\ UNCHANGED seedVars
             /\ Steps(p) /\ (Moves(p) \/ handler'[p] = IdleHandler)
  <2>1. /\ Moves(p) \/ Return(p)
        /\ UNCHANGED seedVars
    BY <1>3, StepsMove
  <2>2. CASE Return(p)
    BY <1>0, <1>3, <2>1, <2>2, BecomeRow, IdleLoaded DEF Return
  <2>3. CASE Moves(p)
    <3>1. \E s : Become(p, s)
      BY <2>3 DEF Moves, Goto, UploadFind, UploadPut
    <3> QED
      BY <1>0, <1>3, <2>1, <2>3, <3>1, BecomeRow, MovesLoaded
  <2> QED
    BY <2>1, <2>2, <2>3
<1>4. CASE \E a \in Users : LeaveHistory(a) /\ UNCHANGED <<documentVars, seedVars>>
  BY <1>4 DEF LeaveHistory
<1>5. CASE \E s \in Subjects, u \in Users : OpenRequest(s, u)
  BY <1>5 DEF OpenRequest
<1>6. CASE UNCHANGED vars
  BY <1>6 DEF vars
<1> QED
  BY <1>1, <1>2, <1>3, <1>4, <1>5, <1>6, ServingSteps DEF Next

\* A handler that moves finds what its next place relies on.
LEMMA MovesFound ==
  ASSUME TypeInv, [Next]_vars, NEW p \in Handlers, Moves(p) \/ Begins(p)
  PROVE  Found(handler'[p], media', document')
<1>0. /\ handler \in [Handlers -> LoadedStates] /\ handler[p] \in HandlerStates
      /\ Needs(handler[p]) /\ Found(handler[p], media, document)
  BY AtHand DEF TypeInv
<1>1. handler'[p].pc \in {"mediaRename", "reviewWrite", "uploadPut", "uploadWrite"}
        => Moves(p)
  BY DEF Begins, First
<1>2. CASE At(p, "mediaRead") /\ media[handler[p].media] # None /\ Goto(p, "mediaRename")
  <2>1. handler'[p].pc = "mediaRename" /\ handler'[p].media = handler[p].media
    BY <1>0, <1>2, GotoRow DEF Places
  <2> QED
    BY <1>0, <1>2, <2>1, RowsLast DEF Found, At, Needs
<1>3. CASE At(p, "reviewFind") /\ Stored(handler[p].target) /\ Goto(p, "reviewWrite")
  <2>1. handler'[p].pc = "reviewWrite" /\ handler'[p].target = handler[p].target
    BY <1>0, <1>3, GotoRow DEF Places
  <2> QED
    BY <1>0, <1>3, <2>1, RowsLast DEF Found, At, Needs, Reviews
<1>4. CASE UploadFind(p)
  <2>1. CASE Goto(p, "uploadPut")
    <3>1. handler'[p].pc = "uploadPut" /\ handler'[p].media = None
      BY <1>0, <1>4, <2>1, GotoRow DEF Places, UploadFind, At, Needs
    <3> QED
      BY <3>1 DEF Found
  <2>2. ASSUME NEW d \in Documents, Latest(d, handler[p].target),
               Become(p, [handler[p] EXCEPT !.pc = "uploadPut", !.media = d])
        PROVE  Found(handler'[p], media', document')
    <3>0. handler'[p] = [handler[p] EXCEPT !.pc = "uploadPut", !.media = d]
      BY <1>0, <2>2, BecomeRow
    <3>1. handler'[p].pc = "uploadPut" /\ handler'[p].media = d
      BY <1>0, <3>0 DEF HandlerStates
    <3>2. Stored(d)
      BY <2>2 DEF Latest, Of
    <3> QED
      BY <3>1, <3>2, RowsLast DEF Found
  <2> QED
    BY <1>4, <2>1, <2>2 DEF UploadFind
<1>5. CASE UploadPut(p)
  <2>1. PICK d \in Documents : Become(p, [handler[p] EXCEPT !.pc = "uploadWrite", !.name = d])
    BY <1>5 DEF UploadPut
  <2>0. handler'[p] = [handler[p] EXCEPT !.pc = "uploadWrite", !.name = d]
    BY <1>0, <2>1, BecomeRow
  <2>2. handler'[p].pc = "uploadWrite" /\ handler'[p].media = handler[p].media
    BY <1>0, <2>0 DEF HandlerStates
  <2>3. handler[p].media \in Documents \cup {None} /\ handler[p].pc = "uploadPut"
    BY <1>0, <1>5 DEF UploadPut, At, Needs
  <2> QED
    BY <1>0, <2>2, <2>3, RowsLast DEF Found, Stored
<1>6. ASSUME NEW place \in Places \ {"mediaRename", "reviewWrite", "uploadPut", "uploadWrite"},
             handler'[p].pc = place
      PROVE  Found(handler'[p], media', document')
  BY <1>6 DEF Found
<1>7. CASE Begins(p)
  BY <1>7 DEF Begins, First, Found
<1>8. CASE Moves(p)
  <2>1. \/ UploadFind(p) \/ UploadPut(p)
        \/ At(p, "mediaRead") /\ media[handler[p].media] # None /\ Goto(p, "mediaRename")
        \/ At(p, "reviewFind") /\ Stored(handler[p].target) /\ Goto(p, "reviewWrite")
        \/ \E s : Become(p, s) /\ s.pc \in {"address", "profileMedia"}
        \/ \E place \in {"createUser", "profileWrite", "roleWrite", "statusWrite", "deleteWrite",
                         "mediaCreate", "flagWrite", "uploadFind"} : Goto(p, place)
    <3>1. \A m : [handler[p] EXCEPT !.pc = "address", !.media = m].pc = "address"
      BY <1>0 DEF HandlerStates
    <3>2. \A u : [handler[p] EXCEPT !.pc = "profileMedia", !.target = u].pc = "profileMedia"
      BY <1>0 DEF HandlerStates
    <3> QED
      BY <1>8, <3>1, <3>2 DEF Moves
  <2>2. ASSUME NEW s, Become(p, s), s.pc \in {"address", "profileMedia"}
        PROVE  handler'[p].pc \in {"address", "profileMedia"}
    BY <1>0, <2>2, BecomeRow
  <2>3. ASSUME NEW place \in {"createUser", "profileWrite", "roleWrite", "statusWrite",
                              "deleteWrite", "mediaCreate", "flagWrite", "uploadFind"},
               Goto(p, place)
        PROVE  handler'[p].pc = place
    BY <1>0, <2>3, GotoRow DEF Places
  <2> QED
    BY <1>2, <1>3, <1>4, <1>5, <1>6, <2>1, <2>2, <2>3 DEF Places
<1> QED
  BY <1>7, <1>8

\* Every step keeps the types of what the seed keeps and of the calls counted.
LEMMA CountStep ==
  ASSUME TypeInv, [Next]_vars
  PROVE  SeedTyped'
<1>0. SeedTyped
  BY DEF TypeInv
<1>1. CASE SeedNext
  BY <1>1, SeedStep
<1>2. ASSUME UNCHANGED seedVars, commands' = commands \/ commands' = commands + 1
      PROVE  SeedTyped'
  BY <1>0, <1>2 DEF SeedTyped, seedVars
<1>3. CASE \E p \in Handlers : Calls(p)
  BY <1>2, <1>3, CallsBegin DEF TypeInv
<1>4. CASE \E p \in Handlers : Steps(p)
  BY <1>2, <1>4, StepsMove
<1>5. CASE \E a \in Users : LeaveHistory(a) /\ UNCHANGED <<documentVars, seedVars>>
  BY <1>2, <1>5 DEF LeaveHistory
<1>6. CASE \E s \in Subjects, u \in Users : OpenRequest(s, u)
  BY <1>2, <1>6 DEF OpenRequest
<1>7. CASE UNCHANGED vars
  BY <1>2, <1>7 DEF vars, seedVars
<1> QED
  BY <1>1, <1>3, <1>4, <1>5, <1>6, <1>7, ServingSteps DEF Next

\* The service keeps running.
LEMMA KeepsRunning ==
  ASSUME TypeInv, [Next]_vars, Running
  PROVE  Running'
<1>1. ~SeedNext
  BY SeedStep
<1>2. UNCHANGED seedVars
  BY <1>1, CallsBegin, StepsMove, ServingSteps
  DEF Next, vars, seedVars, LeaveHistory, OpenRequest, TypeInv
<1> QED
  BY <1>2 DEF Running, seedVars

\* Every step keeps the types.
LEMMA TypeStep == TypeInv /\ [Next]_vars => TypeInv'
<1> SUFFICES ASSUME TypeInv, [Next]_vars PROVE TypeInv'
  OBVIOUS
<1>1. RowsTyped' /\ SeedTyped' /\ (Running => Running')
  BY RowsStep, CountStep, KeepsRunning
<1>2. ASSUME NEW q \in Handlers, handler'[q] = handler[q]
      PROVE  Found(handler'[q], media', document')
  BY <1>2, AtHand, RowsLast DEF TypeInv, Found, Needs, Uploads, Reviews, OnMedia, Stored
<1>3. CASE UNCHANGED handler
  <2>1. \A p \in Handlers : Found(handler'[p], media', document')
    BY <1>2, <1>3
  <2> QED
    BY <1>1, <1>3, <2>1 DEF TypeInv, At
<1>4. ASSUME Running, NEW p \in Handlers, \A q \in Handlers \ {p} : handler'[q] = handler[q],
             handler' \in [Handlers -> LoadedStates],
             Begins(p) \/ Moves(p) \/ handler'[p] = IdleHandler
      PROVE  TypeInv'
  <2>1. Found(handler'[p], media', document')
    BY <1>4, MovesFound, IdleLoaded
  <2>2. \A q \in Handlers : Found(handler'[q], media', document')
    BY <1>2, <1>4, <2>1
  <2> QED
    BY <1>1, <1>4, <2>2 DEF TypeInv
<1> QED
  BY <1>3, <1>4, HandlerChanges

LEMMA TypeInit == Init => TypeInv
<1> SUFFICES ASSUME Init PROVE TypeInv
  OBVIOUS
<1>1. RowsTyped
  BY DEF Init, RowsTyped
<1>2. SeedTyped
  BY DEF Init, SeedTyped, After
<1>3. \A p \in Handlers : handler[p] = IdleHandler
  BY DEF Init
<1>4. handler \in [Handlers -> LoadedStates] /\ \A p \in Handlers : Found(handler[p], media, document)
  BY <1>3, IdleLoaded DEF Init
<1> QED
  BY <1>1, <1>2, <1>3, <1>4, IdleLoaded DEF TypeInv, At

LEMMA Typed == Spec => []TypeInv
  BY TypeInit, TypeStep, PTL DEF Spec

LEMMA TypeInvSuffices == TypeInv => TypeOK
  BY DEF TypeInv, RowsTyped, SeedTyped, LoadedStates, Needs, Found, Reviews, TypeOK, At, Stored

\* The rows, the seed and the handlers have their types in every reachable
\* state, and a handler about to write a medium or a document has found it.
THEOREM BackOfficeTyped == Spec => []TypeOK
  BY Typed, TypeInvSuffices, PTL

-----------------------------------------------------------------------------
(* Accounts and profiles.                                                  *)

\* An account that changes keeps addresses apart.
LEMMA UniqueStep ==
  ASSUME TypeInv, UniqueEmails, [Next]_vars
  PROVE  UniqueEmails'
<1>0. user \in [Users -> UserRows \cup {None}]
  BY DEF TypeInv, RowsTyped
<1>1. CASE user' = user
  BY <1>1 DEF UniqueEmails, Exists
<1>2. ASSUME NEW u \in Users, NEW row \in UserRows, user' = [user EXCEPT ![u] = row],
             Born(u, row)
      PROVE  UniqueEmails'
  <2>1. \A v \in Users : Exists(v) => user[v].email # row.email
    BY <1>2 DEF Born, Taken
  <2>2. user'[u] = row /\ \A v \in Users \ {u} : user'[v] = user[v]
    BY <1>0, <1>2
  <2> QED
    BY <2>1, <2>2 DEF UniqueEmails, Exists
<1>3. ASSUME NEW u \in Users, NEW row \in UserRows, user' = [user EXCEPT ![u] = row],
             Kept(u, row)
      PROVE  UniqueEmails'
  <2>1. Exists(u) /\ row.email = user[u].email
    BY <1>3 DEF Kept
  <2>2. user'[u] = row /\ \A v \in Users \ {u} : user'[v] = user[v]
    BY <1>0, <1>3
  <2> QED
    BY <2>1, <2>2 DEF UniqueEmails, Exists
<1>4. ASSUME NEW u \in Users, Erase(u)
      PROVE  UniqueEmails'
  <2>1. user'[u] = None /\ \A v \in Users \ {u} : user'[v] = user[v]
    BY <1>0, <1>4 DEF Erase
  <2> QED
    BY <2>1 DEF UniqueEmails, Exists
<1> QED
  BY <1>1, <1>2, <1>3, <1>4, UserChanges

\* An address has one account, whatever registrations, invitations, creations
\* of staff and deletions overlap.
THEOREM OneAccountAnAddress == Spec => []UniqueEmails
<1>1. Init => UniqueEmails
  BY DEF Init, UniqueEmails, Exists
<1> QED
  BY <1>1, Typed, UniqueStep, PTL DEF Spec

\* An identifier that was given to an account.
Known(u) == Exists(u) \/ u \in gone

\* A registration writes the profile of the account it created, a change of
\* role that of a member of the staff, unless it was deleted since.
Backed(p) ==
  /\ handler[p].pc \in {"profileMedia", "profileWrite"} =>
       /\ Known(handler[p].target)
       /\ Exists(handler[p].target) => user[handler[p].target].role = None
  /\ handler[p].pc = "profileWrite" => media[handler[p].media] # None
  /\ handler[p].pc = "roleWrite" =>
       /\ Known(handler[p].target)
       /\ Exists(handler[p].target) => user[handler[p].target].role # None

\* The inductive form of ProfilesBacked.  The editor of the seed is a requester.
ProfilesInv ==
  /\ ProfilesBacked
  /\ \A p \in Handlers : Backed(p)
  /\ ~Running => \A u \in Users : Exists(u) /\ user[u].email = EditorEmail => user[u].role = None

\* Deleted accounts do not come back.
LEMMA GoneLast ==
  ASSUME [Next]_vars
  PROVE  gone \subseteq gone'
  BY Written DEF DeleteWrite, Erase

\* An account stays a requester or a member of the staff until it is deleted,
\* and its profile with it.
LEMMA KindsLast ==
  ASSUME TypeInv, ProfilesInv, [Next]_vars, NEW u \in Users, Known(u)
  PROVE  /\ Known(u)'
         /\ Exists(u)' => Exists(u) /\ (user'[u].role = None <=> user[u].role = None)
         /\ Exists(u) /\ ~Exists(u)' => profile'[u] = None
<1>0. user \in [Users -> UserRows \cup {None}] /\ profile \in [Users -> ProfileRows \cup {None}]
  BY DEF TypeInv, RowsTyped
<1>1. CASE user'[u] = user[u]
  BY <1>1, GoneLast DEF Known, Exists
<1>2. ASSUME NEW v \in Users, NEW row \in UserRows, user' = [user EXCEPT ![v] = row],
             Born(v, row) \/ Kept(v, row), user'[u] # user[u]
      PROVE  Exists(u) /\ Exists(u)' /\ (user'[u].role = None <=> user[u].role = None)
  <2>1. u = v /\ user'[u] = row
    BY <1>0, <1>2
  <2>2. Exists(u) /\ Kept(u, row)
    BY <1>2, <2>1 DEF Born, Kept, Known
  <2>3. row # None /\ None \notin Staff
    BY NoRowAssumption
  <2>4. ASSUME NEW p \in Handlers, RoleWrite(p), handler[p].target = u
        PROVE  user[u].role # None
    BY <2>2, <2>4 DEF ProfilesInv, Backed, RoleWrite, At
  <2> QED
    BY <2>1, <2>2, <2>3, <2>4 DEF Kept, Exists
<1>3. ASSUME NEW v \in Users, Erase(v), user'[u] # user[u]
      PROVE  user'[u] = None /\ u \in gone' /\ profile'[u] = None
  <2>1. u = v
    BY <1>0, <1>3 DEF Erase
  <2> QED
    BY <1>0, <1>3, <2>1 DEF Erase
<1> QED
  BY <1>1, <1>2, <1>3, UserChanges DEF Known, Exists

\* Before the service starts the editor alone gets the address of the editor.
LEMMA SeedUsers ==
  ASSUME TypeInv, ProfilesInv, [Next]_vars, ~Running'
  PROVE  \A u \in Users : user'[u] # None /\ user'[u].email = EditorEmail => user'[u].role = None
<1>0. user \in [Users -> UserRows \cup {None}]
  BY DEF TypeInv, RowsTyped
<1>1. ~Running /\ \A u \in Users : Exists(u) /\ user[u].email = EditorEmail => user[u].role = None
  BY KeepsRunning DEF ProfilesInv
<1>2. CASE user' = user
  BY <1>1, <1>2 DEF Exists
<1>3. ASSUME NEW v \in Users, NEW email, NEW role, NewUser(v, email, role),
             email = EditorEmail => role = None
      PROVE  \A u \in Users : user'[u] # None /\ user'[u].email = EditorEmail => user'[u].role = None
  <2>1. user' = [user EXCEPT ![v] = [email |-> email, role |-> role, active |-> TRUE]]
    BY <1>3 DEF NewUser
  <2>2. /\ user'[v].email = email /\ user'[v].role = role
        /\ \A u \in Users \ {v} : user'[u] = user[u]
    BY <1>0, <2>1
  <2> QED
    BY <1>1, <1>3, <2>2 DEF Exists
<1>4. SeedNext \/ UNCHANGED vars
  BY <1>1 DEF Next
<1>5. CASE UpsertStaff("admin", AdminEmail, "ADMIN")
  BY <1>2, <1>3, <1>5, SeedAssumption DEF UpsertStaff
<1>6. CASE UpsertStaff("staff", AgentEmail, "COMMISSION_VALIDATION")
  BY <1>2, <1>3, <1>6, SeedAssumption DEF UpsertStaff
<1>7. CASE SeedEditor
  BY <1>2, <1>3, <1>7 DEF SeedEditor
<1>8. CASE SeedMedia \/ SeedCatalogue \/ SeedProfile \/ SeedCrash \/ Start \/ UNCHANGED vars
  BY <1>2, <1>8 DEF SeedMedia, SeedCatalogue, SeedProfile, SeedCrash, Start, accountVars, vars
<1> QED
  BY <1>4, <1>5, <1>6, <1>7, <1>8 DEF SeedNext

\* A profile that is written has its account and its medium.
LEMMA ProfilesStep ==
  ASSUME TypeInv, ProfilesInv, [Next]_vars
  PROVE  ProfilesBacked'
<1>0. /\ profile \in [Users -> ProfileRows \cup {None}]
      /\ None \notin ProfileRows
  BY NoRowAssumption DEF TypeInv, RowsTyped
<1>1. ASSUME NEW u \in Users, profile'[u] # None, profile[u] # None,
             profile'[u].media = profile[u].media
      PROVE  Exists(u)' /\ user'[u].role = None /\ media'[profile'[u].media] # None
  <2>1. Exists(u) /\ user[u].role = None /\ media[profile[u].media] # None
    BY <1>1 DEF ProfilesInv, ProfilesBacked
  <2>2. profile[u].media \in Media
    BY <1>0, <1>1 DEF ProfileRows
  <2> QED
    BY <1>1, <2>1, <2>2, KindsLast, RowsLast DEF Known
<1>2. ASSUME NEW v \in Users, NEW row \in ProfileRows, profile' = [profile EXCEPT ![v] = row],
             user' = user, Exists(v), user[v].role = None, media[row.media] # None
      PROVE  ProfilesBacked'
  <2>1. profile'[v] = row /\ \A u \in Users \ {v} : profile'[u] = profile[u]
    BY <1>0, <1>2
  <2>2. row.media \in Media
    BY DEF ProfileRows
  <2>3. Exists(v)' /\ user'[v].role = None /\ media'[profile'[v].media] # None
    BY <1>2, <2>1, <2>2, RowsLast DEF Exists
  <2> QED
    BY <1>1, <2>1, <2>3 DEF ProfilesBacked
<1>3. CASE profile' = profile
  BY <1>1, <1>3 DEF ProfilesBacked
<1>4. ASSUME NEW v \in Users, Erase(v)
      PROVE  ProfilesBacked'
  <2>1. profile'[v] = None /\ \A u \in Users \ {v} : profile'[u] = profile[u]
    BY <1>0, <1>4 DEF Erase
  <2> QED
    BY <1>1, <2>1 DEF ProfilesBacked
<1>5. ASSUME NEW p \in Handlers, ProfileWrite(p)
      PROVE  /\ Exists(handler[p].target) /\ user[handler[p].target].role = None
             /\ media[handler[p].media] # None
  BY <1>5 DEF ProfileWrite, At, ProfilesInv, Backed
<1>6. ASSUME NEW v \in Users, profile[v] # None
      PROVE  Exists(v) /\ user[v].role = None /\ media[profile[v].media] # None
  BY <1>6 DEF ProfilesInv, ProfilesBacked
<1>7. ASSUME NEW v \in Users, Exists(v), user[v].email = EditorEmail, SeedProfile
      PROVE  user[v].role = None
  <2>1. ~Running
    BY <1>7, SeedStep DEF SeedNext
  <2> QED
    BY <1>7, <2>1 DEF ProfilesInv
<1>8. DemoMedia # None
  BY SeedAssumption, NoneAssumption
<1> QED
  BY <1>2, <1>3, <1>4, <1>5, <1>6, <1>7, <1>8, ProfileChanges

\* A handler that goes on has the account or the medium it found.
LEMMA BackedMoves ==
  ASSUME TypeInv, ProfilesInv, [Next]_vars, NEW p \in Handlers, Moves(p)
  PROVE  Backed(p)'
<1>0. /\ handler \in [Handlers -> LoadedStates] /\ handler[p] \in HandlerStates
      /\ Needs(handler[p]) /\ Backed(p)
      /\ user \in [Users -> UserRows \cup {None}]
  BY AtHand DEF TypeInv, RowsTyped, ProfilesInv
<1>1. ASSUME At(p, "createUser"), NEW u \in Users, NewUser(u, handler[p].email, None),
             Become(p, [handler[p] EXCEPT !.pc = "profileMedia", !.target = u])
      PROVE  Backed(p)'
  <2> DEFINE row == [email |-> handler[p].email, role |-> None, active |-> TRUE]
  <2>0. handler'[p] = [handler[p] EXCEPT !.pc = "profileMedia", !.target = u]
    BY <1>0, <1>1, BecomeRow
  <2>1. handler'[p].pc = "profileMedia" /\ handler'[p].target = u
    BY <1>0, <2>0 DEF HandlerStates
  <2>2. row \in UserRows /\ row.role = None
    BY <1>0, <1>1 DEF At, Needs, UserRows
  <2>3. user'[u] = row
    BY <1>0, <1>1 DEF NewUser
  <2> QED
    BY <2>1, <2>2, <2>3, NoRowAssumption DEF Backed, Known, Exists
<1>2. CASE At(p, "profileMedia") /\ media[handler[p].media] # None /\ Goto(p, "profileWrite")
  <2>1. /\ handler'[p].pc = "profileWrite" /\ handler'[p].target = handler[p].target
        /\ handler'[p].media = handler[p].media
    BY <1>0, <1>2, GotoRow DEF Places
  <2>2. handler[p].target \in Users /\ handler[p].media \in Media /\ Known(handler[p].target)
    BY <1>0, <1>2 DEF At, Needs, Backed
  <2>3. Exists(handler[p].target) => user[handler[p].target].role = None
    BY <1>0, <1>2 DEF At, Backed
  <2> QED
    BY <1>2, <2>1, <2>2, <2>3, KindsLast, RowsLast DEF Backed, Known, Exists
<1>3. CASE At(p, "roleFind") /\ IsStaff(handler[p].target) /\ Goto(p, "roleWrite")
  <2>1. handler'[p].pc = "roleWrite" /\ handler'[p].target = handler[p].target
    BY <1>0, <1>3, GotoRow DEF Places
  <2>2. handler[p].target \in Users
    BY <1>0, <1>3 DEF At, Needs, Administers
  <2> QED
    BY <1>3, <2>1, <2>2, KindsLast DEF Backed, Known, Exists, IsStaff
<1>4. CASE handler'[p].pc \notin {"profileMedia", "profileWrite", "roleWrite"}
  BY <1>4 DEF Backed
<1>5. CASE \E s : Become(p, s) /\ s.pc \in {"address", "uploadPut", "uploadWrite"}
  BY <1>0, <1>4, <1>5, BecomeRow
<1>6. CASE \E place \in {"createUser", "statusWrite", "deleteWrite", "mediaCreate", "mediaRename",
                         "flagWrite", "uploadFind", "uploadPut", "reviewWrite"} : Goto(p, place)
  BY <1>0, <1>4, <1>6, GotoRow DEF Places
<1>7. \/ \E s : Become(p, s) /\ s.pc \in {"address", "uploadPut", "uploadWrite"}
      \/ \E place \in {"createUser", "statusWrite", "deleteWrite", "mediaCreate", "mediaRename",
                       "flagWrite", "uploadFind", "uploadPut", "reviewWrite"} : Goto(p, place)
      \/ At(p, "profileMedia") /\ media[handler[p].media] # None /\ Goto(p, "profileWrite")
      \/ At(p, "roleFind") /\ IsStaff(handler[p].target) /\ Goto(p, "roleWrite")
      \/ /\ At(p, "createUser")
         /\ \E u \in Users :
              /\ NewUser(u, handler[p].email, None)
              /\ Become(p, [handler[p] EXCEPT !.pc = "profileMedia", !.target = u])
  <2>1. /\ \A m : [handler[p] EXCEPT !.pc = "address", !.media = m].pc = "address"
        /\ \A d : [handler[p] EXCEPT !.pc = "uploadPut", !.media = d].pc = "uploadPut"
        /\ \A d : [handler[p] EXCEPT !.pc = "uploadWrite", !.name = d].pc = "uploadWrite"
    BY <1>0 DEF HandlerStates
  <2> QED
    BY <2>1 DEF Moves, UploadFind, UploadPut
<1> QED
  BY <1>1, <1>2, <1>3, <1>5, <1>6, <1>7

LEMMA ProfilesInvStep ==
  ASSUME TypeInv, ProfilesInv, [Next]_vars
  PROVE  ProfilesInv'
<1>1. ASSUME NEW q \in Handlers, handler'[q] = handler[q]
      PROVE  Backed(q)'
  <2>1. /\ Backed(q) /\ Needs(handler[q])
    BY AtHand DEF ProfilesInv
  <2>2. handler[q].pc \in {"profileMedia", "profileWrite", "roleWrite"} => handler[q].target \in Users
    BY <2>1 DEF Needs, Administers
  <2>3. handler[q].pc = "profileWrite" => handler[q].media \in Media
    BY <2>1 DEF Needs
  <2> QED
    BY <1>1, <2>1, <2>2, <2>3, KindsLast, RowsLast DEF Backed
<1>2. ASSUME NEW p \in Handlers, handler'[p] = IdleHandler \/ Begins(p)
      PROVE  Backed(p)'
  BY <1>2, IdleLoaded DEF Begins, First, Backed
<1>3. \A p \in Handlers : Backed(p)'
  <2>1. CASE UNCHANGED handler
    BY <1>1, <2>1
  <2>2. ASSUME NEW p \in Handlers, \A q \in Handlers \ {p} : handler'[q] = handler[q],
               Begins(p) \/ Moves(p) \/ handler'[p] = IdleHandler
        PROVE  \A q \in Handlers : Backed(q)'
    BY <1>1, <1>2, <2>2, BackedMoves
  <2> QED
    BY <2>1, <2>2, HandlerChanges
<1>4. ~Running' => \A u \in Users : user'[u] # None /\ user'[u].email = EditorEmail
                                      => user'[u].role = None
  BY SeedUsers
<1> QED
  BY <1>3, <1>4, ProfilesStep DEF ProfilesInv, Exists, Running

\* A profile has its account, which is a requester, and its medium, whatever
\* calls of other handlers came between the account and the profile.
THEOREM ProfilesHaveAccounts == Spec => []ProfilesBacked
<1>1. Init => ProfilesInv
  BY IdleLoaded DEF Init, ProfilesInv, ProfilesBacked, Backed, Exists
<1>2. ProfilesInv => ProfilesBacked
  BY DEF ProfilesInv
<1> QED
  BY <1>1, <1>2, Typed, ProfilesInvStep, PTL DEF Spec

-----------------------------------------------------------------------------
(* Documents and their files.                                              *)

\* An account that disappears is erased, and no restricting row refers to it.
LEMMA ExistsLast ==
  ASSUME TypeInv, [Next]_vars, NEW u \in Users, Exists(u), ~Exists(u)'
  PROVE  ~Restricted(u)
<1>0. user \in [Users -> UserRows \cup {None}] /\ None \notin UserRows
  BY NoRowAssumption DEF TypeInv, RowsTyped
<1>1. user'[u] # user[u]
  BY DEF Exists
<1>2. ASSUME NEW v \in Users, NEW row \in UserRows, user' = [user EXCEPT ![v] = row]
      PROVE  Exists(u)'
  BY <1>0, <1>1, <1>2 DEF Exists
<1>3. ASSUME NEW v \in Users, Erase(v)
      PROVE  u = v
  BY <1>0, <1>1, <1>3 DEF Erase
<1> QED
  BY <1>1, <1>2, <1>3, UserChanges

\* The inductive form of DocumentsBacked: the file is there before the row.
DocumentsInv ==
  /\ DocumentsBacked
  /\ \A p \in Handlers : At(p, "uploadWrite") => handler[p].name \in object

\* Files stay.
LEMMA ObjectsLast ==
  ASSUME [Next]_vars
  PROVE  object \subseteq object'
  BY Written DEF UploadPut

LEMMA DocumentsInvStep ==
  ASSUME TypeInv, DocumentsInv, [Next]_vars
  PROVE  DocumentsInv'
<1>0. /\ handler \in [Handlers -> LoadedStates]
      /\ document \in [Documents -> DocumentRows \cup {None}] /\ None \notin DocumentRows
  BY NoDocumentAssumption DEF TypeInv, RowsTyped
<1>1. ASSUME NEW d \in Documents, Amended(d), document'[d] # None
      PROVE  d \in object' /\ Exists(document[d].by)' /\ document'[d].by = document[d].by
  <2>1. /\ Stored(d) /\ d \in object /\ Exists(document[d].by) /\ document'[d].by = document[d].by
    BY <1>1 DEF Amended, DocumentsInv, DocumentsBacked, Stored
  <2>2. document[d].by \in Users /\ Restricted(document[d].by)
    BY <1>0, <2>1 DEF Stored, DocumentRows, Restricted
  <2> QED
    BY <2>1, <2>2, ExistsLast, ObjectsLast
<1>2. ASSUME NEW p \in Handlers, UploadWrite(p), handler[p].name \in Documents,
             document'[handler[p].name] = NewVersion(p),
             \A d \in Documents \ {handler[p].name} : Amended(d)
      PROVE  DocumentsBacked'
  <2>1. user'[NewVersion(p).by] # None /\ handler[p].name \in object'
    BY <1>2, ObjectsLast DEF UploadWrite, DocumentsInv, NewVersion, accountVars, Exists
  <2> QED
    BY <1>1, <1>2, <2>1 DEF DocumentsBacked, Stored, Exists
<1>3. DocumentsBacked'
  <2>1. CASE \A d \in Documents : Amended(d)
    BY <1>1, <2>1 DEF DocumentsBacked, Stored
  <2> QED
    BY <1>2, <2>1, DocumentChanges
<1>4. ASSUME NEW q \in Handlers, handler'[q] = handler[q], At(q, "uploadWrite")'
      PROVE  handler'[q].name \in object'
  BY <1>4, ObjectsLast DEF At, DocumentsInv
<1>5. ASSUME NEW p \in Handlers, Moves(p), handler'[p].pc = "uploadWrite"
      PROVE  handler'[p].name \in object'
  <2>1. UploadPut(p)
    BY <1>0, <1>5, MovesTo
  <2>2. PICK d \in Documents :
          /\ object' = object \cup {d}
          /\ Become(p, [handler[p] EXCEPT !.pc = "uploadWrite", !.name = d])
    BY <2>1 DEF UploadPut
  <2>3. handler'[p] = [handler[p] EXCEPT !.pc = "uploadWrite", !.name = d]
    BY <1>0, <2>2, BecomeRow
  <2> QED
    BY <1>0, <2>2, <2>3 DEF LoadedStates, HandlerStates
<1>6. ASSUME NEW p \in Handlers, handler'[p] = IdleHandler \/ Begins(p)
      PROVE  handler'[p].pc # "uploadWrite"
  BY <1>6, IdleLoaded DEF Begins, First
<1>7. ASSUME NEW q \in Handlers, At(q, "uploadWrite")'
      PROVE  handler'[q].name \in object'
  <2>1. CASE UNCHANGED handler
    BY <1>4, <1>7, <2>1
  <2>2. ASSUME NEW p \in Handlers, \A r \in Handlers \ {p} : handler'[r] = handler[r],
               Begins(p) \/ Moves(p) \/ handler'[p] = IdleHandler
        PROVE  handler'[q].name \in object'
    BY <1>4, <1>5, <1>6, <1>7, <2>2 DEF At
  <2> QED
    BY <2>1, <2>2, HandlerChanges
<1> QED
  BY <1>3, <1>7 DEF DocumentsInv

\* A document has its file, and the account that uploaded it is there.
THEOREM DocumentsHaveFiles == Spec => []DocumentsBacked
<1>1. Init => DocumentsInv
  BY IdleLoaded DEF Init, DocumentsInv, DocumentsBacked, At, Stored
<1>2. DocumentsInv => DocumentsBacked
  BY DEF DocumentsInv
<1> QED
  BY <1>1, <1>2, Typed, DocumentsInvStep, PTL DEF Spec

-----------------------------------------------------------------------------
(* The seed.                                                               *)

EditorHasProfile == \E u \in Users : profile[u] # None /\ profile[u].editor
DemoStored == \E m \in Media : media[m] = DemoMedia

\* The steps after each of the catalogue.
AfterQuotas == {"editor", "profile", "done"}
AfterMatch == AfterQuotas \cup {"quotas"}
AfterCompetition == AfterMatch \cup {"match"}
AfterZones == AfterCompetition \cup {"competition"}
AfterCategories == AfterZones \cup {"zones"}

CatalogueFilled ==
  /\ seedAt \in AfterCategories => "categories" \in catalogue
  /\ seedAt \in AfterZones => "zones" \in catalogue
  /\ seedAt \in AfterCompetition => "competition" \in catalogue
  /\ seedAt \in AfterMatch => "match" \in catalogue
  /\ seedAt \in AfterQuotas => "quotas" \in catalogue

StaffFilled ==
  /\ seedAt # "admin" => Taken(AdminEmail)
  /\ seedAt \notin {"admin", "staff"} => Taken(AgentEmail)
  /\ seedAt \notin {"admin", "staff", "media"} => DemoStored

\* A seed that never died meets its editor once.
EditorFilled ==
  /\ seedAt \in {"profile", "done"} => Taken(EditorEmail)
  /\ crashes = 0 /\ seedAt \notin {"profile", "done"} => ~Taken(EditorEmail)
  /\ crashes = 0 /\ seedAt = "done" => EditorHasProfile

\* The inductive form of SeedComplete: what the steps that are over have left.
SeedInv == ~Running => CatalogueFilled /\ StaffFilled /\ EditorFilled

\* The seed deletes no account, and a new one takes one address.
LEMMA SeedTakes ==
  ASSUME TypeInv, NEW u \in Users, NEW email \in Emails, NEW role \in Staff \cup {None},
         NewUser(u, email, role)
  PROVE  Taken(email)' /\ \A e \in Emails \ {email} : Taken(e)' <=> Taken(e)
<1>0. user \in [Users -> UserRows \cup {None}]
  BY DEF TypeInv, RowsTyped
<1> DEFINE row == [email |-> email, role |-> role, active |-> TRUE]
<1>1. row \in UserRows /\ row.email = email
  BY DEF UserRows
<1>2. user'[u] = row /\ ~Exists(u) /\ \A v \in Users \ {u} : user'[v] = user[v]
  BY <1>0 DEF NewUser
<1> HIDE DEF row
<1>3. Taken(email)'
  BY <1>1, <1>2, NoRowAssumption DEF Taken, Exists
<1>4. ASSUME NEW e \in Emails \ {email}
      PROVE  Taken(e)' <=> Taken(e)
  BY <1>1, <1>2 DEF Taken, Exists
<1> QED
  BY <1>3, <1>4

\* What the steps of the seed leave to the next one.
LEMMA UpsertStep ==
  ASSUME TypeInv, NEW step, NEW email \in Emails, NEW role \in Staff, UpsertStaff(step, email, role)
  PROVE  /\ Taken(email)' /\ \A e \in Emails \ {email} : Taken(e)' <=> Taken(e)
         /\ Taken(email) => UNCHANGED user
         /\ seedAt = step /\ seedAt' = After[step]
         /\ UNCHANGED <<crashes, catalogue, media, profile>>
<1>1. CASE Taken(email)
  BY <1>1 DEF UpsertStaff, SeedGoto, SeedKeeps, Taken, Exists
<1>2. CASE ~Taken(email)
  <2>1. PICK u \in Users : NewUser(u, email, role)
    BY <1>2 DEF UpsertStaff
  <2> QED
    BY <1>2, <2>1, SeedTakes DEF UpsertStaff, SeedGoto, SeedKeeps
<1> QED
  BY <1>1, <1>2

LEMMA SeedInvStep ==
  ASSUME TypeInv, SeedInv, [Next]_vars
  PROVE  SeedInv'
<1> USE DEF AfterCategories, AfterZones, AfterCompetition, AfterMatch, AfterQuotas
<1> SUFFICES ASSUME ~Running'
             PROVE  CatalogueFilled' /\ StaffFilled' /\ EditorFilled'
  BY DEF SeedInv
<1>0. /\ CatalogueFilled /\ StaffFilled /\ EditorFilled /\ (SeedNext \/ UNCHANGED vars)
      /\ {AdminEmail, AgentEmail, EditorEmail} \subseteq Emails
      /\ AdminEmail # AgentEmail /\ AgentEmail # EditorEmail /\ EditorEmail # AdminEmail
  BY KeepsRunning, SeedAssumption DEF SeedInv, Next
<1>1. CASE UpsertStaff("admin", AdminEmail, "ADMIN")
  <2>1. /\ Taken(AdminEmail)' /\ \A e \in Emails \ {AdminEmail} : Taken(e)' <=> Taken(e)
        /\ seedAt = "admin" /\ seedAt' = "staff" /\ UNCHANGED <<crashes, catalogue, media, profile>>
    BY <1>0, <1>1, UpsertStep DEF Staff, After
  <2> QED
    BY <1>0, <2>1 DEF CatalogueFilled, StaffFilled, EditorFilled
<1>2. CASE UpsertStaff("staff", AgentEmail, "COMMISSION_VALIDATION")
  <2>1. /\ Taken(AgentEmail)' /\ \A e \in Emails \ {AgentEmail} : Taken(e)' <=> Taken(e)
        /\ seedAt = "staff" /\ seedAt' = "media" /\ UNCHANGED <<crashes, catalogue, media, profile>>
    BY <1>0, <1>2, UpsertStep DEF Staff, After
  <2> QED
    BY <1>0, <2>1 DEF CatalogueFilled, StaffFilled, EditorFilled
<1>3. ASSUME UNCHANGED user
      PROVE  \A e : Taken(e)' <=> Taken(e)
  BY <1>3 DEF Taken, Exists
<1>4. CASE SeedMedia
  <2>1. /\ seedAt = "media" /\ seedAt' = "categories"
        /\ UNCHANGED <<user, crashes, catalogue, profile>>
    BY <1>4 DEF SeedMedia, SeedGoto, SeedKeeps, After
  <2>2. DemoStored'
    BY <1>4 DEF SeedMedia, DemoStored, TypeInv, RowsTyped
  <2> QED
    BY <1>0, <1>3, <2>1, <2>2 DEF CatalogueFilled, StaffFilled, EditorFilled
<1>5. CASE SeedCatalogue
  <2>1. /\ seedAt \in CatalogueRows /\ catalogue' = catalogue \cup {seedAt}
        /\ seedAt' = After[seedAt]
        /\ UNCHANGED <<user, crashes, media, profile>>
    BY <1>5 DEF SeedCatalogue, SeedGoto, SeedKeeps
  <2>2. /\ seedAt = "categories" => seedAt' = "zones"
        /\ seedAt = "zones" => seedAt' = "competition"
        /\ seedAt = "competition" => seedAt' = "match"
        /\ seedAt = "match" => seedAt' = "quotas"
        /\ seedAt = "quotas" => seedAt' = "editor"
    BY <2>1 DEF After
  <2>3. CatalogueFilled'
    BY <1>0, <2>1, <2>2 DEF CatalogueFilled, CatalogueRows
  <2>4. StaffFilled'
    BY <1>0, <1>3, <2>1, <2>2 DEF StaffFilled, CatalogueRows, DemoStored
  <2>5. EditorFilled'
    BY <1>0, <1>3, <2>1, <2>2 DEF EditorFilled, CatalogueRows
  <2> QED
    BY <2>3, <2>4, <2>5
<1>6. CASE SeedEditor
  <2>1. /\ seedAt = "editor" /\ UNCHANGED <<crashes, catalogue, media, profile>>
        /\ Taken(EditorEmail) => seedAt' = "done" /\ UNCHANGED user
        /\ ~Taken(EditorEmail) =>
             seedAt' = "profile" /\ \E u \in Users : NewUser(u, EditorEmail, None)
    BY <1>6 DEF SeedEditor, SeedGoto, SeedKeeps, After
  <2>2. Taken(EditorEmail)' /\ \A e \in Emails : Taken(e) => Taken(e)'
    BY <1>0, <1>3, <2>1, SeedTakes
  <2>3. seedAt' = "done" => crashes # 0
    BY <1>0, <2>1 DEF EditorFilled
  <2>4. seedAt' \in {"profile", "done"}
    BY <2>1
  <2> QED
    BY <1>0, <2>1, <2>2, <2>3, <2>4 DEF CatalogueFilled, StaffFilled, EditorFilled, DemoStored
<1>7. CASE SeedProfile
  <2>1. /\ seedAt = "profile" /\ seedAt' = "done" /\ UNCHANGED <<user, crashes, catalogue, media>>
    BY <1>7 DEF SeedProfile, SeedGoto, SeedKeeps, After
  <2>2. EditorHasProfile'
    <3>1. PICK u \in Users, m \in Media : profile' = [profile EXCEPT ![u] = [media |-> m, editor |-> TRUE]]
      BY <1>7 DEF SeedProfile
    <3> DEFINE row == [media |-> m, editor |-> TRUE]
    <3>2. row \in ProfileRows /\ row.editor
      BY DEF ProfileRows
    <3>3. profile'[u] = row
      BY <3>1 DEF TypeInv, RowsTyped
    <3> QED
      BY <3>2, <3>3, NoRowAssumption DEF EditorHasProfile
  <2> QED
    BY <1>0, <1>3, <2>1, <2>2 DEF CatalogueFilled, StaffFilled, EditorFilled, DemoStored
<1>8. CASE SeedCrash
  <2>1. seedAt' = "admin" /\ crashes' # 0
    BY <1>8 DEF SeedCrash, TypeInv, SeedTyped
  <2> QED
    BY <2>1 DEF CatalogueFilled, StaffFilled, EditorFilled
<1>9. CASE UNCHANGED vars
  BY <1>0, <1>3, <1>9 DEF vars, accountVars, seedVars, CatalogueFilled, StaffFilled, EditorFilled,
     DemoStored, EditorHasProfile
<1>10. ~Start
  BY DEF Start, Running
<1> QED
  BY <1>0, <1>1, <1>2, <1>4, <1>5, <1>6, <1>7, <1>8, <1>9, <1>10 DEF SeedNext

\* A seed that ran to its end has filled the database however often it died on
\* the way, but for the profile of the editor when it died.
THEOREM SeedFillsDatabase == Spec => []SeedComplete
<1>1. Init => SeedInv
  BY DEF Init, SeedInv, CatalogueFilled, StaffFilled, EditorFilled, Taken, Exists, AfterCategories,
     AfterZones, AfterCompetition, AfterMatch, AfterQuotas
<1>2. SeedInv /\ TypeInv => SeedComplete
  BY DEF SeedInv, SeedComplete, CatalogueFilled, StaffFilled, EditorFilled, DemoStored,
     EditorHasProfile, CatalogueRows, TypeInv, SeedTyped, Running, AfterCategories,
     AfterZones, AfterCompetition, AfterMatch, AfterQuotas
<1> QED
  BY <1>1, <1>2, Typed, SeedInvStep, PTL DEF Spec

-----------------------------------------------------------------------------
(* Versions of documents.                                                  *)

\* The versions of the document of a subject.
Numbered(s) ==
  /\ IsFiniteSet(Of(s))
  /\ {document[d].version : d \in Of(s)} = 1..Cardinality(Of(s))
  /\ \A d, e \in Of(s) : document[d].version = document[e].version => d = e
  /\ \A d \in Of(s) : document[d].status = "PENDING" => document[d].version = Cardinality(Of(s))
  /\ \A d \in Of(s) : document[d].version = Cardinality(Of(s)) => document[d].status # "SUPERSEDED"

\* The newest version, or that there is none.
Newest(b, s) ==
  \/ b = None /\ Of(s) = {}
  \/ b \in Of(s) /\ document[b].version = Cardinality(Of(s))

\* The inductive form of VersionsSound.  An upload follows a version of its own
\* subject and has an object of its own; while it is the only one of its subject,
\* it knows the newest.
VersionsInv ==
  /\ \A s \in Subjects \ contested : Numbered(s)
  /\ \A p \in Handlers : handler[p].pc \in {"uploadPut", "uploadWrite"} =>
       /\ handler[p].media # None => handler[p].media \in Of(handler[p].target)
       /\ handler[p].target \notin contested => Newest(handler[p].media, handler[p].target)
  /\ \A p \in Handlers : At(p, "uploadWrite") => ~Stored(handler[p].name)
  /\ \A p, q \in Handlers :
       At(p, "uploadWrite") /\ At(q, "uploadWrite") /\ handler[p].name = handler[q].name => p = q
  /\ \A p, q \in Handlers :
       handler[p].pc \in Uploads /\ handler[q].pc \in Uploads
         /\ handler[p].target = handler[q].target => p = q \/ handler[p].target \in contested

\* Nothing is uploaded for the subject.
Steady(s) ==
  /\ Of(s)' = Of(s)
  /\ \A d \in Of(s) : document'[d].version = document[d].version /\ Judged(d)

\* What is not uploaded stays numbered, and the newest stays the newest.
LEMMA SteadyNumbered ==
  ASSUME NEW s, Steady(s)
  PROVE  /\ Numbered(s) => Numbered(s)'
         /\ \A b : Newest(b, s) => Newest(b, s)'
<1>1. Of(s)' = Of(s) /\ \A d \in Of(s) : document'[d].version = document[d].version
  BY DEF Steady
<1>2. {document'[d].version : d \in Of(s)'} = {document[d].version : d \in Of(s)}
  BY <1>1
<1>3. ASSUME Numbered(s)
      PROVE  Numbered(s)'
  BY <1>1, <1>2, <1>3 DEF Numbered, Steady, Judged
<1> QED
  BY <1>1, <1>3 DEF Newest

\* Versions are numbers from one on, and the last is there.
LEMMA NewestThere ==
  ASSUME TypeInv, NEW s, Numbered(s)
  PROVE  /\ Cardinality(Of(s)) \in Nat
         /\ \A d \in Of(s) : document[d].version \in 1..Cardinality(Of(s))
         /\ Of(s) # {} => \E d \in Of(s) : document[d].version = Cardinality(Of(s))
         /\ Of(s) = {} => Cardinality(Of(s)) = 0
<1>1. Cardinality(Of(s)) \in Nat /\ (Of(s) = {} => Cardinality(Of(s)) = 0)
  BY FS_CardinalityType, FS_EmptySet DEF Numbered
<1>2. \A d \in Of(s) : document[d].version \in 1..Cardinality(Of(s))
  BY DEF Numbered
<1>3. ASSUME Of(s) # {}
      PROVE  \E d \in Of(s) : document[d].version = Cardinality(Of(s))
  <2>1. Cardinality(Of(s)) \in {document[d].version : d \in Of(s)}
    BY <1>1, <1>2, <1>3 DEF Numbered
  <2> QED
    BY <2>1
<1> QED
  BY <1>1, <1>2, <1>3

\* The subjects of an upload that is written, and the others.
LEMMA UploadOrSteady ==
  ASSUME TypeInv, VersionsInv, [Next]_vars, NEW s \in Subjects
  PROVE  \/ Steady(s)
         \/ \E p \in Handlers :
              /\ UploadWrite(p) /\ handler[p].target = s
              /\ handler[p].name \in Documents /\ document'[handler[p].name] = NewVersion(p)
              /\ NewVersion(p) \in DocumentRows
              /\ \A d \in Documents \ {handler[p].name} :
                   /\ Amended(d)
                   /\ d = handler[p].media => document'[d].status = "SUPERSEDED"
                   /\ d # handler[p].media => document'[d] = document[d]
<1>0. None \notin DocumentRows
  BY NoDocumentAssumption
<1>1. CASE \A d \in Documents : Amended(d) /\ Judged(d)
  BY <1>0, <1>1 DEF Steady, Of, Amended, Stored
<1>2. ASSUME NEW p \in Handlers, UploadWrite(p), handler[p].name \in Documents,
             document'[handler[p].name] = NewVersion(p), NewVersion(p) \in DocumentRows,
             \A d \in Documents \ {handler[p].name} :
               /\ Amended(d)
               /\ d # handler[p].media => document'[d] = document[d],
             handler[p].target # s
      PROVE  Steady(s)
  <2> DEFINE n == handler[p].name
  <2>1. ~Stored(n) /\ (handler[p].media # None => handler[p].media \in Of(handler[p].target))
    BY <1>2 DEF VersionsInv, UploadWrite, At
  <2>2. handler[p].media \notin Of(s)
    BY <1>2, <2>1, NoneAssumption DEF Of
  <2>3. n \notin Of(s) /\ n \notin Of(s)'
    BY <1>2, <2>1 DEF Of, NewVersion
  <2>4. \A d \in Documents \ {n} : d \in Of(s)' <=> d \in Of(s)
    BY <1>0, <1>2 DEF Of, Amended, Stored
  <2>5. Of(s)' = Of(s)
    BY <2>3, <2>4 DEF Of
  <2>6. \A d \in Of(s) : document'[d] = document[d]
    BY <1>2, <2>2, <2>3 DEF Of
  <2> QED
    BY <2>5, <2>6 DEF Steady, Judged
<1> QED
  BY <1>1, <1>2, DocumentChanges

\* An upload that is written adds the next version and supersedes the one before.
LEMMA UploadNumbered ==
  ASSUME TypeInv, VersionsInv, NEW p \in Handlers, NEW s \in Subjects \ contested,
         UploadWrite(p), handler[p].target = s,
         handler[p].name \in Documents, document'[handler[p].name] = NewVersion(p),
         NewVersion(p) \in DocumentRows,
         \A d \in Documents \ {handler[p].name} :
           /\ Amended(d)
           /\ d = handler[p].media => document'[d].status = "SUPERSEDED"
           /\ d # handler[p].media => document'[d] = document[d]
  PROVE  Numbered(s)'
<1> DEFINE n == handler[p].name
           b == handler[p].media
           count == Cardinality(Of(s))
<1>0. None \notin DocumentRows
  BY NoDocumentAssumption
<1>1. Numbered(s) /\ Newest(b, s) /\ ~Stored(n) /\ n \notin Of(s)
  BY DEF VersionsInv, UploadWrite, At, Of
<1>2. /\ count \in Nat
      /\ \A d \in Of(s) : document[d].version \in 1..count
      /\ Of(s) = {} => count = 0
  BY <1>1, NewestThere
<1>3. /\ document'[n].subject = s /\ document'[n].status = "PENDING"
      /\ document'[n].version = count + 1
  <2>1. document'[n].version = IF b = None THEN 1 ELSE document[b].version + 1
    BY DEF NewVersion
  <2>2. b = None => count = 0
    BY <1>1, <1>2, NoneAssumption DEF Newest, Of
  <2>3. b # None => document[b].version = count
    BY <1>1 DEF Newest
  <2> QED
    BY <1>2, <2>1, <2>2, <2>3 DEF NewVersion
<1>4. Of(s)' = Of(s) \cup {n}
  <2>1. n \in Of(s)'
    BY <1>0, <1>3 DEF Of, Stored
  <2>2. \A d \in Documents \ {n} : d \in Of(s)' <=> d \in Of(s)
    BY <1>0 DEF Of, Amended, Stored
  <2> QED
    BY <2>1, <2>2 DEF Of
<1>5. IsFiniteSet(Of(s)') /\ Cardinality(Of(s)') = count + 1
  <2>1. IsFiniteSet(Of(s))
    BY <1>1 DEF Numbered
  <2>2. IsFiniteSet(Of(s) \cup {n}) /\ Cardinality(Of(s) \cup {n}) = count + 1
    BY <1>1, <2>1, FS_AddElement
  <2> QED
    BY <1>4, <2>2
<1>6. \A d \in Of(s) : d # n /\ document'[d].version = document[d].version
  BY <1>0, <1>1 DEF Of, Amended, Stored
<1>7. {document'[d].version : d \in Of(s)'} = 1..(count + 1)
  <2>1. {document'[d].version : d \in Of(s)'}
          = {document[d].version : d \in Of(s)} \cup {document'[n].version}
    BY <1>4, <1>6
  <2>2. {document[d].version : d \in Of(s)} = 1..count
    BY <1>1 DEF Numbered
  <2> HIDE DEF count
  <2> QED
    BY <1>2, <1>3, <2>1, <2>2
<1>8. \A d, e \in Of(s)' : document'[d].version = document'[e].version => d = e
  <2>1. \A d, e \in Of(s) : document[d].version = document[e].version => d = e
    BY <1>1 DEF Numbered
  <2> HIDE DEF count
  <2> QED
    BY <1>2, <1>3, <1>4, <1>6, <2>1
<1>9. ASSUME NEW d \in Of(s)', document'[d].status = "PENDING"
      PROVE  document'[d].version = count + 1
  <2>1. CASE d = n
    BY <1>3, <2>1
  <2>2. CASE d \in Of(s)
    <3>0. d \in Documents \ {n}
      BY <1>6, <2>2 DEF Of
    <3>1. d # b
      BY <1>9, <3>0
    <3>2. document[d].status = "PENDING"
      BY <1>9, <3>0, <3>1
    <3>3. document[d].version = count
      BY <1>1, <2>2, <3>2 DEF Numbered
    <3>4. b \in Of(s) /\ document[b].version = count
      BY <1>1, <2>2 DEF Newest
    <3> QED
      BY <1>1, <2>2, <3>1, <3>3, <3>4 DEF Numbered
  <2> QED
    BY <1>4, <1>9, <2>1, <2>2
<1>10. \A d \in Of(s)' : document'[d].version = count + 1 => document'[d].status # "SUPERSEDED"
  <2> HIDE DEF count
  <2> QED
    BY <1>2, <1>3, <1>4, <1>6
<1> HIDE DEF count
<1> QED
  BY <1>5, <1>7, <1>8, <1>9, <1>10 DEF Numbered

\* Nobody writes under the only upload of a subject.
LEMMA NewestLast ==
  ASSUME TypeInv, VersionsInv, [Next]_vars, NEW p \in Handlers, handler[p].pc \in Uploads,
         handler[p].target \notin contested,
         ~UploadWrite(p), NEW b, Newest(b, handler[p].target)
  PROVE  \A s : s = handler[p].target => Newest(b, s)'
<1>1. handler[p].target \in Subjects
  BY AtHand DEF Needs
<1>2. Steady(handler[p].target)
  BY <1>1, UploadOrSteady DEF VersionsInv, UploadWrite, At, Uploads
<1> QED
  BY <1>2, SteadyNumbered

\* A look at the documents finds the newest.
LEMMA FoundNewest ==
  ASSUME TypeInv, VersionsInv, NEW p \in Handlers, UploadFind(p),
         handler[p].target \notin contested
  PROVE  /\ \/ /\ Become(p, [handler[p] EXCEPT !.pc = "uploadPut"])
               /\ Newest(handler[p].media, handler[p].target)
            \/ \E d \in Documents :
                 /\ Become(p, [handler[p] EXCEPT !.pc = "uploadPut", !.media = d])
                 /\ Newest(d, handler[p].target)
<1> DEFINE s == handler[p].target
<1>1. s \in Subjects /\ handler[p].media = None /\ Numbered(s)
  BY AtHand DEF UploadFind, At, Needs, Uploads, VersionsInv
<1>2. /\ Cardinality(Of(s)) \in Nat
      /\ \A d \in Of(s) : document[d].version \in 1..Cardinality(Of(s))
      /\ Of(s) # {} => \E d \in Of(s) : document[d].version = Cardinality(Of(s))
  BY <1>1, NewestThere
<1>3. \A d \in Of(s) : document[d].version = Cardinality(Of(s)) => document[d].status # "SUPERSEDED"
  BY <1>1 DEF Numbered
<1>4. ASSUME \A d \in Of(s) : document[d].status = "SUPERSEDED"
      PROVE  Newest(handler[p].media, s)
  BY <1>1, <1>2, <1>3, <1>4 DEF Newest
<1>5. ASSUME NEW d \in Documents, Latest(d, s)
      PROVE  Newest(d, s)
  <2>1. d \in Of(s) /\ \A e \in Of(s) :
          document[e].status # "SUPERSEDED" => document[e].version <= document[d].version
    BY <1>5 DEF Latest
  <2>2. document[d].version = Cardinality(Of(s))
    BY <1>2, <1>3, <2>1
  <2> QED
    BY <2>1, <2>2 DEF Newest
<1> QED
  BY <1>4, <1>5 DEF UploadFind, Goto

\* An upload goes on about the same subject.
LEMMA UploadMoves ==
  ASSUME TypeInv, NEW p \in Handlers, Moves(p), handler'[p].pc \in Uploads
  PROVE  /\ handler[p].pc \in Uploads \ {"uploadWrite"}
         /\ handler'[p].target = handler[p].target
<1>0. handler \in [Handlers -> LoadedStates] /\ handler[p] \in HandlerStates
  BY DEF TypeInv, LoadedStates
<1>1. CASE At(p, "uploadOwner") /\ Goto(p, "uploadFind")
  BY <1>0, <1>1, GotoRow DEF At, Uploads, Places
<1>2. CASE UploadFind(p)
  <2>1. CASE Goto(p, "uploadPut")
    BY <1>0, <1>2, <2>1, GotoRow DEF At, Uploads, Places, UploadFind
  <2>2. ASSUME NEW d, Become(p, [handler[p] EXCEPT !.pc = "uploadPut", !.media = d])
        PROVE  handler'[p].target = handler[p].target
    <3>1. handler'[p] = [handler[p] EXCEPT !.pc = "uploadPut", !.media = d]
      BY <1>0, <2>2, BecomeRow
    <3> QED
      BY <1>0, <3>1 DEF HandlerStates
  <2> QED
    BY <1>2, <2>1, <2>2 DEF UploadFind, At, Uploads
<1>3. CASE UploadPut(p)
  <2>1. PICK d : Become(p, [handler[p] EXCEPT !.pc = "uploadWrite", !.name = d])
    BY <1>3 DEF UploadPut
  <2>2. handler'[p] = [handler[p] EXCEPT !.pc = "uploadWrite", !.name = d]
    BY <1>0, <2>1, BecomeRow
  <2> QED
    BY <1>0, <1>3, <2>2 DEF HandlerStates, UploadPut, At, Uploads
<1>4. \/ At(p, "uploadOwner") /\ Goto(p, "uploadFind")
      \/ UploadFind(p) \/ UploadPut(p)
  <2>1. handler'[p].pc \in {"uploadFind", "uploadPut", "uploadWrite"}
    BY MovesTo DEF First, Uploads
  <2>2. CASE handler'[p].pc = "uploadFind"
    <3>1. At(p, "uploadOwner")
      BY <2>2, MovesTo
    <3> QED
      BY <3>1 DEF Moves, At
  <2> QED
    BY <2>1, <2>2, MovesTo
<1> QED
  BY <1>1, <1>2, <1>3, <1>4

\* Subjects stay contested.
LEMMA ContestedGrows ==
  ASSUME [Next]_vars
  PROVE  contested \subseteq contested'
  BY Written DEF Upload

\* The documents of a subject stay its documents.
LEMMA OfGrows ==
  ASSUME TypeInv, VersionsInv, [Next]_vars, NEW s
  PROVE  Of(s) \subseteq Of(s)'
<1> SUFFICES ASSUME NEW d \in Of(s) PROVE d \in Of(s)'
  OBVIOUS
<1>1. Amended(d)
  BY DocumentChanges DEF Of, VersionsInv, UploadWrite, At
<1> QED
  BY <1>1, NoDocumentAssumption DEF Of, Stored, Amended

\* Uploads of one subject come one at a time, or the subject is contested.
LEMMA TargetsStep ==
  ASSUME TypeInv, VersionsInv, [Next]_vars,
         NEW p \in Handlers, NEW q \in Handlers,
         handler'[p].pc \in Uploads, handler'[q].pc \in Uploads,
         handler'[p].target = handler'[q].target
  PROVE  p = q \/ handler'[p].target \in contested'
<1>1. ASSUME NEW r \in Handlers, NEW o \in Handlers, Begins(r), handler'[r].pc \in Uploads,
             handler[o].pc \in Uploads, handler'[r].target = handler[o].target
      PROVE  handler'[r].target \in contested'
  BY <1>1 DEF Begins, Uploading
<1>2. CASE UNCHANGED handler
  BY <1>2, ContestedGrows DEF VersionsInv
<1>3. ASSUME NEW r \in Handlers, \A o \in Handlers \ {r} : handler'[o] = handler[o],
             Begins(r) \/ Moves(r) \/ handler'[r] = IdleHandler
      PROVE  p = q \/ handler'[p].target \in contested'
  <2>1. CASE Begins(r)
    BY <1>1, <1>3, <2>1, ContestedGrows DEF VersionsInv
  <2>2. CASE Moves(r)
    BY <1>3, <2>2, UploadMoves, ContestedGrows DEF VersionsInv
  <2>3. CASE handler'[r] = IdleHandler
    BY <1>3, <2>3, IdleLoaded, ContestedGrows DEF VersionsInv, Uploads
  <2> QED
    BY <1>3, <2>1, <2>2, <2>3
<1> QED
  BY <1>2, <1>3, HandlerChanges

\* What an upload has found and reserved stays so until it writes.
LEMMA UploadLast ==
  ASSUME TypeInv, VersionsInv, [Next]_vars, NEW p \in Handlers, handler'[p] = handler[p]
  PROVE  /\ handler[p].pc \in {"uploadPut", "uploadWrite"} =>
              /\ handler[p].media # None => handler[p].media \in Of(handler[p].target)'
              /\ handler[p].target \notin contested =>
                   Newest(handler[p].media, handler[p].target)'
         /\ At(p, "uploadWrite") => document'[handler[p].name] = None
<1>0. handler \in [Handlers -> LoadedStates] /\ None \notin DocumentRows
  BY NoDocumentAssumption DEF TypeInv
<1>1. ASSUME handler[p].pc \in {"uploadPut", "uploadWrite"}
      PROVE  ~UploadWrite(p)
  BY <1>0, <1>1, BecomeRow, IdleLoaded DEF UploadWrite, Return
<1>2. ASSUME handler[p].pc \in {"uploadPut", "uploadWrite"}, handler[p].target \notin contested
      PROVE  Newest(handler[p].media, handler[p].target)'
  <2>1. Newest(handler[p].media, handler[p].target)
    BY <1>2 DEF VersionsInv
  <2>2. PICK b, s : b = handler[p].media /\ s = handler[p].target
    OBVIOUS
  <2>3. Newest(b, s)'
    BY <1>1, <1>2, <2>1, <2>2, NewestLast DEF Uploads
  <2> QED
    BY <2>2, <2>3 DEF Newest, Of, Stored
<1>3. ASSUME handler[p].pc \in {"uploadPut", "uploadWrite"}, handler[p].media # None
      PROVE  handler[p].media \in Of(handler[p].target)'
  <2>1. PICK b, s : b = handler[p].media /\ s = handler[p].target
    OBVIOUS
  <2>2. b \in Of(s)'
    BY <1>3, <2>1, OfGrows DEF VersionsInv
  <2> QED
    BY <2>1, <2>2 DEF Of, Stored
<1>4. ASSUME At(p, "uploadWrite")
      PROVE  document'[handler[p].name] = None
  <2>1. ~Stored(handler[p].name) /\ handler[p].name \in Documents
    BY <1>4, AtHand DEF At, Needs, VersionsInv
  <2>2. ASSUME NEW q \in Handlers, UploadWrite(q)
        PROVE  handler[p].name # handler[q].name
    BY <1>1, <1>4, <2>2 DEF UploadWrite, At, VersionsInv
  <2>3. Amended(handler[p].name)
    BY <2>1, <2>2, DocumentChanges
  <2> QED
    BY <2>1, <2>3 DEF Amended
<1> QED
  BY <1>2, <1>3, <1>4 DEF At

\* What an upload knows when it goes on: a version of its subject, and the newest
\* if it is alone.
LEMMA UploadKnows ==
  ASSUME TypeInv, VersionsInv, NEW p \in Handlers, UploadFind(p) \/ UploadPut(p)
  PROVE  /\ handler[p].pc \in Uploads /\ ~UploadWrite(p)
         /\ handler'[p].target = handler[p].target
         /\ handler'[p].media # None => handler'[p].media \in Of(handler[p].target)
         /\ handler[p].target \notin contested => Newest(handler'[p].media, handler[p].target)
<1>0. handler \in [Handlers -> LoadedStates] /\ handler[p] \in HandlerStates /\ Needs(handler[p])
  BY AtHand DEF TypeInv
<1>1. handler[p].pc \in Uploads /\ ~UploadWrite(p)
  BY DEF UploadFind, UploadPut, UploadWrite, At, Uploads
<1>2. ASSUME NEW d, Become(p, [handler[p] EXCEPT !.pc = "uploadPut", !.media = d])
      PROVE  handler'[p].media = d /\ handler'[p].target = handler[p].target
  <2>1. handler'[p] = [handler[p] EXCEPT !.pc = "uploadPut", !.media = d]
    BY <1>0, <1>2, BecomeRow
  <2> QED
    BY <1>0, <2>1 DEF HandlerStates
<1>3. ASSUME Become(p, [handler[p] EXCEPT !.pc = "uploadPut"])
      PROVE  handler'[p].media = handler[p].media /\ handler'[p].target = handler[p].target
  BY <1>0, <1>3, GotoRow DEF Goto, Places
<1>4. ASSUME NEW d, Become(p, [handler[p] EXCEPT !.pc = "uploadWrite", !.name = d])
      PROVE  handler'[p].media = handler[p].media /\ handler'[p].target = handler[p].target
  <2>1. handler'[p] = [handler[p] EXCEPT !.pc = "uploadWrite", !.name = d]
    BY <1>0, <1>4, BecomeRow
  <2> QED
    BY <1>0, <2>1 DEF HandlerStates
<1>5. CASE UploadFind(p)
  <2>1. handler[p].media = None
    BY <1>0, <1>5 DEF UploadFind, At, Needs
  <2>2. CASE Goto(p, "uploadPut")
    <3>1. handler'[p].media = None /\ handler'[p].target = handler[p].target
      BY <1>3, <2>1, <2>2 DEF Goto
    <3>2. ASSUME handler[p].target \notin contested
          PROVE  Newest(None, handler[p].target)
      BY <1>2, <1>5, <2>1, <3>1, <3>2, FoundNewest
    <3> QED
      BY <1>1, <3>1, <3>2
  <2>3. ASSUME NEW d \in Documents, Latest(d, handler[p].target),
               Become(p, [handler[p] EXCEPT !.pc = "uploadPut", !.media = d])
        PROVE  /\ handler'[p].target = handler[p].target
               /\ handler'[p].media \in Of(handler[p].target)
               /\ handler[p].target \notin contested => Newest(handler'[p].media, handler[p].target)
    BY <1>2, <1>3, <1>5, <2>1, <2>3, FoundNewest DEF Latest
  <2> QED
    BY <1>1, <1>5, <2>2, <2>3 DEF UploadFind
<1>6. CASE UploadPut(p)
  BY <1>1, <1>4, <1>6 DEF UploadPut, At, VersionsInv
<1> QED
  BY <1>5, <1>6

\* An upload that goes on knows as much after its step, and has an object of its own.
LEMMA UploadGoes ==
  ASSUME TypeInv, VersionsInv, [Next]_vars, NEW p \in Handlers, Moves(p)
  PROVE  /\ handler'[p].pc \in {"uploadPut", "uploadWrite"} =>
              /\ handler'[p].media # None => handler'[p].media \in Of(handler[p].target)'
              /\ handler'[p].target \notin contested =>
                   Newest(handler[p].media, handler[p].target)'
         /\ handler'[p].pc = "uploadWrite" =>
              /\ document'[handler'[p].name] = None
              /\ \A q \in Handlers : handler[q].name # handler'[p].name
<1>0. handler \in [Handlers -> LoadedStates] /\ handler[p] \in HandlerStates
  BY DEF TypeInv, LoadedStates
<1>1. ASSUME handler'[p].pc \in {"uploadPut", "uploadWrite"}
      PROVE  /\ handler'[p].media # None => handler'[p].media \in Of(handler[p].target)'
             /\ handler'[p].target \notin contested => Newest(handler[p].media, handler[p].target)'
  <2>1. UploadFind(p) \/ UploadPut(p)
    BY <1>1, MovesTo
  <2>2. PICK b, s : b = handler'[p].media /\ s = handler'[p].target
    OBVIOUS
  <2>3. /\ s = handler[p].target /\ handler[p].pc \in Uploads /\ ~UploadWrite(p)
        /\ b # None => b \in Of(s)
        /\ s \notin contested => Newest(b, s)
    BY <2>1, <2>2, UploadKnows
  <2>4. b # None => b \in Of(s)'
    BY <2>3, OfGrows
  <2>5. s \notin contested => Newest(b, s)'
    BY <2>3, NewestLast
  <2> QED
    BY <2>2, <2>4, <2>5 DEF Newest, Of, Stored
<1>2. ASSUME handler'[p].pc = "uploadWrite"
      PROVE  /\ document'[handler'[p].name] = None
             /\ \A q \in Handlers : handler[q].name # handler'[p].name
  <2>1. PICK d \in Documents :
          Fresh(d) /\ Become(p, [handler[p] EXCEPT !.pc = "uploadWrite", !.name = d])
    BY <1>2, MovesTo DEF UploadPut
  <2>2. handler'[p] = [handler[p] EXCEPT !.pc = "uploadWrite", !.name = d]
    BY <1>0, <2>1, BecomeRow
  <2>3. handler'[p].name = d
    BY <1>0, <2>2 DEF HandlerStates
  <2>4. document' = document
    BY <1>2, MovesTo DEF UploadPut
  <2> QED
    BY <2>1, <2>3, <2>4 DEF Fresh, Stored
<1> QED
  BY <1>1, <1>2

\* Every step keeps the versions that nobody contests.
LEMMA VersionsStep ==
  ASSUME TypeInv, VersionsInv, [Next]_vars
  PROVE  VersionsInv'
<1>1. ASSUME NEW s \in Subjects \ contested'
      PROVE  Numbered(s)'
  <2>1. Numbered(s) /\ s \in Subjects \ contested
    BY <1>1, ContestedGrows DEF VersionsInv
  <2>2. CASE Steady(s)
    BY <2>1, <2>2, SteadyNumbered
  <2> QED
    BY <2>1, <2>2, UploadOrSteady, UploadNumbered
<1>2. ASSUME NEW p \in Handlers, handler'[p] = IdleHandler \/ Begins(p)
      PROVE  handler'[p].pc \notin {"uploadPut", "uploadWrite"}
  BY <1>2, IdleLoaded DEF Begins, First
<1>3. ASSUME NEW p \in Handlers, handler'[p].pc \in {"uploadPut", "uploadWrite"}
      PROVE  /\ handler'[p].media # None => handler'[p].media \in Of(handler[p].target)'
             /\ handler'[p].target \notin contested' => Newest(handler[p].media, handler[p].target)'
  BY <1>2, <1>3, UploadLast, UploadGoes, HandlerChanges, ContestedGrows
<1>4. ASSUME NEW p \in Handlers, handler'[p].pc = "uploadWrite"
      PROVE  document'[handler'[p].name] = None
  BY <1>2, <1>4, UploadLast, UploadGoes, HandlerChanges DEF At
<1>5. ASSUME NEW p \in Handlers, NEW q \in Handlers, handler'[p].pc = "uploadWrite",
             handler'[q].pc = "uploadWrite", handler'[p].name = handler'[q].name
      PROVE  p = q
  <2>1. CASE UNCHANGED handler
    BY <1>5, <2>1 DEF VersionsInv, At
  <2>2. ASSUME NEW r \in Handlers, \A o \in Handlers \ {r} : handler'[o] = handler[o],
               Begins(r) \/ Moves(r) \/ handler'[r] = IdleHandler
        PROVE  p = q
    <3>1. CASE p # r /\ q # r
      BY <1>5, <2>2, <3>1 DEF VersionsInv, At
    <3>2. CASE p = r \/ q = r
      BY <1>2, <1>5, <2>2, <3>2, UploadGoes
    <3> QED
      BY <3>1, <3>2
  <2> QED
    BY <2>1, <2>2, HandlerChanges
<1> QED
  BY <1>1, <1>3, <1>4, <1>5, TargetsStep DEF VersionsInv, At, Stored

\* Whatever overlaps or fails, the versions of a document are numbered without
\* gap or repetition, and the newest alone waits; but for a document of which two
\* uploads were under way at once (uploadDocument looks the last version up, then
\* stores the object, then writes both versions).
THEOREM VersionsAreSound == Spec => []VersionsSound
<1>1. Init => VersionsInv
  <2> SUFFICES ASSUME Init PROVE VersionsInv
    OBVIOUS
  <2>1. \A s : Of(s) = {}
    BY DEF Init, Of, Stored
  <2>2. \A s : Numbered(s)
    BY <2>1, FS_EmptySet DEF Numbered
  <2> QED
    BY <2>2, IdleLoaded DEF Init, VersionsInv, At, Uploads
<1>2. VersionsInv => VersionsSound
  BY DEF VersionsInv, Numbered, VersionsSound
<1> QED
  BY <1>1, <1>2, Typed, VersionsStep, PTL DEF Spec
=============================================================================
