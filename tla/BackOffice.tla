----------------------------- MODULE BackOffice -----------------------------
(***************************************************************************)
(* The back office: accounts and media (Accounts), the documents attached   *)
(* to requests (DocumentsService, src/modules/documents), the deletion of   *)
(* accounts that documents refer to, and the seed that fills the database   *)
(* before the service starts (prisma/seed).                                 *)
(*                                                                         *)
(* A document is of one subject and one type, which Subjects stands for     *)
(* together.  The object in the storage has the identifier of the document  *)
(* it is uploaded for.                                                      *)
(***************************************************************************)
EXTENDS Accounts

CONSTANTS
  AdminEmail, AgentEmail, EditorEmail,  \* addresses of the seed
  DemoMedia,    \* the name of the medium of the seed
  MaxCrashes    \* bound: crashes of the seed

ASSUME SeedAssumption ==
  /\ {AdminEmail, AgentEmail, EditorEmail} \subseteq Emails /\ DemoMedia \in Names
  /\ AdminEmail # AgentEmail /\ AgentEmail # EditorEmail /\ EditorEmail # AdminEmail
  /\ MaxCrashes \in Nat

VARIABLES
  document,  \* Document rows
  object,    \* identifiers of the objects in the storage
  owner,     \* the requester a request belongs to
  contested, \* history: subjects uploaded for by two calls at once
  catalogue, \* rows of the seed that are not accounts or media
  seedAt,    \* the next step of the seed
  crashes    \* history: crashes of the seed before the service starts

documentVars == <<document, object, owner, contested>>
seedVars == <<catalogue, seedAt, crashes>>
vars == <<accountVars, documentVars, seedVars, commands, handler>>

DocumentRows ==
  [ subject : Subjects, version : Nat, status : {"PENDING", "VALIDATED", "REJECTED", "SUPERSEDED"},
    by : Users, reviewer : Users \cup {None} ]

ASSUME NoDocumentAssumption == None \notin DocumentRows

Stored(d) == document[d] # None
Of(s) == {d \in Documents : Stored(d) /\ document[d].subject = s}

Running == seedAt = "running"
Keep == UNCHANGED <<accountVars, documentVars, seedVars, commands>>

-----------------------------------------------------------------------------
(* Upload                                                                  *)

\* A requester opens a request; its profile can no longer be deleted.
OpenRequest(s, u) ==
  /\ owner[s] = None /\ Active(u) /\ profile[u] # None /\ commands < MaxCommands
  /\ owner' = [owner EXCEPT ![s] = u]
  /\ commands' = commands + 1
  /\ UNCHANGED <<accountVars, document, object, contested, seedVars, handler>>

Uploads == {"uploadOwner", "uploadFind", "uploadPut", "uploadWrite"}
Uploading(s) == \E q \in Handlers : handler[q].pc \in Uploads /\ handler[q].target = s

\* A file that is too large or of another type goes no further.
Upload(p, a, s) ==
  /\ Active(a)
  /\ Call(p, [IdleHandler EXCEPT !.actor = a, !.target = s,
                !.pc = IF May(a, "media:manage") THEN "uploadFind" ELSE "uploadOwner"])
  /\ contested' = IF Uploading(s) THEN contested \cup {s} ELSE contested
  /\ UNCHANGED <<accountVars, document, object, owner, seedVars>>

\* uploadDocument of the requester: only on a request of its own.
UploadOwner(p) ==
  /\ At(p, "uploadOwner")
  /\ IF profile[handler[p].actor] # None /\ owner[handler[p].target] = handler[p].actor
     THEN Goto(p, "uploadFind")
     ELSE Return(p)
  /\ Keep

Latest(d, s) ==
  /\ d \in Of(s) /\ document[d].status # "SUPERSEDED"
  /\ \A e \in Of(s) : document[e].status # "SUPERSEDED" => document[e].version <= document[d].version

\* The latest version that is not superseded, if there is one.
UploadFind(p) ==
  /\ At(p, "uploadFind")
  /\ \/ \E d \in Documents :
          /\ Latest(d, handler[p].target)
          /\ Become(p, [handler[p] EXCEPT !.pc = "uploadPut", !.media = d])
     \/ /\ \A d \in Of(handler[p].target) : document[d].status = "SUPERSEDED"
        /\ Goto(p, "uploadPut")
  /\ Keep

Fresh(d) == ~Stored(d) /\ d \notin object /\ \A q \in Handlers : handler[q].name # d

\* Plausible bug: the upload of the object is not awaited.
UploadPut_NotAwaited(p) ==
  /\ At(p, "uploadPut")
  /\ \E d \in Documents :
       /\ Fresh(d)
       /\ object' \in {object, object \cup {d}}
       /\ Become(p, [handler[p] EXCEPT !.pc = "uploadWrite", !.name = d])
  /\ UNCHANGED <<accountVars, document, owner, contested, seedVars, commands>>

UploadPut(p) ==
  /\ At(p, "uploadPut")
  /\ \E d \in Documents :
       /\ Fresh(d)
       /\ object' = object \cup {d}
       /\ Become(p, [handler[p] EXCEPT !.pc = "uploadWrite", !.name = d])
  /\ UNCHANGED <<accountVars, document, owner, contested, seedVars, commands>>

NewVersion(p) ==
  [ subject |-> handler[p].target, status |-> "PENDING", by |-> handler[p].actor, reviewer |-> None,
    version |-> IF handler[p].media = None THEN 1 ELSE document[handler[p].media].version + 1 ]

\* Plausible bug: the version before is left as it was.
UploadWrite_NotSuperseded(p) ==
  /\ At(p, "uploadWrite") /\ Exists(handler[p].actor)
  /\ document' = [document EXCEPT ![handler[p].name] = NewVersion(p)]
  /\ Return(p)
  /\ UNCHANGED <<accountVars, object, owner, contested, seedVars, commands>>

\* One transaction: the version found is superseded, whatever became of it
\* since, and the next one is created.
UploadWrite(p) ==
  /\ At(p, "uploadWrite") /\ Exists(handler[p].actor)
  /\ document' = [d \in Documents |->
       IF d = handler[p].name THEN NewVersion(p)
       ELSE IF d = handler[p].media THEN [document[d] EXCEPT !.status = "SUPERSEDED"]
       ELSE document[d]]
  /\ Return(p)
  /\ UNCHANGED <<accountVars, object, owner, contested, seedVars, commands>>

-----------------------------------------------------------------------------
(* Review                                                                  *)

Review(p, a, d, valid) ==
  /\ May(a, "requests:validate")
  /\ Call(p, [IdleHandler EXCEPT !.pc = "reviewFind", !.actor = a, !.target = d, !.on = valid])
  /\ UNCHANGED <<accountVars, documentVars, seedVars>>

ReviewFind(p) ==
  /\ At(p, "reviewFind")
  /\ IF Stored(handler[p].target) THEN Goto(p, "reviewWrite") ELSE Return(p)
  /\ Keep

\* The verdict is written whatever the status was, SUPERSEDED included.
ReviewWrite(p) ==
  /\ At(p, "reviewWrite") /\ Exists(handler[p].actor)
  /\ document' = [document EXCEPT
       ![handler[p].target].status = IF handler[p].on THEN "VALIDATED" ELSE "REJECTED",
       ![handler[p].target].reviewer = handler[p].actor]
  /\ Return(p)
  /\ UNCHANGED <<accountVars, object, owner, contested, seedVars, commands>>

-----------------------------------------------------------------------------
(* Deletion of an account                                                  *)

\* The rows that refer to the account with a key that restricts its deletion:
\* decisions, complements and scans; uploads; requests, through the profile.
Restricted(u) ==
  \/ u \in authors
  \/ \E d \in Documents : Stored(d) /\ document[d].by = u
  \/ \E s \in Subjects : owner[s] = u

\* The profile goes with the account, a reviewer is forgotten.
Erase(u) ==
  /\ user' = [user EXCEPT ![u] = None]
  /\ gone' = gone \cup {u}
  /\ profile' = [profile EXCEPT ![u] = None]
  /\ document' = [d \in Documents |->
       IF Stored(d) /\ document[d].reviewer = u THEN [document[d] EXCEPT !.reviewer = None]
       ELSE document[d]]

\* Plausible bug: the profile does not go with the account.
DeleteWrite_NoCascade(p) ==
  /\ At(p, "deleteWrite") /\ Exists(handler[p].target)
  /\ user' = [user EXCEPT ![handler[p].target] = None]
  /\ gone' = gone \cup {handler[p].target}
  /\ Return(p)
  /\ UNCHANGED <<profile, media, authors, documentVars, seedVars, commands>>

\* The database refuses to delete an account with history (P2003).
DeleteWrite(p) ==
  /\ At(p, "deleteWrite") /\ Exists(handler[p].target)
  /\ IF Restricted(handler[p].target)
     THEN UNCHANGED <<user, gone, profile, document>>
     ELSE Erase(handler[p].target)
  /\ Return(p)
  /\ UNCHANGED <<media, authors, object, owner, contested, seedVars, commands>>

\* An await throws: a failure, a row that is no longer there, a key taken.
Abort(p) ==
  /\ ~At(p, "idle")
  /\ \/ Failures
     \/ At(p, "createUser") /\ Taken(handler[p].email)
     \/ At(p, "flagWrite") /\ profile[handler[p].target] = None
     \/ handler[p].target \in Users /\ ~Exists(handler[p].target)
     \/ handler[p].actor # None /\ ~Exists(handler[p].actor)
  /\ Return(p)
  /\ Keep

-----------------------------------------------------------------------------
(* The seed                                                                *)

\* The steps of main, each with the one after it.
After ==
  [ admin |-> "staff", staff |-> "media", media |-> "categories", categories |-> "zones",
    zones |-> "competition", competition |-> "match", match |-> "quotas", quotas |-> "editor",
    editor |-> "profile", profile |-> "done" ]

CatalogueRows == {"categories", "zones", "competition", "match", "quotas"}

SeedGoto(step) == seedAt' = step /\ UNCHANGED crashes
SeedKeeps == UNCHANGED <<gone, authors, documentVars, commands, handler>>

\* Plausible bug: a seed that finds its administrator has nothing to do.
UpsertStaff_Leaves(step, email, role) ==
  /\ seedAt = step
  /\ IF Taken(email) THEN UNCHANGED user /\ SeedGoto("done")
     ELSE (\E u \in Users : NewUser(u, email, role)) /\ SeedGoto(After[step])
  /\ UNCHANGED <<profile, media, catalogue>> /\ SeedKeeps

\* upsertStaff: the accounts of the agents are like one another, one is kept.
UpsertStaff(step, email, role) ==
  /\ seedAt = step
  /\ IF Taken(email) THEN UNCHANGED user ELSE \E u \in Users : NewUser(u, email, role)
  /\ SeedGoto(After[step])
  /\ UNCHANGED <<profile, media, catalogue>> /\ SeedKeeps

SeedMedia ==
  /\ seedAt = "media"
  /\ IF \E m \in Media : media[m] = DemoMedia THEN UNCHANGED media
     ELSE \E m \in Media : media[m] = None /\ media' = [media EXCEPT ![m] = DemoMedia]
  /\ SeedGoto(After["media"])
  /\ UNCHANGED <<user, profile, catalogue>> /\ SeedKeeps

\* seedCategories, seedZones, seedCompetitionAndMatch, seedQuotas: upserts.
SeedCatalogue ==
  /\ seedAt \in CatalogueRows
  /\ catalogue' = catalogue \cup {seedAt}
  /\ SeedGoto(After[seedAt])
  /\ UNCHANGED <<user, profile, media>> /\ SeedKeeps

\* seedEditorInChief: an account that is there ends it, with or without profile.
SeedEditor ==
  /\ seedAt = "editor"
  /\ IF Taken(EditorEmail) THEN UNCHANGED user /\ SeedGoto("done")
     ELSE (\E u \in Users : NewUser(u, EditorEmail, None)) /\ SeedGoto(After["editor"])
  /\ UNCHANGED <<profile, media, catalogue>> /\ SeedKeeps

SeedProfile ==
  /\ seedAt = "profile"
  /\ \E u \in Users, m \in Media :
       /\ Exists(u) /\ user[u].email = EditorEmail /\ media[m] = DemoMedia
       /\ profile' = [profile EXCEPT ![u] = [media |-> m, editor |-> TRUE]]
  /\ SeedGoto(After["profile"])
  /\ UNCHANGED <<user, media, catalogue>> /\ SeedKeeps

\* The seed dies and is run again from its first step.
SeedCrash ==
  /\ seedAt \notin {"done", "running"} /\ crashes < MaxCrashes
  /\ crashes' = crashes + 1 /\ seedAt' = "admin"
  /\ UNCHANGED <<accountVars, documentVars, catalogue, commands, handler>>

Start ==
  /\ seedAt = "done" /\ seedAt' = "running"
  /\ crashes' = 0
  /\ UNCHANGED <<accountVars, documentVars, catalogue, commands, handler>>

SeedNext ==
  \/ UpsertStaff("admin", AdminEmail, "ADMIN")
  \/ UpsertStaff("staff", AgentEmail, "COMMISSION_VALIDATION")
  \/ SeedMedia \/ SeedCatalogue \/ SeedEditor \/ SeedProfile \/ SeedCrash \/ Start

-----------------------------------------------------------------------------
\* An empty database.
Init ==
  /\ user = [u \in Users |-> None]
  /\ gone = {}
  /\ profile = [u \in Users |-> None]
  /\ media = [m \in Media |-> None]
  /\ authors = {}
  /\ document = [d \in Documents |-> None]
  /\ object = {}
  /\ owner = [s \in Subjects |-> None]
  /\ contested = {}
  /\ catalogue = {}
  /\ seedAt = "admin"
  /\ crashes = 0
  /\ commands = 0
  /\ handler = [p \in Handlers |-> IdleHandler]

Serving ==
  \/ \E p \in Handlers :
       \/ (AccountCalls(p) \/ AccountSteps(p)) /\ UNCHANGED <<documentVars, seedVars>>
       \/ \E a \in Users, s \in Subjects : Upload(p, a, s)
       \/ \E a \in Users, d \in Documents, valid \in BOOLEAN : Review(p, a, d, valid)
       \/ UploadOwner(p) \/ UploadFind(p) \/ UploadPut(p) \/ UploadWrite(p)
       \/ ReviewFind(p) \/ ReviewWrite(p) \/ DeleteWrite(p) \/ Abort(p)
  \/ \E a \in Users : LeaveHistory(a) /\ UNCHANGED <<documentVars, seedVars>>
  \/ \E s \in Subjects, u \in Users : OpenRequest(s, u)

Next == SeedNext \/ (Running /\ Serving)

Spec == Init /\ [][Next]_vars

-----------------------------------------------------------------------------
(* Properties.                                                             *)

\* Every variable has its type, and a handler that is about to write a medium
\* or a document has found it.
TypeOK ==
  /\ user \in [Users -> UserRows \cup {None}]
  /\ gone \subseteq Users /\ authors \subseteq Users
  /\ profile \in [Users -> ProfileRows \cup {None}]
  /\ media \in [Media -> Names \cup {None}]
  /\ document \in [Documents -> DocumentRows \cup {None}]
  /\ object \subseteq Documents
  /\ owner \in [Subjects -> Users \cup {None}]
  /\ contested \subseteq Subjects
  /\ catalogue \subseteq CatalogueRows
  /\ seedAt \in DOMAIN After \cup {"done", "running"}
  /\ crashes \in Nat /\ commands \in Nat
  /\ handler \in [Handlers -> HandlerStates]
  /\ \A p \in Handlers :
       /\ At(p, "mediaRename") => media[handler[p].media] # None
       /\ At(p, "reviewWrite") => Stored(handler[p].target)
       /\ At(p, "uploadWrite") => handler[p].name \in Documents

\* However registrations, invitations of journalists and creations of staff
\* overlap, an address has one account, deleted and recreated ones included.
UniqueEmails ==
  \A u, v \in Users : Exists(u) /\ Exists(v) /\ user[u].email = user[v].email => u = v

\* A profile has its account, which is a requester, and its medium, although it
\* is written two services and three awaits after the account.
ProfilesBacked ==
  \A u \in Users : profile[u] # None =>
    Exists(u) /\ user[u].role = None /\ media[profile[u].media] # None

\* However uploads, reviews and failures follow and overlap each other, the
\* versions of a document are numbered without gap or repetition, the newest is
\* current and is the only one that waits for a review; but for a document of
\* which two uploads were under way at once, which may both follow one version.
VersionsSound ==
  \A s \in Subjects \ contested :
    /\ {document[d].version : d \in Of(s)} = 1..Cardinality(Of(s))
    /\ \A d \in Of(s) :
         document[d].status = "PENDING" => document[d].version = Cardinality(Of(s))
    /\ \A d \in Of(s) :
         document[d].version = Cardinality(Of(s)) => document[d].status # "SUPERSEDED"

\* A document has its file in the storage, and the account that uploaded it
\* is not deleted.
DocumentsBacked ==
  \A d \in Documents : Stored(d) => d \in object /\ Exists(document[d].by)

\* A seed that ran to its end has filled the database however often it died on
\* the way, but for the profile of the editor when it died just before it.
SeedComplete ==
  seedAt = "done" =>
    /\ Taken(AdminEmail) /\ Taken(AgentEmail) /\ Taken(EditorEmail)
    /\ catalogue = CatalogueRows
    /\ \E m \in Media : media[m] = DemoMedia
    /\ crashes = 0 => \E u \in Users : profile[u] # None /\ profile[u].editor

\* A document that was reviewed keeps its reviewer.
ReviewersKept ==
  [][\A d \in Documents : Stored(d) /\ document[d].reviewer # None => document'[d].reviewer # None]_vars

=============================================================================
