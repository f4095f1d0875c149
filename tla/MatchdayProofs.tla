--------------------------- MODULE MatchdayProofs ---------------------------
(***************************************************************************)
(* Theorems about Matchday and Notifications, for every value of their      *)
(* constants.                                                               *)
(***************************************************************************)
EXTENDS Matchday, TLAPS

-----------------------------------------------------------------------------
(* Types.                                                                  *)

UpdatePlaces == {"updateWrite", "publish"}
SubmitPlaces == {"matchRead", "submitWrite", "submitted"}

\* A handler in flight has what its place uses.
LoadedStates ==
  { h \in HandlerStates :
      /\ h.pc \in UpdatePlaces => h.existing \in MatchRows /\ h.field \in Fields
      /\ h.pc = "publish" => h.field \in IMPACTFUL_FIELDS
      /\ h.pc \in SubmitPlaces => h.request \in Requests }

\* The inductive form of TypeOK, apart from the listeners.
DayInv ==
  /\ now \in Times /\ match \in MatchRows
  /\ request \in [Requests -> RequestStatuses]
  /\ handler \in [Handlers -> LoadedStates]
  /\ cron \in {"idle", "close", "publish"}
  /\ untold \subseteq Fields
  /\ faults \in Nat /\ updates \in Nat

\* The fields of a match.
LEMMA FieldNames == Fields = {"status", "place", "requestsOpenAt", "requestsCloseAt"}
  BY DEF Fields, Domain

\* An update of one field leaves a match.
LEMMA FieldWritten ==
  ASSUME NEW row \in MatchRows, NEW f \in Fields, NEW v \in Domain[f]
  PROVE  [row EXCEPT ![f] = v] \in MatchRows
<1>1. CASE f = "status"
  BY <1>1 DEF MatchRows, Domain
<1>2. CASE f = "place"
  BY <1>2 DEF MatchRows, Domain
<1>3. CASE f = "requestsOpenAt"
  BY <1>3 DEF MatchRows, Domain
<1>4. CASE f = "requestsCloseAt"
  BY <1>4 DEF MatchRows, Domain
<1> QED
  BY <1>1, <1>2, <1>3, <1>4, FieldNames

\* Replacing the record of one handler.
LEMMA BecomeRow ==
  ASSUME handler \in [Handlers -> LoadedStates], NEW p \in Handlers, NEW s, Become(p, s)
  PROVE  /\ handler'[p] = s
         /\ \A q \in Handlers \ {p} : handler'[q] = handler[q]
         /\ s \in LoadedStates => handler' \in [Handlers -> LoadedStates]
  BY DEF Become

\* The record of an idle handler is well formed.
LEMMA IdleLoaded == IdleHandler \in LoadedStates /\ IdleHandler.pc = "idle"
  BY DEF IdleHandler, LoadedStates, HandlerStates, UpdatePlaces, SubmitPlaces

\* Marking the submissions that were overtaken changes nothing else.
LEMMA OvertakenTyped ==
  ASSUME handler \in [Handlers -> LoadedStates]
  PROVE  /\ Overtaken \in [Handlers -> LoadedStates]
         /\ \A p \in Handlers :
              /\ handler[p].pc # "submitWrite" => Overtaken[p] = handler[p]
              /\ handler[p].pc = "submitWrite" =>
                   /\ Overtaken[p].pc = "submitWrite" /\ Overtaken[p].late = TRUE
                   /\ Overtaken[p].request = handler[p].request
<1> SUFFICES ASSUME NEW p \in Handlers
             PROVE  /\ Overtaken[p] \in LoadedStates
                    /\ handler[p].pc # "submitWrite" => Overtaken[p] = handler[p]
                    /\ handler[p].pc = "submitWrite" =>
                         /\ Overtaken[p].pc = "submitWrite" /\ Overtaken[p].late = TRUE
                         /\ Overtaken[p].request = handler[p].request
  BY DEF Overtaken
<1>1. handler[p] \in LoadedStates /\ handler[p] \in HandlerStates
  BY DEF LoadedStates
<1>2. CASE handler[p].pc # "submitWrite"
  BY <1>1, <1>2 DEF Overtaken
<1>3. CASE handler[p].pc = "submitWrite"
  <2> DEFINE s == [handler[p] EXCEPT !.late = TRUE]
  <2>1. Overtaken[p] = s
    BY <1>3 DEF Overtaken
  <2>2. /\ s \in HandlerStates /\ s.pc = "submitWrite" /\ s.late = TRUE
        /\ s.request = handler[p].request
    BY <1>1, <1>3 DEF HandlerStates
  <2>3. s \in LoadedStates
    BY <1>1, <1>3, <2>2 DEF LoadedStates, UpdatePlaces, SubmitPlaces
  <2> QED
    BY <1>3, <2>1, <2>2, <2>3
<1> QED
  BY <1>2, <1>3

\* What the write of an update does.
LEMMA UpdateWritten ==
  ASSUME DayInv, NEW p \in Handlers, UpdateWrite(p)
  PROVE  /\ match' \in MatchRows
         /\ untold' \subseteq Fields
         /\ handler' \in [Handlers -> LoadedStates]
         /\ \A q \in Handlers \ {p} :
              handler'[q] = IF Closes(match', now) THEN Overtaken[q] ELSE handler[q]
         /\ \/ handler'[p].pc = "idle" /\ untold' = untold
            \/ /\ handler'[p].pc = "publish" /\ handler'[p].field = handler[p].field
               /\ untold' \subseteq untold \cup {handler[p].field}
<1> DEFINE f == handler[p].field
           others == IF Closes(match', now) THEN Overtaken ELSE handler
           s == [handler[p] EXCEPT !.pc = "publish"]
<1>1. /\ handler[p] \in HandlerStates /\ handler[p].existing \in MatchRows /\ f \in Fields
      /\ handler \in [Handlers -> LoadedStates] /\ match \in MatchRows /\ untold \subseteq Fields
  BY DEF DayInv, UpdateWrite, At, LoadedStates, UpdatePlaces
<1>2. PICK value \in Domain[f] :
        /\ match' = [match EXCEPT ![f] = value]
        /\ untold' = IF f # "requestsOpenAt" /\ value \notin {match[f], handler[p].existing[f]}
                     THEN untold \cup {f} ELSE untold
        /\ handler' = [others EXCEPT ![p] =
             IF Impactful(f, handler[p].existing, match') = {} THEN IdleHandler ELSE s]
  BY DEF UpdateWrite
<1>3. match' \in MatchRows /\ untold' \subseteq Fields
  BY <1>1, <1>2, FieldWritten
<1>10. match'[f] = value
  <2>1. f \in DOMAIN match
    BY <1>1, FieldNames DEF MatchRows
  <2> QED
    BY <1>2, <2>1
<1>11. /\ untold' \subseteq untold \cup {f}
       /\ Impactful(f, handler[p].existing, match') = {} => untold' = untold
  <2>1. f # "requestsOpenAt" => f \in IMPACTFUL_FIELDS
    BY <1>1, FieldNames DEF IMPACTFUL_FIELDS
  <2>2. f # "requestsOpenAt" /\ value # handler[p].existing[f] =>
          Impactful(f, handler[p].existing, match') # {}
    BY <1>10, <2>1 DEF Impactful
  <2> QED
    BY <1>2, <2>2
<1>4. others \in [Handlers -> LoadedStates]
  BY <1>1, OvertakenTyped
<1>5. s \in HandlerStates /\ s.pc = "publish" /\ s.field = f /\ s.existing = handler[p].existing
  BY <1>1 DEF HandlerStates
<1>6. f \in IMPACTFUL_FIELDS => s \in LoadedStates
  BY <1>1, <1>5 DEF LoadedStates, UpdatePlaces, SubmitPlaces
<1>7. \A q \in Handlers \ {p} : handler'[q] = others[q]
  BY <1>2, <1>4
<1>8. CASE Impactful(f, handler[p].existing, match') = {}
  <2>1. handler' = [others EXCEPT ![p] = IdleHandler]
    BY <1>2, <1>8
  <2> QED
    BY <1>3, <1>4, <1>7, <1>8, <1>11, <2>1, IdleLoaded
<1>9. CASE Impactful(f, handler[p].existing, match') # {}
  <2>1. handler' = [others EXCEPT ![p] = s] /\ s \in LoadedStates
    BY <1>2, <1>6, <1>9 DEF Impactful
  <2> QED
    BY <1>3, <1>4, <1>5, <1>7, <1>11, <2>1
<1> QED
  BY <1>8, <1>9

\* Every step of the match, its requests and its cron keeps the types.
LEMMA DayStep == DayInv /\ [Next]_vars => DayInv'
<1> SUFFICES ASSUME DayInv, [Next]_vars PROVE DayInv'
  OBVIOUS
<1>0. handler \in [Handlers -> LoadedStates] /\ match \in MatchRows /\ now \in Times
  BY DEF DayInv
<1>1. ASSUME NEW p \in Handlers, Return(p)
      PROVE  handler' \in [Handlers -> LoadedStates]
  BY <1>0, <1>1, BecomeRow, IdleLoaded DEF Return
<1>2. ASSUME NEW p \in Handlers, NEW place \in {"submitWrite", "submitted"}, Goto(p, place),
             handler[p].pc \in SubmitPlaces
      PROVE  handler' \in [Handlers -> LoadedStates]
  <2> DEFINE s == [handler[p] EXCEPT !.pc = place]
  <2>1. handler[p] \in HandlerStates /\ handler[p].request \in Requests
    BY <1>0, <1>2 DEF LoadedStates
  <2>2. s \in HandlerStates /\ s.pc = place /\ s.request = handler[p].request
    BY <2>1 DEF HandlerStates
  <2>3. s \in LoadedStates
    BY <2>1, <2>2 DEF LoadedStates, UpdatePlaces, SubmitPlaces
  <2> QED
    BY <1>0, <1>2, <2>3, BecomeRow DEF Goto
<1>3. ASSUME NEW p \in Organisers, NEW field \in Fields, UpdateRead(p, field)
      PROVE  DayInv'
  <2> DEFINE s == [IdleHandler EXCEPT !.pc = "updateWrite", !.existing = match, !.field = field]
  <2>1. s \in LoadedStates
    BY <1>0 DEF IdleHandler, LoadedStates, HandlerStates, UpdatePlaces, SubmitPlaces
  <2>2. handler' \in [Handlers -> LoadedStates]
    BY <1>0, <1>3, <2>1, BecomeRow DEF UpdateRead, Handlers
  <2> QED
    BY <1>3, <2>2 DEF UpdateRead, DayInv, matchVars
<1>4. ASSUME NEW p \in Callers, NEW q \in Requests, SubmitRead(p, q)
      PROVE  DayInv'
  <2> DEFINE s == [IdleHandler EXCEPT !.pc = "matchRead", !.request = q]
  <2>1. s \in LoadedStates
    BY DEF IdleHandler, LoadedStates, HandlerStates, UpdatePlaces, SubmitPlaces
  <2>2. handler' \in [Handlers -> LoadedStates]
    BY <1>0, <1>4, <2>1, BecomeRow DEF SubmitRead, Handlers
  <2> QED
    BY <1>4, <2>2 DEF SubmitRead, DayInv, matchVars
<1>5. ASSUME NEW p \in Handlers, UpdateWrite(p)
      PROVE  DayInv'
  BY <1>5, UpdateWritten DEF UpdateWrite, DayInv
<1>6. ASSUME NEW p \in Handlers, UpdatePublish(p)
      PROVE  DayInv'
  BY <1>1, <1>6 DEF UpdatePublish, DayInv
<1>7. ASSUME NEW p \in Handlers, SubmitCheck(p)
      PROVE  DayInv'
  BY <1>1, <1>2, <1>7 DEF SubmitCheck, At, SubmitPlaces, DayInv, matchVars
<1>8. ASSUME NEW p \in Handlers, SubmitWrite(p)
      PROVE  DayInv'
  <2>1. handler' \in [Handlers -> LoadedStates]
    BY <1>2, <1>8 DEF SubmitWrite, At, SubmitPlaces
  <2>2. request' \in [Requests -> RequestStatuses]
    BY <1>8 DEF SubmitWrite, DayInv, RequestStatuses
  <2> QED
    BY <1>8, <2>1, <2>2 DEF SubmitWrite, DayInv
<1>9. ASSUME NEW p \in Handlers, SubmitPublish(p)
      PROVE  DayInv'
  BY <1>1, <1>9 DEF SubmitPublish, DayInv, matchVars
<1>10. ASSUME NEW p \in Handlers, Abort(p)
       PROVE  DayInv'
  BY <1>1, <1>10 DEF Abort, DayInv, matchVars
<1>11. ASSUME NEW q \in Requests, NEW name, CloseRequest(q, name)
       PROVE  DayInv'
  BY <1>11 DEF CloseRequest, DayInv, RequestStatuses
<1>12. CASE CronClose
  <2>1. handler' \in [Handlers -> LoadedStates]
    BY <1>0, <1>12, OvertakenTyped DEF CronClose
  <2>2. match' \in MatchRows
    BY <1>0, <1>12 DEF CronClose, MatchRows, Statuses
  <2> QED
    BY <1>12, <2>1, <2>2 DEF CronClose, DayInv
<1>13. CASE CronFind \/ CronPublish \/ CronAborts
  BY <1>13 DEF CronFind, CronPublish, CronAborts, DayInv, matchVars
<1>14. CASE Tick
  <2>1. handler' \in [Handlers -> LoadedStates]
    BY <1>0, <1>14, OvertakenTyped DEF Tick
  <2>2. now' \in Times
    BY <1>0, <1>14, ClockAssumption DEF Tick, Times
  <2> QED
    BY <1>14, <2>1, <2>2 DEF Tick, DayInv
<1>15. CASE Crash
  BY <1>15, IdleLoaded DEF Crash, DayInv, matchVars
<1>16. ASSUME NEW e \in Events, ListenerSteps(e) \/ ListenerFaults(e),
              UNCHANGED <<updates, matchVars, now, handler, cron>>
       PROVE  DayInv'
  <2>1. faults' = faults \/ faults' = faults + 1
    BY <1>16 DEF ListenerSteps, ListenerFaults, ListRequesters, CreateLog, SendMail, MarkSent,
       MarkFailed, AuditWrite, Forget, MarkSentFails, ListenerFails, AuditFails
  <2> QED
    BY <1>16, <2>1 DEF DayInv, matchVars
<1>17. CASE UNCHANGED vars
  BY <1>17 DEF vars, DayInv, matchVars
<1> QED
  BY <1>3, <1>4, <1>5, <1>6, <1>7, <1>8, <1>9, <1>10, <1>11, <1>12, <1>13, <1>14, <1>15,
     <1>16, <1>17 DEF Next, Continues, Cron

\* The types hold initially.
LEMMA DayInit == Init => DayInv
<1> SUFFICES ASSUME Init PROVE DayInv
  OBVIOUS
<1>1. 0 \in Times
  BY ClockAssumption DEF Times
<1> QED
  BY <1>1, IdleLoaded DEF Init, DayInv, RequestStatuses

-----------------------------------------------------------------------------
(* Mails and their rows, whatever fails.                                    *)

Telling == {"create", "mail", "sent", "failed"}

\* Nobody told r yet; g and m are the rows and the deliveries of one event.
Clean(g, m, r) == g[r] = None /\ m[r] = 0

\* What the row of r says of the mail to r.
RowTrue(g, m, r) ==
  /\ m[r] <= 1
  /\ m[r] = 1 => g[r] # None
  /\ g[r] = "SENT" => m[r] = 1

\* A listener l has told nobody of those it has still to tell, and the row it
\* is about says how far it is.
Sound(l, g, m) ==
  /\ l.pc \in Telling => l.to \in Requesters /\ l.to \notin l.left
  /\ \A r \in Requesters :
       /\ RowTrue(g, m, r)
       /\ l.pc \in {"idle", "list"} \/ r \in l.left => Clean(g, m, r)
  /\ l.pc = "create" => Clean(g, m, l.to)
  /\ l.pc = "mail" => g[l.to] = "PENDING" /\ m[l.to] = 0
  /\ l.pc = "sent" => g[l.to] = "PENDING" /\ m[l.to] = 1
  /\ l.pc = "failed" => g[l.to] = "PENDING" /\ m[l.to] <= 1

\* The inductive form of MailsLogged.
MailInv ==
  /\ BusTypeOK
  /\ \A e \in Events : Sound(listener[e], log[e], mailed[e])

\* A step about one event.
LEMMA OneEvent ==
  ASSUME MailInv, NEW e \in Events,
         BusTypeOK', Sound(listener'[e], log'[e], mailed'[e]),
         \A f \in Events \ {e} :
           listener'[f] = listener[f] /\ log'[f] = log[f] /\ mailed'[f] = mailed[f]
  PROVE  MailInv'
<1>1. ASSUME NEW f \in Events PROVE Sound(listener'[f], log'[f], mailed'[f])
  BY DEF MailInv
<1> QED
  BY <1>1 DEF MailInv

\* Replacing the record of one listener.
LEMMA ListenRow ==
  ASSUME BusTypeOK, NEW e \in Events, NEW l, Listen(e, l)
  PROVE  /\ listener'[e] = l
         /\ \A f \in Events \ {e} : listener'[f] = listener[f]
         /\ l \in ListenerStates => listener' \in [Events -> ListenerStates]
  BY DEF Listen, BusTypeOK

\* The records of listeners that do nothing are well formed.
LEMMA RestTyped ==
  /\ IdleListener \in ListenerStates /\ IdleListener.pc = "idle" /\ IdleListener.left = {}
  /\ EndedListener \in ListenerStates /\ EndedListener.pc = "ended" /\ EndedListener.left = {}
<1>1. IdleListener \in ListenerStates /\ IdleListener.pc = "idle" /\ IdleListener.left = {}
  BY DEF IdleListener, ListenerStates
<1>2. EndedListener = [pc |-> "ended", to |-> None, left |-> {}]
  BY DEF EndedListener, IdleListener
<1> QED
  BY <1>1, <1>2 DEF ListenerStates

\* The rows of an event nobody published are true.
LEMMA IdleSound == Sound(IdleListener, NoRows, NoMails)
<1>1. ASSUME NEW r \in Requesters
      PROVE  /\ NoRows[r] = None /\ NoMails[r] = 0
             /\ RowTrue(NoRows, NoMails, r) /\ Clean(NoRows, NoMails, r)
  BY NoRowAssumption DEF NoRows, NoMails, RowTrue, Clean
<1> QED
  BY <1>1, RestTyped DEF Sound, Telling

\* The loop goes on with recipients nobody told yet.
LEMMA ToldSound ==
  ASSUME BusTypeOK, NEW e \in Events, NEW left \in SUBSET Requesters, Told(e, left),
         NEW g, NEW m, \A r \in Requesters : RowTrue(g, m, r),
         \A r \in left : Clean(g, m, r)
  PROVE  /\ Sound(listener'[e], g, m)
         /\ listener' \in [Events -> ListenerStates]
         /\ \A f \in Events \ {e} : listener'[f] = listener[f]
<1>1. CASE left = {}
  <2>1. Listen(e, EndedListener)
    BY <1>1 DEF Told
  <2> QED
    BY <2>1, ListenRow, RestTyped DEF Sound, Telling
<1>2. CASE left # {}
  <2>1. PICK r \in left : Listen(e, [pc |-> "create", to |-> r, left |-> left \ {r}])
    BY <1>2 DEF Told
  <2> DEFINE l == [pc |-> "create", to |-> r, left |-> left \ {r}]
  <2>2. l \in ListenerStates
    BY DEF ListenerStates
  <2>3. Sound(l, g, m)
    BY DEF Sound, Telling
  <2> QED
    BY <2>1, <2>2, <2>3, ListenRow
<1> QED
  BY <1>1, <1>2

\* The listener moves on about the same requester.
LEMMA ListenOnRow ==
  ASSUME BusTypeOK, NEW e \in Events, NEW place \in Telling, ListenOn(e, place)
  PROVE  /\ listener'[e].pc = place /\ listener'[e].to = listener[e].to
         /\ listener'[e].left = listener[e].left
         /\ listener' \in [Events -> ListenerStates]
         /\ \A f \in Events \ {e} : listener'[f] = listener[f]
<1> DEFINE l == [listener[e] EXCEPT !.pc = place]
<1>1. listener[e] \in ListenerStates
  BY DEF BusTypeOK
<1>2. /\ l \in ListenerStates
      /\ l.pc = place /\ l.to = listener[e].to /\ l.left = listener[e].left
  BY <1>1 DEF ListenerStates, Telling
<1>3. Listen(e, l)
  BY DEF ListenOn
<1> QED
  BY <1>2, <1>3, ListenRow

\* An event is published: its number is free, so its rows are clean.
LEMMA PublishSound ==
  ASSUME MailInv, NEW name, NEW to, name \in Heard => to \in Requesters,
         Publish(name, to), UNCHANGED <<log, mailed>>
  PROVE  MailInv'
<1>1. PICK e \in Unused :
        /\ audit' = [audit EXCEPT ![e] = "writing"]
        /\ Notify(e, name, to)
  BY DEF Publish
<1>2. e \in Events /\ listener[e].pc = "idle" /\ BusTypeOK
  BY <1>1 DEF Unused, MailInv
<1>3. \A r \in Requesters : Clean(log[e], mailed[e], r) /\ RowTrue(log[e], mailed[e], r)
  BY <1>2 DEF MailInv, Sound
<1>4. /\ Sound(listener'[e], log[e], mailed[e])
      /\ listener' \in [Events -> ListenerStates]
      /\ \A f \in Events \ {e} : listener'[f] = listener[f]
  <2>1. CASE Listen(e, [IdleListener EXCEPT !.pc = "list"])
    <3> DEFINE l == [IdleListener EXCEPT !.pc = "list"]
    <3>1. l \in ListenerStates /\ l.pc = "list"
      BY DEF IdleListener, ListenerStates
    <3> QED
      BY <1>2, <1>3, <2>1, <3>1, ListenRow DEF Sound, Telling
  <2>2. CASE name \in Heard /\ Told(e, {to})
    <3>1. {to} \in SUBSET Requesters
      BY <2>2
    <3>2. \A x \in {to} : Clean(log[e], mailed[e], x)
      BY <1>3, <3>1
    <3>3. \A x \in Requesters : RowTrue(log[e], mailed[e], x)
      BY <1>3
    <3> QED
      BY <1>2, <2>2, <3>1, <3>2, <3>3, ToldSound
  <2>3. CASE Listen(e, EndedListener)
    BY <1>2, <1>3, <2>3, ListenRow, RestTyped DEF Sound, Telling
  <2> QED
    BY <1>1, <2>1, <2>2, <2>3 DEF Notify
<1>5. BusTypeOK'
  BY <1>1, <1>2, <1>4 DEF BusTypeOK
<1> QED
  BY <1>2, <1>4, <1>5, OneEvent

\* Each step and each failure of a listener keeps the rows true.
LEMMA ListenerSound ==
  ASSUME MailInv, NEW e \in Events, ListenerSteps(e) \/ ListenerFaults(e)
  PROVE  MailInv'
<1> DEFINE l == listener[e]
           r == listener[e].to
<1>0. /\ BusTypeOK /\ l \in ListenerStates /\ Sound(l, log[e], mailed[e])
      /\ log[e] \in [Requesters -> {"PENDING", "SENT", "FAILED", None}]
      /\ mailed[e] \in [Requesters -> Nat]
  BY DEF MailInv, BusTypeOK
<1>1. CASE ListRequesters(e)
  <2> DEFINE left == {OwnerOf[q] : q \in {x \in Requests : request[x] # "CLOSED"}}
  <2>1. left \in SUBSET Requesters
    BY DEF Requesters
  <2>2. \A x \in Requesters : Clean(log[e], mailed[e], x) /\ RowTrue(log[e], mailed[e], x)
    BY <1>0, <1>1 DEF ListRequesters, On, Sound
  <2>3. /\ Sound(listener'[e], log[e], mailed[e])
        /\ listener' \in [Events -> ListenerStates]
        /\ \A f \in Events \ {e} : listener'[f] = listener[f]
    BY <1>0, <1>1, <2>1, <2>2, ToldSound DEF ListRequesters
  <2> QED
    BY <1>0, <1>1, <2>3, OneEvent DEF ListRequesters, BusTypeOK
<1>2. CASE CreateLog(e)
  <2>1. l.pc = "create" /\ r \in Requesters
    BY <1>0, <1>2 DEF CreateLog, On, Sound, Telling
  <2>2. /\ log' \in [Events -> [Requesters -> {"PENDING", "SENT", "FAILED", None}]]
        /\ log'[e] = [log[e] EXCEPT ![r] = "PENDING"] /\ mailed' = mailed
        /\ \A f \in Events \ {e} : log'[f] = log[f]
    BY <1>0, <1>2, <2>1 DEF CreateLog, BusTypeOK
  <2>3. /\ listener'[e].pc = "mail" /\ listener'[e].to = r /\ listener'[e].left = l.left
        /\ listener' \in [Events -> ListenerStates]
        /\ \A f \in Events \ {e} : listener'[f] = listener[f]
    BY <1>0, <1>2, ListenOnRow DEF CreateLog, Telling
  <2>4. Sound(listener'[e], log'[e], mailed'[e])
    BY <1>0, <2>1, <2>2, <2>3, NoRowAssumption DEF Sound, RowTrue, Clean, Telling
  <2> QED
    BY <1>0, <1>2, <2>2, <2>3, <2>4, OneEvent DEF CreateLog, BusTypeOK
<1>3. CASE SendMail(e)
  <2>1. l.pc = "mail" /\ r \in Requesters /\ log' = log
    BY <1>0, <1>3 DEF SendMail, On, Sound, Telling
  <2>2. /\ mailed' \in [Events -> [Requesters -> Nat]]
        /\ \/ mailed'[e] = [mailed[e] EXCEPT ![r] = @ + 1] /\ listener'[e].pc \in {"sent", "failed"}
           \/ mailed'[e] = mailed[e] /\ listener'[e].pc = "failed"
        /\ \A f \in Events \ {e} : mailed'[f] = mailed[f]
    <3>1. \/ /\ mailed' = [mailed EXCEPT ![e][r] = @ + 1]
             /\ ListenOn(e, "sent") \/ ListenOn(e, "failed")
          \/ mailed' = mailed /\ ListenOn(e, "failed")
      BY <1>3 DEF SendMail
    <3>2. listener'[e].pc \in {"sent", "failed"} /\ (ListenOn(e, "failed") => listener'[e].pc = "failed")
      BY <1>0, <3>1, ListenOnRow DEF Telling
    <3>3. CASE mailed' = [mailed EXCEPT ![e][r] = @ + 1]
      <4>1. mailed' = [mailed EXCEPT ![e] = [mailed[e] EXCEPT ![r] = mailed[e][r] + 1]]
        BY <3>3
      <4>2. [mailed[e] EXCEPT ![r] = mailed[e][r] + 1] \in [Requesters -> Nat]
        BY <1>0, <2>1
      <4> QED
        BY <1>0, <3>2, <4>1, <4>2 DEF BusTypeOK
    <3>4. CASE mailed' = mailed /\ ListenOn(e, "failed")
      BY <1>0, <3>2, <3>4 DEF BusTypeOK
    <3> QED
      BY <3>1, <3>3, <3>4
  <2>3. /\ listener'[e].to = r /\ listener'[e].left = l.left
        /\ listener' \in [Events -> ListenerStates]
        /\ \A f \in Events \ {e} : listener'[f] = listener[f]
    BY <1>0, <1>3, ListenOnRow DEF SendMail, Telling
  <2>4. Sound(listener'[e], log'[e], mailed'[e])
    <3>1. /\ log[e][r] = "PENDING" /\ mailed[e][r] = 0 /\ r \notin l.left
          /\ \A x \in Requesters : RowTrue(log[e], mailed[e], x)
          /\ \A x \in l.left : x \in Requesters => Clean(log[e], mailed[e], x)
      BY <1>0, <2>1 DEF Sound, Telling
    <3>2. /\ \A x \in Requesters \ {r} : mailed'[e][x] = mailed[e][x]
          /\ mailed'[e][r] \in {0, 1}
          /\ listener'[e].pc = "sent" => mailed'[e][r] = 1
          /\ listener'[e].pc \in {"sent", "failed"}
      BY <1>0, <2>1, <2>2, <3>1
    <3>3. \A x \in Requesters : RowTrue(log'[e], mailed'[e], x)
      BY <2>1, <3>1, <3>2, NoRowAssumption DEF RowTrue
    <3>4. \A x \in l.left : x \in Requesters => Clean(log'[e], mailed'[e], x)
      BY <2>1, <3>1, <3>2 DEF Clean
    <3> QED
      BY <2>1, <2>3, <3>1, <3>2, <3>3, <3>4 DEF Sound, Telling
  <2> QED
    BY <1>0, <1>3, <2>1, <2>2, <2>3, <2>4, OneEvent DEF SendMail, BusTypeOK
<1>4. CASE MarkSent(e) \/ MarkFailed(e)
  <2>1. r \in Requesters /\ r \notin l.left /\ mailed' = mailed /\ audit' = audit
    BY <1>0, <1>4 DEF MarkSent, MarkFailed, On, Sound, Telling
  <2>2. PICK to \in {"SENT", "FAILED"} :
          /\ log' = [log EXCEPT ![e][r] = to]
          /\ to = "SENT" => l.pc = "sent"
    BY <1>4 DEF MarkSent, MarkFailed, On
  <2>3. /\ log' \in [Events -> [Requesters -> {"PENDING", "SENT", "FAILED", None}]]
        /\ log'[e] = [log[e] EXCEPT ![r] = to]
        /\ \A f \in Events \ {e} : log'[f] = log[f]
    BY <1>0, <2>1, <2>2 DEF BusTypeOK
  <2>4. \A x \in Requesters : RowTrue(log'[e], mailed'[e], x)
    <3>1. to # None
      BY <1>0, <1>4, <2>1, <2>2, NoRowAssumption
    <3> QED
      BY <1>0, <2>1, <2>2, <2>3, <3>1 DEF Sound, RowTrue
  <2>5. l.left \in SUBSET Requesters /\ \A x \in l.left : Clean(log'[e], mailed'[e], x)
    BY <1>0, <2>1, <2>3 DEF Sound, Clean, ListenerStates
  <2>6. /\ Sound(listener'[e], log'[e], mailed'[e])
        /\ listener' \in [Events -> ListenerStates]
        /\ \A f \in Events \ {e} : listener'[f] = listener[f]
    BY <1>0, <1>4, <2>4, <2>5, ToldSound DEF MarkSent, MarkFailed
  <2> QED
    BY <1>0, <2>1, <2>3, <2>6, OneEvent DEF BusTypeOK
<1>5. CASE MarkSentFails(e)
  <2>1. /\ l.pc = "sent" /\ UNCHANGED <<audit, log, mailed>>
        /\ listener'[e].pc = "failed" /\ listener'[e].to = r /\ listener'[e].left = l.left
        /\ listener' \in [Events -> ListenerStates]
        /\ \A f \in Events \ {e} : listener'[f] = listener[f]
    BY <1>0, <1>5, ListenOnRow DEF MarkSentFails, On, Telling
  <2>2. Sound(listener'[e], log'[e], mailed'[e])
    BY <1>0, <2>1 DEF Sound, Telling
  <2> QED
    BY <1>0, <2>1, <2>2, OneEvent DEF BusTypeOK
<1>6. CASE ListenerFails(e)
  <2>1. /\ UNCHANGED <<audit, log, mailed>>
        /\ listener'[e] = EndedListener
        /\ listener' \in [Events -> ListenerStates]
        /\ \A f \in Events \ {e} : listener'[f] = listener[f]
    BY <1>0, <1>6, ListenRow, RestTyped DEF ListenerFails
  <2>2. Sound(listener'[e], log'[e], mailed'[e])
    BY <1>0, <2>1, RestTyped DEF Sound, Telling
  <2> QED
    BY <1>0, <2>1, <2>2, OneEvent DEF BusTypeOK
<1>7. CASE AuditWrite(e) \/ AuditFails(e)
  <2>1. UNCHANGED <<listener, log, mailed>> /\ BusTypeOK'
    BY <1>0, <1>7 DEF AuditWrite, AuditFails, BusTypeOK
  <2> QED
    BY <2>1 DEF MailInv
<1>8. CASE Forget(e)
  <2>1. /\ listener'[e] = IdleListener
        /\ listener' \in [Events -> ListenerStates]
        /\ \A f \in Events \ {e} : listener'[f] = listener[f]
    BY <1>0, <1>8, ListenRow, RestTyped DEF Forget
  <2>2. /\ audit' \in [Events -> {"none", "writing", "written", "lost"}]
        /\ log' = [log EXCEPT ![e] = NoRows] /\ mailed' = [mailed EXCEPT ![e] = NoMails]
    BY <1>0, <1>8 DEF Forget, BusTypeOK
  <2>3. /\ log' \in [Events -> [Requesters -> {"PENDING", "SENT", "FAILED", None}]]
        /\ mailed' \in [Events -> [Requesters -> Nat]]
        /\ log'[e] = NoRows /\ mailed'[e] = NoMails
        /\ \A f \in Events \ {e} : log'[f] = log[f] /\ mailed'[f] = mailed[f]
    BY <1>0, <2>2 DEF BusTypeOK, NoRows, NoMails
  <2>4. Sound(IdleListener, NoRows, NoMails)
    BY IdleSound
  <2> QED
    BY <1>0, <2>1, <2>2, <2>3, <2>4, OneEvent DEF BusTypeOK
<1> QED
  BY <1>1, <1>2, <1>3, <1>4, <1>5, <1>6, <1>7, <1>8 DEF ListenerSteps, ListenerFaults

\* A crash ends the listeners and leaves the rows.
LEMMA CrashSound ==
  ASSUME MailInv, ListenersDie
  PROVE  MailInv'
<1>1. /\ listener' = [e \in Events |-> IF On(e, "idle") THEN IdleListener ELSE EndedListener]
      /\ log' = log /\ mailed' = mailed /\ BusTypeOK
  BY DEF ListenersDie, MailInv
<1>2. ASSUME NEW e \in Events PROVE Sound(listener'[e], log'[e], mailed'[e])
  <2>1. Sound(listener[e], log[e], mailed[e])
    BY DEF MailInv
  <2>2. CASE On(e, "idle")
    <3>1. listener'[e] = IdleListener
      BY <1>1, <2>2
    <3> QED
      BY <1>1, <2>1, <2>2, <3>1, RestTyped DEF Sound, Telling, On
  <2>3. CASE ~On(e, "idle")
    <3>1. listener'[e] = EndedListener
      BY <1>1, <2>3
    <3> QED
      BY <1>1, <2>1, <3>1, RestTyped DEF Sound, Telling
  <2> QED
    BY <2>2, <2>3
<1>3. listener' \in [Events -> ListenerStates]
  BY <1>1, RestTyped
<1>4. audit' \in [Events -> {"none", "writing", "written", "lost"}]
  BY <1>1 DEF ListenersDie, BusTypeOK
<1> QED
  BY <1>1, <1>2, <1>3, <1>4 DEF MailInv, BusTypeOK

\* Every step keeps the rows true.
LEMMA MailStep == DayInv /\ MailInv /\ [Next]_vars => MailInv'
<1> SUFFICES ASSUME DayInv, MailInv, [Next]_vars PROVE MailInv'
  OBVIOUS
<1>1. CASE UNCHANGED busVars
  BY <1>1 DEF MailInv, BusTypeOK, busVars
<1>2. ASSUME NEW q \in Requests, NEW name, Publish(name, OwnerOf[q]), UNCHANGED <<log, mailed>>
      PROVE  MailInv'
  <2>1. OwnerOf[q] \in Requesters
    BY DEF Requesters
  <2> QED
    BY <1>2, <2>1, PublishSound
<1>3. ASSUME NEW p \in Handlers, Continues(p)
      PROVE  MailInv'
  <2>1. CASE UpdateWrite(p) \/ SubmitCheck(p) \/ SubmitWrite(p)
    BY <1>1, <2>1 DEF UpdateWrite, SubmitCheck, SubmitWrite
  <2>2. CASE UpdatePublish(p)
    BY <2>2, PublishSound DEF UpdatePublish, Heard
  <2>3. CASE SubmitPublish(p)
    <3>1. handler[p].request \in Requests
      BY <2>3 DEF SubmitPublish, At, DayInv, LoadedStates, SubmitPlaces
    <3> QED
      BY <1>2, <2>3, <3>1 DEF SubmitPublish
  <2> QED
    BY <1>3, <2>1, <2>2, <2>3 DEF Continues
<1>4. ASSUME NEW q \in Requests, NEW name, CloseRequest(q, name)
      PROVE  MailInv'
  BY <1>2, <1>4 DEF CloseRequest
<1>5. CASE CronPublish
  BY <1>5, PublishSound DEF CronPublish, Heard
<1>6. CASE Crash
  BY <1>6, CrashSound DEF Crash
<1>7. ASSUME NEW e \in Events, ListenerSteps(e) \/ ListenerFaults(e)
      PROVE  MailInv'
  BY <1>7, ListenerSound
<1>8. CASE CronFind \/ CronClose \/ CronAborts \/ Tick
  BY <1>1, <1>8 DEF CronFind, CronClose, CronAborts, Tick
<1>9. ASSUME NEW p \in Organisers, NEW field \in Fields, UpdateRead(p, field)
      PROVE  MailInv'
  BY <1>1, <1>9 DEF UpdateRead
<1>10. ASSUME NEW p \in Callers, NEW q \in Requests, SubmitRead(p, q)
       PROVE  MailInv'
  BY <1>1, <1>10 DEF SubmitRead
<1>11. ASSUME NEW p \in Handlers, Abort(p)
       PROVE  MailInv'
  BY <1>1, <1>11 DEF Abort
<1>12. CASE UNCHANGED vars
  BY <1>1, <1>12 DEF vars
<1> QED
  BY <1>3, <1>4, <1>5, <1>6, <1>7, <1>8, <1>9, <1>10, <1>11, <1>12 DEF Next, Cron

\* Nobody was told anything initially.
LEMMA MailInit == Init => MailInv
<1> SUFFICES ASSUME Init PROVE MailInv
  OBVIOUS
<1>1. /\ listener = [e \in Events |-> IdleListener] /\ log = [e \in Events |-> NoRows]
      /\ mailed = [e \in Events |-> NoMails] /\ audit = [e \in Events |-> "none"]
  BY DEF Init, BusInit
<1>2. BusTypeOK
  BY <1>1, RestTyped DEF BusTypeOK, NoRows, NoMails
<1> QED
  BY <1>1, <1>2, IdleSound DEF MailInv

\* Every variable keeps its type and a handler has what its place uses, for
\* any number of handlers, requests and events; only a change of an impactful
\* field is announced (changedFields).
THEOREM DayTyped == Spec => []TypeOK
<1>1. DayInv /\ MailInv => TypeOK
  BY DEF DayInv, MailInv, TypeOK, LoadedStates, UpdatePlaces, At
<1> QED
  BY <1>1, DayInit, DayStep, MailInit, MailStep, PTL DEF Spec

\* Whatever the database, the mail server and crashes do, a mail leaves a row
\* and is delivered once, and no row says SENT of a mail that was not.
THEOREM MailsAreLogged == Spec => []MailsLogged
<1>1. MailInv => MailsLogged
  BY DEF MailInv, Sound, RowTrue, MailsLogged
<1> QED
  BY <1>1, DayInit, DayStep, MailInit, MailStep, PTL DEF Spec

-----------------------------------------------------------------------------
(* The window of the match, however calls overlap.                          *)

\* A submission that is past the check was overtaken, or the match still
\* accepts requests.
WindowInv == \A p \in Handlers : At(p, "submitWrite") => Accepting(match, now) \/ handler[p].late

\* When the match stops accepting, the submissions past the check are marked.
LEMMA WindowMoves ==
  ASSUME DayInv, WindowInv, NEW p \in Handlers, NEW row, NEW time,
         NEW h, h = (IF Closes(row, time) THEN Overtaken[p] ELSE handler[p]), h.pc = "submitWrite"
  PROVE  Accepting(row, time) \/ h.late
<1>1. handler[p].pc = "submitWrite" /\ (Closes(row, time) => h.late)
  BY OvertakenTyped DEF DayInv
<1> QED
  BY <1>1 DEF WindowInv, At, Closes

\* Every step keeps the submissions past the check within the window or marked.
LEMMA WindowStep == DayInv /\ WindowInv /\ [Next]_vars => WindowInv'
<1> SUFFICES ASSUME DayInv, WindowInv, [Next]_vars PROVE WindowInv'
  OBVIOUS
<1>0. handler \in [Handlers -> LoadedStates]
  BY DEF DayInv
<1>1. CASE UNCHANGED <<match, now, handler>>
  BY <1>1 DEF WindowInv, At, Accepting
<1>2. ASSUME NEW p \in Handlers, UNCHANGED <<match, now>>,
             \A q \in Handlers \ {p} : handler'[q] = handler[q],
             handler'[p].pc = "submitWrite" => Accepting(match, now)
      PROVE  WindowInv'
  BY <1>2 DEF WindowInv, At, Accepting
<1>3. ASSUME NEW p \in Handlers, Return(p), UNCHANGED <<match, now>>
      PROVE  WindowInv'
  BY <1>0, <1>2, <1>3, BecomeRow, IdleLoaded DEF Return
<1>4. ASSUME NEW p \in Organisers, NEW field \in Fields, UpdateRead(p, field)
      PROVE  WindowInv'
  <2> DEFINE s == [IdleHandler EXCEPT !.pc = "updateWrite", !.existing = match, !.field = field]
  <2>1. p \in Handlers /\ s.pc = "updateWrite"
    BY DEF Handlers, IdleHandler
  <2>2. handler'[p] = s /\ \A q \in Handlers \ {p} : handler'[q] = handler[q]
    BY <1>0, <1>4, <2>1, BecomeRow DEF UpdateRead
  <2> QED
    BY <1>2, <1>4, <2>1, <2>2 DEF UpdateRead, matchVars
<1>5. ASSUME NEW p \in Callers, NEW q \in Requests, SubmitRead(p, q)
      PROVE  WindowInv'
  <2> DEFINE s == [IdleHandler EXCEPT !.pc = "matchRead", !.request = q]
  <2>1. p \in Handlers /\ s.pc = "matchRead"
    BY DEF Handlers, IdleHandler
  <2>2. handler'[p] = s /\ \A x \in Handlers \ {p} : handler'[x] = handler[x]
    BY <1>0, <1>5, <2>1, BecomeRow DEF SubmitRead
  <2> QED
    BY <1>2, <1>5, <2>1, <2>2 DEF SubmitRead, matchVars
<1>6. ASSUME NEW p \in Handlers, UpdateWrite(p)
      PROVE  WindowInv'
  <2>1. ASSUME NEW q \in Handlers, handler'[q].pc = "submitWrite"
        PROVE  Accepting(match', now) \/ handler'[q].late
    <3>1. q # p
      BY <1>6, <2>1, UpdateWritten
    <3>2. handler'[q] = IF Closes(match', now) THEN Overtaken[q] ELSE handler[q]
      BY <1>6, <3>1, UpdateWritten
    <3> QED
      BY <2>1, <3>2, WindowMoves
  <2> QED
    BY <1>6, <2>1 DEF UpdateWrite, WindowInv, At, Accepting
<1>7. ASSUME NEW p \in Handlers, UpdatePublish(p) \/ SubmitPublish(p) \/ Abort(p)
      PROVE  WindowInv'
  BY <1>3, <1>7 DEF UpdatePublish, SubmitPublish, Abort, matchVars
<1>8. ASSUME NEW p \in Handlers, SubmitCheck(p)
      PROVE  WindowInv'
  <2>1. CASE Accepting(match, now) /\ Goto(p, "submitWrite")
    BY <1>0, <1>2, <1>8, <2>1, BecomeRow DEF Goto, SubmitCheck, matchVars
  <2> QED
    BY <1>3, <1>8, <2>1 DEF SubmitCheck, matchVars
<1>9. ASSUME NEW p \in Handlers, SubmitWrite(p)
      PROVE  WindowInv'
  <2> DEFINE s == [handler[p] EXCEPT !.pc = "submitted"]
  <2>1. s.pc = "submitted"
    BY <1>0 DEF LoadedStates, HandlerStates
  <2>2. handler'[p] = s /\ \A q \in Handlers \ {p} : handler'[q] = handler[q]
    BY <1>0, <1>9, BecomeRow DEF SubmitWrite, Goto
  <2> QED
    BY <1>2, <1>9, <2>1, <2>2 DEF SubmitWrite
<1>10. CASE CronClose \/ Tick
  <2>1. ASSUME NEW q \in Handlers, handler'[q].pc = "submitWrite"
        PROVE  Accepting(match', now') \/ handler'[q].late
    <3>1. handler'[q] = IF Closes(match', now') THEN Overtaken[q] ELSE handler[q]
      BY <1>10 DEF CronClose, Tick, Closes, Accepting
    <3> QED
      BY <2>1, <3>1, WindowMoves
  <2> QED
    BY <2>1 DEF WindowInv, At, Accepting
<1>11. CASE Crash
  BY <1>11, IdleLoaded DEF Crash, WindowInv, At
<1>12. CASE CronFind \/ CronPublish \/ CronAborts
  BY <1>1, <1>12 DEF CronFind, CronPublish, CronAborts, matchVars
<1>13. ASSUME NEW q \in Requests, NEW name, CloseRequest(q, name)
       PROVE  WindowInv'
  BY <1>1, <1>13 DEF CloseRequest
<1>14. CASE UNCHANGED vars \/ UNCHANGED <<updates, matchVars, now, handler, cron>>
  BY <1>1, <1>14 DEF vars, matchVars
<1> QED
  BY <1>4, <1>5, <1>6, <1>7, <1>8, <1>9, <1>10, <1>11, <1>12, <1>13, <1>14
  DEF Next, Continues, Cron

\* However updates, the cron and submissions overlap, a request is submitted
\* while the match accepts requests, or by a call that had passed the check of
\* the window before it closed (submit-request reads the match, then writes).
THEOREM SubmittedInWindow == Spec => SubmissionsInWindow
<1>1. Init => WindowInv
  BY IdleLoaded DEF Init, WindowInv, At
<1>2. ASSUME DayInv, WindowInv, Next, NEW q \in Requests,
             request[q] # "SUBMITTED", request'[q] = "SUBMITTED"
      PROVE  \/ match.status = "OPEN" /\ match.requestsOpenAt <= now
                /\ now <= match.requestsCloseAt
             \/ \E p \in Handlers : handler[p].request = q /\ handler[p].late
  <2>1. ASSUME NEW p \in Handlers, SubmitWrite(p)
        PROVE  handler[p].request = q /\ (Accepting(match, now) \/ handler[p].late)
    BY <1>2, <2>1 DEF SubmitWrite, WindowInv, At, DayInv
  <2>2. ASSUME NEW x \in Requests, NEW name, CloseRequest(x, name)
        PROVE  FALSE
    BY <1>2, <2>2 DEF CloseRequest, DayInv
  <2>3. request' # request
    BY <1>2
  <2>4. \/ \E p \in Handlers : SubmitWrite(p)
        \/ \E x \in Requests : \E name \in {"request.decided", "request.cancelled"} :
             CloseRequest(x, name)
    BY <1>2, <2>3 DEF Next, Continues, Cron, UpdateRead, SubmitRead, UpdateWrite, UpdatePublish,
       SubmitCheck, SubmitPublish, Abort, CronFind, CronClose, CronPublish, CronAborts, Tick,
       Crash, matchVars
  <2> QED
    BY <2>1, <2>2, <2>4 DEF Accepting
<1>3. DayInv /\ WindowInv /\ [Next]_vars =>
        [\A q \in Requests : request[q] # "SUBMITTED" /\ request'[q] = "SUBMITTED" =>
           \/ match.status = "OPEN" /\ match.requestsOpenAt <= now /\ now <= match.requestsCloseAt
           \/ \E p \in Handlers : handler[p].request = q /\ handler[p].late]_vars
  BY <1>2
<1> QED
  BY <1>1, <1>3, DayInit, DayStep, WindowStep, PTL DEF Spec, SubmissionsInWindow

-----------------------------------------------------------------------------
(* Announcements.                                                          *)

\* Steps that leave what updates have to announce to the updates that announce it.
LEMMA AnnouncedKept ==
  ASSUME ChangesAnnounced, untold' \subseteq untold,
         \/ faults' > 0
         \/ /\ faults' = faults
            /\ \A p \in Handlers : At(p, "publish") =>
                 \/ handler'[p] = handler[p]
                 \/ handler[p].field \notin untold'
  PROVE  ChangesAnnounced'
  BY DEF ChangesAnnounced, At

\* An update that changed a field announces it next, whoever else is writing.
LEMMA AnnouncedWrite ==
  ASSUME DayInv, ChangesAnnounced, NEW p \in Handlers, UpdateWrite(p)
  PROVE  ChangesAnnounced'
<1>1. At(p, "updateWrite") /\ faults' = faults
  BY DEF UpdateWrite
<1>2. ASSUME NEW q \in Handlers, At(q, "publish")
      PROVE  At(q, "publish")' /\ handler'[q].field = handler[q].field
  <2>1. q # p
    BY <1>1, <1>2 DEF At
  <2>2. handler'[q] = Overtaken[q] \/ handler'[q] = handler[q]
    BY <2>1, UpdateWritten
  <2>3. handler'[q] = handler[q]
    BY <1>2, <2>2, OvertakenTyped DEF DayInv, At
  <2> QED
    BY <1>2, <2>3 DEF At
<1>3. ASSUME NEW f \in untold', faults' = 0
      PROVE  \E q \in Handlers : At(q, "publish")' /\ handler'[q].field = f
  <2>1. CASE f \in untold
    <3>1. PICK q \in Handlers : At(q, "publish") /\ handler[q].field = f
      BY <1>1, <1>3, <2>1 DEF ChangesAnnounced
    <3> QED
      BY <1>2, <3>1
  <2>2. CASE f \notin untold
    BY <1>3, <2>2, UpdateWritten DEF At
  <2> QED
    BY <2>1, <2>2
<1> QED
  BY <1>1, <1>3 DEF ChangesAnnounced, DayInv

\* Every step keeps what was changed announced, or about to be.
LEMMA AnnouncedStep == DayInv /\ ChangesAnnounced /\ [Next]_vars => ChangesAnnounced'
<1> SUFFICES ASSUME DayInv, ChangesAnnounced, [Next]_vars PROVE ChangesAnnounced'
  OBVIOUS
<1>0. handler \in [Handlers -> LoadedStates] /\ faults \in Nat
  BY DEF DayInv
<1>1. CASE UNCHANGED <<handler, untold, faults>>
  BY <1>1, AnnouncedKept
<1>2. ASSUME NEW p \in Handlers, NEW s, Become(p, s), ~At(p, "publish"), UNCHANGED <<untold, faults>>
      PROVE  ChangesAnnounced'
  BY <1>0, <1>2, BecomeRow, AnnouncedKept
<1>3. ASSUME NEW p \in Organisers, NEW field \in Fields, UpdateRead(p, field)
      PROVE  ChangesAnnounced'
  BY <1>2, <1>3 DEF UpdateRead, Handlers, At, matchVars
<1>4. ASSUME NEW p \in Callers, NEW q \in Requests, SubmitRead(p, q)
      PROVE  ChangesAnnounced'
  BY <1>2, <1>4 DEF SubmitRead, Handlers, At, matchVars
<1>5. ASSUME NEW p \in Handlers, SubmitCheck(p) \/ SubmitWrite(p) \/ SubmitPublish(p)
      PROVE  ChangesAnnounced'
  BY <1>2, <1>5 DEF SubmitCheck, SubmitWrite, SubmitPublish, Goto, Return, At, matchVars
<1>6. ASSUME NEW p \in Handlers, UpdatePublish(p)
      PROVE  ChangesAnnounced'
  <2>1. /\ untold' = untold \ {handler[p].field} /\ faults' = faults
        /\ \A q \in Handlers \ {p} : handler'[q] = handler[q]
    BY <1>0, <1>6, BecomeRow DEF UpdatePublish, Return
  <2> QED
    BY <2>1, AnnouncedKept
<1>7. ASSUME UNCHANGED untold, faults' = faults + 1
      PROVE  ChangesAnnounced'
  BY <1>0, <1>7, AnnouncedKept
<1>8. ASSUME UNCHANGED <<untold, faults>>,
             \A q \in Handlers : handler'[q] = Overtaken[q] \/ handler'[q] = handler[q]
      PROVE  ChangesAnnounced'
  <2>1. \A q \in Handlers : At(q, "publish") => handler'[q] = handler[q]
    BY <1>0, <1>8, OvertakenTyped DEF At
  <2> QED
    BY <1>8, <2>1, AnnouncedKept
<1>9. CASE CronClose \/ Tick
  BY <1>8, <1>9 DEF CronClose, Tick
<1>10. CASE Crash \/ CronAborts \/ (\E p \in Handlers : Abort(p))
  BY <1>7, <1>10 DEF Crash, CronAborts, Abort, matchVars
<1>11. CASE CronFind \/ CronPublish
  BY <1>1, <1>11 DEF CronFind, CronPublish, matchVars
<1>12. ASSUME NEW q \in Requests, NEW name, CloseRequest(q, name)
       PROVE  ChangesAnnounced'
  BY <1>1, <1>12 DEF CloseRequest
<1>13. ASSUME NEW e \in Events, ListenerSteps(e) \/ ListenerFaults(e),
              UNCHANGED <<updates, matchVars, now, handler, cron>>
       PROVE  ChangesAnnounced'
  <2>1. faults' = faults \/ faults' = faults + 1
    BY <1>13 DEF ListenerSteps, ListenerFaults, ListRequesters, CreateLog, SendMail,
       MarkSent, MarkFailed, AuditWrite, Forget, MarkSentFails, ListenerFails, AuditFails
  <2> QED
    BY <1>1, <1>7, <1>13, <2>1 DEF matchVars
<1>14. CASE UNCHANGED vars
  BY <1>1, <1>14 DEF vars, matchVars
<1> QED
  BY <1>3, <1>4, <1>5, <1>6, <1>9, <1>10, <1>11, <1>12, <1>13, <1>14, AnnouncedWrite
  DEF Next, Continues, Cron

\* However many updates overlap each other, the cron and submissions, whatever
\* one of them changed of the status, the place or the closing time, it is about
\* to announce or has announced, or something failed.  The one update that goes
\* unannounced writes the value it had read over a newer one (update compares
\* the row it wrote with the row it read).
THEOREM ChangesAreAnnounced == Spec => []ChangesAnnounced
<1>1. Init => ChangesAnnounced
  BY DEF Init, ChangesAnnounced
<1> QED
  BY <1>1, AnnouncedStep, DayInit, DayStep, PTL DEF Spec
=============================================================================
