------------------------ MODULE AccessControlProofs ------------------------
(***************************************************************************)
(* Theorems about AccessControl, for any number of badges, zones, devices,  *)
(* offline scans and handlers, however calls overlap and fail.  What        *)
(* arrives too late is refused; a badge is admitted once per zone and an    *)
(* offline scan ingested once, but for the very zones and devices of which  *)
(* two calls were in flight at once.                                        *)
(***************************************************************************)
EXTENDS AccessControl, TLAPS

\* The rows have their types.
RowsTyped ==
  /\ badgeStatus \in [Badges -> {None, "ACTIVE", "REVOKED"}]
  /\ outOfDate \subseteq Badges
  /\ validRows \in [Badges -> [Places -> Nat]]
  /\ syncedRows \in [OfflineScans -> Nat]
  /\ exported \in [Devices -> SUBSET Badges]
  /\ scanned \in [OfflineScans -> (Devices \X Badges \X Zones) \cup {None}]
  /\ admitted \in [Badges -> [Places -> Nat]]
  /\ contended \subseteq Badges \X Places /\ resent \subseteq Devices

\* What a handler has at its place, and what has ended a scan that was late:
\* it still holds, until the test that finds it.
Sound(s) ==
  /\ s.pc \in {"detail", "count", "revokeWrite"} => s.badge \in Badges
  /\ s.pc = "log" /\ s.verdict = "VALID" => s.badge \in Badges /\ ~s.late
  /\ s.pc = "detail" /\ s.late => Ended(s.badge, s.place)
  /\ s.pc = "count" /\ s.late => validRows[s.badge][s.place] > 0
  /\ s.pc \in SyncPlaces => s.device \in Devices
  /\ s.pc \notin SyncPlaces => s.device = None
  /\ \A t \in s.todo : scanned[t] # None /\ scanned[t][1] = s.device
  /\ s.pc = "syncCreate" => s.scan \in s.todo

GateInv ==
  /\ RowsTyped
  /\ handler \in [Handlers -> HandlerStates]
  /\ \A p \in Handlers : Sound(handler[p])

\* Nothing takes back a revocation, an expiry, an entry or an offline scan.
Lasts ==
  /\ \A b \in Badges : badgeStatus[b] = "REVOKED" => badgeStatus'[b] = "REVOKED"
  /\ outOfDate \subseteq outOfDate'
  /\ \A b \in Badges, z \in Places : validRows[b][z] > 0 => validRows'[b][z] > 0
  /\ \A t \in OfflineScans : scanned[t] # None => scanned'[t] = scanned[t]

\* One row more for a badge and a place.
LEMMA Increment ==
  ASSUME NEW f \in [Badges -> [Places -> Nat]], NEW b \in Badges, NEW z \in Places,
         NEW g, g = [f EXCEPT ![b][z] = @ + 1]
  PROVE  /\ g \in [Badges -> [Places -> Nat]]
         /\ \A c \in Badges, y \in Places :
              g[c][y] = IF c = b /\ y = z THEN f[c][y] + 1 ELSE f[c][y]
<1>1. g = [f EXCEPT ![b] = [f[b] EXCEPT ![z] = f[b][z] + 1]]
  OBVIOUS
<1>2. [f[b] EXCEPT ![z] = f[b][z] + 1] \in [Places -> Nat]
  OBVIOUS
<1> QED
  BY <1>1, <1>2

LEMMA IdleSound == IdleHandler \in HandlerStates /\ Sound(IdleHandler) /\ Sound(IdleHandler)'
  BY DEF IdleHandler, HandlerStates, Sound, SyncPlaces, Places

\* A handler that does not move stays sound.
LEMMA OthersSound ==
  ASSUME GateInv, Lasts, NEW q \in Handlers, handler'[q] = handler[q]
  PROVE  Sound(handler[q])'
<1>1. handler[q] \in HandlerStates /\ Sound(handler[q])
  BY DEF GateInv
<1>2. \A t \in handler[q].todo : t \in OfflineScans
  BY <1>1 DEF HandlerStates
<1> QED
  BY <1>1, <1>2 DEF Sound, Lasts, Ended, HandlerStates

\* One handler moves to the state s.
LEMMA StepSound ==
  ASSUME GateInv, Lasts, RowsTyped', NEW p \in Handlers, NEW s \in HandlerStates, Become(p, s),
         handler'[p] = s => Sound(handler[p])'
  PROVE  GateInv'
<1>1. /\ handler' \in [Handlers -> HandlerStates] /\ handler'[p] = s
      /\ \A q \in Handlers \ {p} : handler'[q] = handler[q]
  BY DEF GateInv, Become
<1>2. ASSUME NEW q \in Handlers PROVE Sound(handler[q])'
  BY <1>1, <1>2, OthersSound
<1> QED
  BY <1>1, <1>2 DEF GateInv

\* A handler returns.
LEMMA ReturnSound ==
  ASSUME GateInv, Lasts, RowsTyped', NEW p \in Handlers, Return(p)
  PROVE  GateInv'
<1>1. handler'[p] = IdleHandler => Sound(handler[p])'
  BY DEF IdleHandler, Sound, SyncPlaces
<1> QED
  BY <1>1, IdleSound, StepSound DEF Return

LEMMA GateInit == Init => GateInv
<1> SUFFICES ASSUME Init PROVE GateInv
  OBVIOUS
<1>1. RowsTyped
  BY DEF Init, RowsTyped
<1> QED
  BY <1>1, IdleSound DEF Init, GateInv

\* Steps that only read, but for the history.
Looks == /\ UNCHANGED <<badgeStatus, outOfDate, validRows, syncedRows, exported, scanned,
                        admitted>>
         /\ contended' \subseteq Badges \X Places /\ resent' \subseteq Devices

LEMMA LooksKeep == ASSUME GateInv, Looks PROVE Lasts /\ RowsTyped'
  BY DEF GateInv, Looks, Lasts, RowsTyped

LEMMA GateEnvironment ==
  ASSUME GateInv,
         \/ \E b \in Badges : Issue(b) \/ ExpiryPasses(b)
         \/ \E d \in Devices :
              \/ Export(d)
              \/ \E s \in OfflineScans, b \in Badges, z \in Zones : OfflineScan(d, s, b, z)
  PROVE  GateInv'
<1>1. handler' = handler
  BY DEF Issue, ExpiryPasses, Export, OfflineScan
<1>2. Lasts /\ RowsTyped'
  <2>1. ASSUME NEW b \in Badges, Issue(b) PROVE Lasts /\ RowsTyped'
    BY <2>1, StatusAssumption DEF Issue, history, GateInv, RowsTyped, Lasts
  <2>2. ASSUME NEW b \in Badges, ExpiryPasses(b) PROVE Lasts /\ RowsTyped'
    BY <2>2 DEF ExpiryPasses, history, GateInv, RowsTyped, Lasts
  <2>3. ASSUME NEW d \in Devices, Export(d) PROVE Lasts /\ RowsTyped'
    BY <2>3 DEF Export, history, GateInv, RowsTyped, Lasts
  <2>4. ASSUME NEW d \in Devices, NEW s \in OfflineScans, NEW b \in Badges, NEW z \in Zones,
               OfflineScan(d, s, b, z)
        PROVE  Lasts /\ RowsTyped'
    BY <2>4 DEF OfflineScan, history, GateInv, RowsTyped, Lasts
  <2> QED
    BY <2>1, <2>2, <2>3, <2>4
<1> QED
  BY <1>1, <1>2, OthersSound DEF GateInv

LEMMA GateArrivals ==
  ASSUME GateInv, NEW p \in Handlers,
         \/ \E b \in Badges : RevokeRead(p, b) \/ \E z \in Places : ScanFind(p, b, z)
         \/ \E d \in Devices : SyncStart(p, d)
  PROVE  GateInv'
<1>1. Looks
  <2>0. contended \subseteq Badges \X Places /\ resent \subseteq Devices
    BY DEF GateInv, RowsTyped
  <2>1. ASSUME NEW b \in Badges, RevokeRead(p, b) PROVE Looks
    BY <2>0, <2>1 DEF RevokeRead, Looks, history
  <2>2. ASSUME NEW b \in Badges, NEW z \in Places, ScanFind(p, b, z) PROVE Looks
    <3>1. contended' \subseteq contended \cup {<<b, z>>}
      BY <2>2 DEF ScanFind
    <3>2. <<b, z>> \in Badges \X Places
      OBVIOUS
    <3>3. contended' \subseteq Badges \X Places
      BY <2>0, <3>1, <3>2
    <3>4. resent' = resent
      BY <2>2 DEF ScanFind
    <3> QED
      BY <2>0, <2>2, <3>3, <3>4 DEF ScanFind, Looks
  <2>3. ASSUME NEW d \in Devices, SyncStart(p, d) PROVE Looks
    <3>1. resent' \subseteq resent \cup {d}
      BY <2>3 DEF SyncStart
    <3> QED
      BY <2>0, <2>3, <3>1 DEF SyncStart, Looks
  <2> QED
    BY <2>1, <2>2, <2>3
<1>2. Lasts /\ RowsTyped'
  BY <1>1, LooksKeep
<1>3. ASSUME NEW b \in Badges, RevokeRead(p, b) PROVE GateInv'
  <2> DEFINE s == [IdleHandler EXCEPT !.pc = "revokeWrite", !.badge = b]
  <2>1. s \in HandlerStates /\ Sound(s)'
    BY DEF IdleHandler, HandlerStates, Sound, SyncPlaces, Places
  <2>2. handler'[p] = s => Sound(handler[p])'
    BY DEF IdleHandler, Sound, SyncPlaces
  <2> QED
    BY <1>2, <1>3, <2>1, <2>2, StepSound DEF RevokeRead
<1>4. ASSUME NEW b \in Badges, NEW z \in Places, ScanFind(p, b, z) PROVE GateInv'
  <2>1. CASE badgeStatus[b] = None
    <3> DEFINE s == [IdleHandler EXCEPT !.pc = "log", !.place = z, !.verdict = "INVALID"]
    <3>1. s \in HandlerStates
      BY DEF IdleHandler, HandlerStates, Places, ScanPlaces, ScanResults
    <3>2. handler'[p] = s => Sound(handler[p])'
      BY DEF IdleHandler, Sound, SyncPlaces
    <3> QED
      BY <1>2, <1>4, <2>1, <3>1, <3>2, StepSound DEF ScanFind
  <2>2. CASE badgeStatus[b] # None
    <3> DEFINE s == [IdleHandler EXCEPT !.pc = "detail", !.badge = b, !.place = z, !.late = Ended(b, z)]
    <3>0. Ended(b, z) \in BOOLEAN /\ (Ended(b, z) <=> Ended(b, z)')
      BY <1>1 DEF Ended, Looks
    <3>1. /\ s \in HandlerStates /\ s.pc = "detail" /\ s.badge = b /\ s.place = z
          /\ (s.late <=> Ended(b, z)) /\ s.device = None /\ s.todo = {}
      BY <3>0 DEF IdleHandler, HandlerStates, ScanPlaces
    <3>2. handler'[p] = s => Sound(handler[p])'
      BY <3>0, <3>1 DEF Sound, SyncPlaces
    <3> QED
      BY <1>2, <1>4, <2>2, <3>1, <3>2, StepSound DEF ScanFind
  <2> QED
    BY <2>1, <2>2
<1>5. ASSUME NEW d \in Devices, SyncStart(p, d) PROVE GateInv'
  <2> DEFINE s == [IdleHandler EXCEPT !.pc = "syncFind", !.device = d, !.todo = ScansOf(d)]
  <2>1. s \in HandlerStates
    BY DEF IdleHandler, HandlerStates, Places, SyncPlaces, ScansOf
  <2>2. handler'[p] = s => Sound(handler[p])'
    BY <1>1 DEF IdleHandler, Sound, SyncPlaces, ScansOf, Looks
  <2> QED
    BY <1>2, <1>5, <2>1, <2>2, StepSound DEF SyncStart
<1> QED
  BY <1>3, <1>4, <1>5

LEMMA GateContinues ==
  ASSUME GateInv, NEW p \in Handlers, Continues(p) \/ Abort(p)
  PROVE  GateInv'
<1>0. RowsTyped /\ handler[p] \in HandlerStates /\ Sound(handler[p])
  BY DEF GateInv
<1>1. CASE RevokeWrite(p)
  <2>1. Lasts /\ RowsTyped'
    BY <1>0, <1>1 DEF RevokeWrite, history, At, Sound, RowsTyped, Lasts
  <2> QED
    BY <1>1, <2>1, ReturnSound DEF RevokeWrite
<1>2. CASE ScanEvaluate(p)
  <2>1. Looks /\ Lasts /\ RowsTyped'
    BY <1>2, LooksKeep DEF ScanEvaluate, Looks, history, GateInv, RowsTyped
  <2> DEFINE verdict == Evaluate(handler[p].badge, handler[p].place)
             s == [handler[p] EXCEPT !.verdict = verdict,
                                     !.pc = IF verdict = "VALID" THEN "count" ELSE "log"]
  <2>2. verdict \in ScanResults
    BY DEF Evaluate, ScanResults
  <2>3. /\ s \in HandlerStates /\ s.verdict = verdict
        /\ s.pc = IF verdict = "VALID" THEN "count" ELSE "log"
        /\ s.badge = handler[p].badge /\ s.place = handler[p].place
        /\ s.late = handler[p].late /\ s.device = handler[p].device /\ s.todo = handler[p].todo
    BY <1>0, <2>2 DEF HandlerStates, ScanPlaces
  <2>4. verdict = "VALID" =>
          badgeStatus[handler[p].badge] # "REVOKED" /\ handler[p].badge \notin outOfDate
    BY DEF Evaluate
  <2>5. handler[p].pc = "detail" /\ Become(p, s)
    BY <1>2 DEF ScanEvaluate, At
  <2>6. handler'[p] = s => Sound(handler[p])'
    BY <1>0, <2>1, <2>3, <2>4, <2>5 DEF Sound, SyncPlaces, Ended, Looks
  <2> QED
    BY <2>1, <2>3, <2>5, <2>6, StepSound
<1>3. CASE ScanCount(p)
  <2>1. Looks /\ Lasts /\ RowsTyped'
    BY <1>3, LooksKeep DEF ScanCount, Looks, history, GateInv, RowsTyped
  <2> DEFINE verdict == IF AlreadyUsed(handler[p].badge, handler[p].place)
                        THEN "ALREADY_USED" ELSE "VALID"
             s == [handler[p] EXCEPT !.pc = "log", !.verdict = verdict]
  <2>3. /\ s \in HandlerStates /\ s.verdict = verdict /\ s.pc = "log"
        /\ s.badge = handler[p].badge /\ s.place = handler[p].place
        /\ s.late = handler[p].late /\ s.device = handler[p].device /\ s.todo = handler[p].todo
    BY <1>0 DEF HandlerStates, ScanPlaces, ScanResults
  <2>5. handler[p].pc = "count" /\ Become(p, s)
    BY <1>3 DEF ScanCount, At
  <2>6. handler'[p] = s => Sound(handler[p])'
    BY <1>0, <2>1, <2>3, <2>5 DEF Sound, SyncPlaces, AlreadyUsed, Looks
  <2> QED
    BY <2>1, <2>3, <2>5, <2>6, StepSound
<1>4. CASE ScanLog(p)
  <2>1. handler[p].verdict = "VALID" => handler[p].badge \in Badges /\ handler[p].place \in Places
    BY <1>0, <1>4 DEF ScanLog, At, Sound, HandlerStates
  <2>2. Lasts /\ RowsTyped'
    <3>1. CASE handler[p].verdict = "VALID"
      <4> DEFINE c == handler[p].badge
                 y == handler[p].place
      <4>1. c \in Badges /\ y \in Places
        BY <2>1, <3>1
      <4>2. /\ validRows' = [validRows EXCEPT ![c][y] = @ + 1]
            /\ \/ admitted' = [admitted EXCEPT ![c][y] = @ + 1]
               \/ admitted' = admitted
            /\ UNCHANGED <<badgeStatus, outOfDate, syncedRows, exported, scanned, history>>
        BY <1>4, <3>1 DEF ScanLog
      <4>3. /\ validRows' \in [Badges -> [Places -> Nat]]
            /\ \A b \in Badges, z \in Places : validRows[b][z] > 0 => validRows'[b][z] > 0
        <5> HIDE DEF c, y
        <5> QED
          BY <1>0, <4>1, <4>2, Increment DEF RowsTyped
      <4>4. admitted' \in [Badges -> [Places -> Nat]]
        <5> HIDE DEF c, y
        <5>1. CASE admitted' = [admitted EXCEPT ![c][y] = @ + 1]
          BY <1>0, <4>1, <5>1, Increment DEF RowsTyped
        <5>2. CASE admitted' = admitted
          BY <1>0, <5>2 DEF RowsTyped
        <5> QED
          BY <4>2, <5>1, <5>2
      <4> QED
        BY <1>0, <4>2, <4>3, <4>4 DEF history, RowsTyped, Lasts
    <3>2. CASE handler[p].verdict # "VALID"
      BY <1>0, <1>4, <3>2 DEF ScanLog, history, RowsTyped, Lasts
    <3> QED
      BY <3>1, <3>2
  <2> QED
    BY <1>4, <2>2, ReturnSound DEF ScanLog
<1>5. CASE SyncFind(p)
  <2>1. Looks /\ Lasts /\ RowsTyped'
    BY <1>5, LooksKeep DEF SyncFind, Looks, history, GateInv, RowsTyped
  <2>2. handler[p].pc = "syncFind"
    BY <1>5 DEF SyncFind, At
  <2>3. ASSUME NEW t \in handler[p].todo, SyncOn(p, handler[p].todo \ {t}) PROVE GateInv'
    <3>1. CASE Return(p)
      BY <2>1, <3>1, ReturnSound
    <3> DEFINE s == [handler[p] EXCEPT !.pc = "syncFind", !.todo = handler[p].todo \ {t}, !.scan = None]
    <3>2. CASE Become(p, s)
      <4>1. /\ s \in HandlerStates /\ s.pc = "syncFind" /\ s.todo \subseteq handler[p].todo
            /\ s.device = handler[p].device
        BY <1>0 DEF HandlerStates, SyncPlaces
      <4>2. handler'[p] = s => Sound(handler[p])'
        BY <1>0, <2>1, <2>2, <4>1 DEF Sound, SyncPlaces, Looks
      <4> QED
        BY <2>1, <3>2, <4>1, <4>2, StepSound
    <3> QED
      BY <2>3, <3>1, <3>2 DEF SyncOn
  <2>4. ASSUME NEW t \in handler[p].todo,
               Become(p, [handler[p] EXCEPT !.pc = "syncCreate", !.scan = t])
        PROVE  GateInv'
    <3> DEFINE s == [handler[p] EXCEPT !.pc = "syncCreate", !.scan = t]
    <3>1. /\ s \in HandlerStates /\ s.pc = "syncCreate" /\ s.todo = handler[p].todo
          /\ s.device = handler[p].device /\ s.scan = t
      BY <1>0 DEF HandlerStates, SyncPlaces
    <3>2. handler'[p] = s => Sound(handler[p])'
      BY <1>0, <2>1, <2>2, <3>1 DEF Sound, SyncPlaces, Looks
    <3> QED
      BY <2>1, <2>4, <3>1, <3>2, StepSound
  <2> QED
    BY <1>5, <2>3, <2>4 DEF SyncFind
<1>6. CASE SyncCreate(p)
  <2> DEFINE t == handler[p].scan
  <2>1. /\ handler[p].pc = "syncCreate" /\ t \in handler[p].todo /\ t \in OfflineScans
        /\ scanned[t] # None
    BY <1>0, <1>6 DEF SyncCreate, At, Sound, HandlerStates
  <2>2. scanned[t][2] \in Badges /\ scanned[t][3] \in Places
    BY <1>0, <2>1 DEF RowsTyped, Places
  <2>3. /\ syncedRows' = [syncedRows EXCEPT ![t] = @ + 1]
        /\ validRows' = [validRows EXCEPT ![scanned[t][2]][scanned[t][3]] = @ + 1]
        /\ SyncOn(p, handler[p].todo \ {t})
        /\ UNCHANGED <<badgeStatus, outOfDate, exported, scanned, history, admitted>>
    BY <1>6 DEF SyncCreate
  <2>4. Lasts /\ RowsTyped'
    <3>1. /\ validRows' \in [Badges -> [Places -> Nat]]
          /\ \A b \in Badges, z \in Places : validRows[b][z] > 0 => validRows'[b][z] > 0
      <4> DEFINE c == scanned[t][2]
                 y == scanned[t][3]
      <4>1. c \in Badges /\ y \in Places /\ validRows' = [validRows EXCEPT ![c][y] = @ + 1]
        BY <2>2, <2>3
      <4>2. validRows \in [Badges -> [Places -> Nat]]
        BY <1>0 DEF RowsTyped
      <4> HIDE DEF c, y
      <4> QED
        BY <4>1, <4>2, Increment
    <3>2. syncedRows' \in [OfflineScans -> Nat]
      BY <1>0, <2>1, <2>3 DEF RowsTyped
    <3> QED
      BY <1>0, <2>3, <3>1, <3>2 DEF history, RowsTyped, Lasts
  <2>5. CASE Return(p)
    BY <2>4, <2>5, ReturnSound
  <2> DEFINE s == [handler[p] EXCEPT !.pc = "syncFind", !.todo = handler[p].todo \ {t}, !.scan = None]
  <2>6. CASE Become(p, s)
    <3>1. /\ s \in HandlerStates /\ s.pc = "syncFind" /\ s.todo \subseteq handler[p].todo
          /\ s.device = handler[p].device
      BY <1>0 DEF HandlerStates, SyncPlaces
    <3>2. handler'[p] = s => Sound(handler[p])'
      BY <1>0, <2>1, <2>3, <3>1 DEF Sound, SyncPlaces
    <3> QED
      BY <2>4, <2>6, <3>1, <3>2, StepSound
  <2> QED
    BY <2>3, <2>5, <2>6 DEF SyncOn
<1>7. CASE Abort(p)
  <2>1. Looks
    BY <1>7 DEF Abort, Looks, history, GateInv, RowsTyped
  <2> QED
    BY <1>7, <2>1, LooksKeep, ReturnSound DEF Abort
<1> QED
  BY <1>1, <1>2, <1>3, <1>4, <1>5, <1>6, <1>7 DEF Continues

LEMMA GateStep == GateInv /\ [Next]_accessVars => GateInv'
<1> SUFFICES ASSUME GateInv, [Next]_accessVars PROVE GateInv'
  OBVIOUS
<1>1. CASE UNCHANGED accessVars
  BY <1>1 DEF accessVars, history, GateInv, RowsTyped, Sound, Ended
<1>2. CASE Next
  BY <1>2, GateEnvironment, GateArrivals, GateContinues DEF Next
<1> QED
  BY <1>1, <1>2

LEMMA GateAlways == Spec => []GateInv
  BY GateInit, GateStep, PTL DEF Spec

\* The variables of AccessControl always have their types, and a scan that goes
\* on has found its badge.
THEOREM AccessTyped == Spec => []TypeOK
<1>1. GateInv => TypeOK
  <2> SUFFICES ASSUME GateInv PROVE TypeOK
    OBVIOUS
  <2>1. None \notin Badges
    BY PlacesAssumption
  <2> QED
    BY <2>1 DEF GateInv, TypeOK, RowsTyped, Sound
<1> QED
  BY <1>1, GateAlways, PTL

\* A scan that arrives after the revocation, the expiry or a recorded entry is
\* never answered VALID, however calls overlap.
THEOREM LateRefused == Spec => []NoLateAdmission
<1>1. GateInv => NoLateAdmission
  BY DEF GateInv, NoLateAdmission, Sound, At
<1> QED
  BY <1>1, GateAlways, PTL

-----------------------------------------------------------------------------
(* Nobody is admitted without a row: the count of rows bounds admissions.  *)

Logged == \A b \in Badges, z \in Places : admitted[b][z] <= validRows[b][z]

LEMMA LoggedStep ==
  ASSUME GateInv, GateInv', Logged, [Next]_accessVars
  PROVE  Logged'
<1>0. validRows \in [Badges -> [Places -> Nat]] /\ admitted \in [Badges -> [Places -> Nat]]
  BY DEF GateInv, RowsTyped
<1>1. ASSUME UNCHANGED <<admitted, validRows>> PROVE Logged'
  BY <1>1 DEF Logged
<1>2. ASSUME NEW p \in Handlers, ScanLog(p) PROVE Logged'
  <2> DEFINE c == handler[p].badge
             y == handler[p].place
  <2>1. CASE handler[p].verdict = "VALID"
    <3>1. c \in Badges /\ y \in Places
      BY <1>2, <2>1 DEF ScanLog, At, GateInv, Sound, HandlerStates
    <3>2. /\ validRows' = [validRows EXCEPT ![c][y] = @ + 1]
          /\ \/ admitted' = [admitted EXCEPT ![c][y] = @ + 1]
             \/ admitted' = admitted
      BY <1>2, <2>1 DEF ScanLog
    <3> HIDE DEF c, y
    <3>3. \A b \in Badges, z \in Places :
            validRows'[b][z] = IF b = c /\ z = y THEN validRows[b][z] + 1 ELSE validRows[b][z]
      BY <1>0, <3>1, <3>2, Increment
    <3>4. CASE admitted' = [admitted EXCEPT ![c][y] = @ + 1]
      <4>1. \A b \in Badges, z \in Places :
              admitted'[b][z] = IF b = c /\ z = y THEN admitted[b][z] + 1 ELSE admitted[b][z]
        BY <1>0, <3>1, <3>4, Increment
      <4> QED
        BY <1>0, <3>3, <4>1 DEF Logged
    <3>5. CASE admitted' = admitted
      BY <1>0, <3>3, <3>5 DEF Logged
    <3> QED
      BY <3>2, <3>4, <3>5
  <2>2. CASE handler[p].verdict # "VALID"
    BY <1>1, <1>2, <2>2 DEF ScanLog
  <2> QED
    BY <2>1, <2>2
<1>3. ASSUME NEW p \in Handlers, SyncCreate(p) PROVE Logged'
  <2> DEFINE t == handler[p].scan
             c == scanned[t][2]
             y == scanned[t][3]
  <2>1. c \in Badges /\ y \in Places
    <3>1. t \in OfflineScans /\ scanned[t] # None
      BY <1>3 DEF SyncCreate, At, GateInv, Sound, HandlerStates
    <3>2. scanned[t] \in Devices \X Badges \X Zones
      BY <3>1 DEF GateInv, RowsTyped
    <3> QED
      BY <3>2 DEF Places
  <2>2. validRows' = [validRows EXCEPT ![c][y] = @ + 1] /\ admitted' = admitted
    BY <1>3 DEF SyncCreate
  <2> HIDE DEF c, y
  <2>3. \A b \in Badges, z \in Places :
          validRows'[b][z] = IF b = c /\ z = y THEN validRows[b][z] + 1 ELSE validRows[b][z]
    BY <1>0, <2>1, <2>2, Increment
  <2> QED
    BY <1>0, <2>2, <2>3 DEF Logged
<1>4. CASE UNCHANGED accessVars
  BY <1>1, <1>4 DEF accessVars
<1>5. CASE Next
  BY <1>1, <1>2, <1>3, <1>5 DEF Next, Continues, Issue, ExpiryPasses, RevokeRead, RevokeWrite,
     ScanFind, ScanEvaluate, ScanCount, SyncStart, SyncFind, Abort, Export, OfflineScan
<1> QED
  BY <1>4, <1>5

LEMMA LoggedAlways == Spec => []Logged
<1>1. Init => Logged
  BY DEF Init, Logged
<1> QED
  BY <1>1, LoggedStep, GateAlways, PTL DEF Spec

-----------------------------------------------------------------------------
(* An offline scan is ingested once.                                       *)

InSync(s) == s.pc \in SyncPlaces

SyncInv ==
  /\ \A p, q \in Handlers :
       /\ p # q /\ InSync(handler[p]) /\ InSync(handler[q])
       /\ handler[p].device \notin resent
       => handler[p].device # handler[q].device
  /\ \A p \in Handlers :
       At(p, "syncCreate") /\ handler[p].device \notin resent => syncedRows[handler[p].scan] = 0
  /\ SyncOnce
  /\ \A t \in OfflineScans : scanned[t] = None => syncedRows[t] = 0

\* One handler moves and no row is written.
LEMMA SyncMoves ==
  ASSUME GateInv, SyncInv, NEW p \in Handlers, NEW s, Become(p, s),
         UNCHANGED <<syncedRows, scanned>>, resent \subseteq resent',
         InSync(s) /\ s.device \notin resent' =>
           \/ InSync(handler[p]) /\ s.device = handler[p].device
           \/ ~Syncing(s.device),
         s.pc = "syncCreate" /\ s.device \notin resent' => syncedRows[s.scan] = 0
  PROVE  SyncInv'
<1>1. handler'[p] = s /\ \A q \in Handlers \ {p} : handler'[q] = handler[q]
  BY DEF GateInv, Become
<1>2. ASSUME NEW q \in Handlers \ {p}, InSync(s), InSync(handler[q]), s.device \notin resent'
      PROVE  s.device # handler[q].device
  BY <1>2 DEF SyncInv, Syncing
<1>3. ASSUME NEW q \in Handlers, NEW o \in Handlers, q # o,
             InSync(handler'[q]), InSync(handler'[o]), handler'[q].device \notin resent'
      PROVE  handler'[q].device # handler'[o].device
  BY <1>1, <1>2, <1>3 DEF SyncInv
<1>4. ASSUME NEW q \in Handlers, handler'[q].pc = "syncCreate", handler'[q].device \notin resent'
      PROVE  syncedRows'[handler'[q].scan] = 0
  BY <1>1, <1>4 DEF SyncInv, At
<1>5. SyncOnce' /\ \A t \in OfflineScans : scanned'[t] = None => syncedRows'[t] = 0
  BY DEF SyncInv, SyncOnce
<1> QED
  BY <1>3, <1>4, <1>5 DEF SyncInv, At, InSync

LEMMA SyncStep ==
  ASSUME GateInv, SyncInv, [Next]_accessVars
  PROVE  SyncInv'
<1>0. resent \subseteq resent'
  BY DEF Next, Continues, accessVars, history, Issue, ExpiryPasses, RevokeRead, RevokeWrite,
     ScanFind, ScanEvaluate, ScanCount, ScanLog, SyncStart, SyncFind, SyncCreate, Abort,
     Export, OfflineScan
<1>1. ASSUME UNCHANGED <<handler, syncedRows, scanned>> PROVE SyncInv'
  BY <1>0, <1>1 DEF SyncInv, SyncOnce, At, InSync
<1>2. ASSUME NEW p \in Handlers, NEW s, Become(p, s), UNCHANGED <<syncedRows, scanned>>, ~InSync(s)
      PROVE  SyncInv'
  BY <1>0, <1>2, SyncMoves DEF InSync, SyncPlaces
<1>3. ~InSync(IdleHandler)
  BY DEF IdleHandler, InSync, SyncPlaces
<1>4. ASSUME NEW p \in Handlers, NEW b \in Badges, RevokeRead(p, b) PROVE SyncInv'
  BY <1>2, <1>4 DEF RevokeRead, IdleHandler, InSync, SyncPlaces
<1>5. ASSUME NEW p \in Handlers, NEW b \in Badges, NEW z \in Places, ScanFind(p, b, z)
      PROVE  SyncInv'
  BY <1>2, <1>5 DEF ScanFind, IdleHandler, InSync, SyncPlaces
<1>6. ASSUME NEW p \in Handlers, NEW d \in Devices, SyncStart(p, d) PROVE SyncInv'
  <2> DEFINE s == [IdleHandler EXCEPT !.pc = "syncFind", !.device = d, !.todo = ScansOf(d)]
  <2>1. s.pc = "syncFind" /\ s.device = d
    BY DEF IdleHandler
  <2>2. Become(p, s) /\ UNCHANGED <<syncedRows, scanned>>
    BY <1>6 DEF SyncStart
  <2>3. d \notin resent' => ~Syncing(d)
    BY <1>6 DEF SyncStart
  <2> QED
    BY <1>0, <2>1, <2>2, <2>3, SyncMoves
<1>7. ASSUME NEW p \in Handlers, RevokeWrite(p) \/ ScanLog(p) \/ Abort(p) PROVE SyncInv'
  BY <1>2, <1>3, <1>7 DEF RevokeWrite, ScanLog, Abort, Return
<1>8. ASSUME NEW p \in Handlers, ScanEvaluate(p) \/ ScanCount(p) PROVE SyncInv'
  <2>1. PICK s : Become(p, s) /\ s.pc \in {"count", "log"} /\ UNCHANGED <<syncedRows, scanned>>
    BY <1>8 DEF ScanEvaluate, ScanCount, GateInv, HandlerStates
  <2> QED
    BY <1>2, <2>1 DEF InSync, SyncPlaces
<1>9. ASSUME NEW p \in Handlers, SyncFind(p) PROVE SyncInv'
  <2>1. /\ InSync(handler[p]) /\ UNCHANGED <<syncedRows, scanned>>
        /\ handler[p] \in HandlerStates
    BY <1>9 DEF SyncFind, At, InSync, SyncPlaces, GateInv
  <2>2. PICK t : /\ t \in handler[p].todo
                 /\ IF syncedRows[t] > 0 THEN SyncOn(p, handler[p].todo \ {t})
                    ELSE Become(p, [handler[p] EXCEPT !.pc = "syncCreate", !.scan = t])
    BY <1>9 DEF SyncFind
  <2>3. CASE Return(p)
    BY <1>2, <1>3, <2>1, <2>3 DEF Return
  <2> DEFINE s == [handler[p] EXCEPT !.pc = "syncFind", !.todo = handler[p].todo \ {t}, !.scan = None]
             u == [handler[p] EXCEPT !.pc = "syncCreate", !.scan = t]
  <2>4. /\ s.pc = "syncFind" /\ s.device = handler[p].device
        /\ u.pc = "syncCreate" /\ u.device = handler[p].device /\ u.scan = t
    BY <2>1 DEF HandlerStates
  <2>5. CASE Become(p, s)
    BY <1>0, <2>1, <2>4, <2>5, SyncMoves
  <2>6. CASE ~(syncedRows[t] > 0) /\ Become(p, u)
    <3>1. syncedRows[t] = 0
      BY <2>1, <2>2, <2>6 DEF GateInv, RowsTyped, HandlerStates
    <3> QED
      BY <1>0, <2>1, <2>4, <2>6, <3>1, SyncMoves
  <2> QED
    BY <2>2, <2>3, <2>5, <2>6 DEF SyncOn
<1>10. ASSUME NEW p \in Handlers, SyncCreate(p) PROVE SyncInv'
  <2> DEFINE t == handler[p].scan
  <2>1. /\ handler[p].pc = "syncCreate" /\ handler[p] \in HandlerStates /\ t \in OfflineScans
        /\ InSync(handler[p]) /\ scanned[t][1] = handler[p].device
    BY <1>10 DEF SyncCreate, At, GateInv, Sound, HandlerStates, InSync, SyncPlaces
  <2>2. /\ syncedRows' = [syncedRows EXCEPT ![t] = @ + 1]
        /\ SyncOn(p, handler[p].todo \ {t})
        /\ UNCHANGED <<scanned, resent>>
    BY <1>10 DEF SyncCreate, history
  <2>3. /\ \A q \in Handlers \ {p} : handler'[q] = handler[q]
        /\ handler'[p].pc \in {"idle", "syncFind"}
        /\ InSync(handler'[p]) => handler'[p].device = handler[p].device
    <3> DEFINE s == [handler[p] EXCEPT !.pc = "syncFind", !.todo = handler[p].todo \ {t}, !.scan = None]
    <3>1. s.pc = "syncFind" /\ s.device = handler[p].device
      BY <2>1 DEF HandlerStates
    <3>2. IdleHandler.pc = "idle" /\ ~InSync(IdleHandler)
      BY DEF IdleHandler, InSync, SyncPlaces
    <3>3. Become(p, s) \/ Become(p, IdleHandler)
      BY <2>2 DEF SyncOn, Return
    <3> HIDE DEF s
    <3> QED
      BY <3>1, <3>2, <3>3 DEF Become, GateInv
  <2>4. /\ \A u \in OfflineScans \ {t} : syncedRows'[u] = syncedRows[u]
        /\ handler[p].device \notin resent => syncedRows'[t] = 1
        /\ scanned[t] # None
    BY <2>1, <2>2 DEF SyncInv, At, GateInv, RowsTyped, Sound
  <2>5. ASSUME NEW q \in Handlers, handler'[q].pc = "syncCreate", handler'[q].device \notin resent
        PROVE  syncedRows'[handler'[q].scan] = 0
    <3>1. q # p /\ handler'[q] = handler[q] /\ handler[q].pc = "syncCreate"
      BY <2>3, <2>5
    <3>2. handler[q].scan \in OfflineScans /\ scanned[handler[q].scan][1] = handler[q].device
      BY <3>1 DEF GateInv, Sound, HandlerStates
    <3>3. handler[q].scan # t
      BY <2>1, <2>5, <3>1, <3>2 DEF SyncInv, InSync, SyncPlaces
    <3> QED
      BY <2>4, <2>5, <3>1, <3>2, <3>3 DEF SyncInv, At
  <2>6. ASSUME NEW q \in Handlers, NEW o \in Handlers, q # o,
               InSync(handler'[q]), InSync(handler'[o]), handler'[q].device \notin resent
        PROVE  handler'[q].device # handler'[o].device
    BY <2>1, <2>3, <2>6 DEF SyncInv
  <2>7. SyncOnce'
    BY <2>1, <2>2, <2>4 DEF SyncInv, SyncOnce
  <2>8. \A u \in OfflineScans : scanned'[u] = None => syncedRows'[u] = 0
    BY <2>2, <2>4 DEF SyncInv
  <2> QED
    BY <2>2, <2>5, <2>6, <2>7, <2>8 DEF SyncInv, At, InSync
<1>11. CASE UNCHANGED accessVars
  BY <1>1, <1>11 DEF accessVars
<1>12. CASE \/ \E b \in Badges : Issue(b) \/ ExpiryPasses(b)
            \/ \E d \in Devices : Export(d)
  BY <1>1, <1>12 DEF Issue, ExpiryPasses, Export
<1>14. ASSUME NEW d \in Devices, NEW s \in OfflineScans, NEW b \in Badges, NEW z \in Zones,
              OfflineScan(d, s, b, z)
       PROVE  SyncInv'
  <2>1. /\ \A u \in OfflineScans \ {s} : scanned'[u] = scanned[u]
        /\ scanned[s] = None
        /\ UNCHANGED <<handler, syncedRows, resent>>
    BY <1>14 DEF OfflineScan, history, GateInv, RowsTyped
  <2>3. syncedRows[s] = 0
    BY <2>1 DEF SyncInv
  <2>4. SyncOnce'
    BY <2>1, <2>3 DEF SyncInv, SyncOnce
  <2>5. \A u \in OfflineScans : scanned'[u] = None => syncedRows'[u] = 0
    BY <2>1, <2>3 DEF SyncInv
  <2> QED
    BY <2>1, <2>4, <2>5 DEF SyncInv, At, InSync
<1>13. CASE Next
  BY <1>4, <1>5, <1>6, <1>7, <1>8, <1>9, <1>10, <1>12, <1>13, <1>14
  DEF Next, Continues
<1> QED
  BY <1>11, <1>13

LEMMA SyncInit == Init => SyncInv
  BY DEF Init, SyncInv, SyncOnce, InSync, IdleHandler, At, SyncPlaces

\* A scan made offline has at most one row, however often its batch is sent
\* again and whatever fails or overlaps, unless two synchronisations of its own
\* device were in flight at once.
THEOREM SyncedOnce == Spec => []SyncOnce
<1>1. SyncInv => SyncOnce
  BY DEF SyncInv
<1>2. GateInv /\ SyncInv /\ [Next]_accessVars => SyncInv'
  BY SyncStep
<1> QED
  BY <1>1, <1>2, SyncInit, GateAlways, PTL DEF Spec

-----------------------------------------------------------------------------
(* Where each step takes its handler.                                      *)

MovesTo(p, places) ==
  handler'[p].pc \in places /\ \A q \in Handlers \ {p} : handler'[q] = handler[q]

LEMMA NextPlace ==
  ASSUME GateInv, NEW p \in Handlers
  PROVE  /\ \A b \in Badges : RevokeRead(p, b) => MovesTo(p, {"revokeWrite"})
         /\ \A b \in Badges, z \in Places : ScanFind(p, b, z) => MovesTo(p, ScanPlaces)
         /\ \A d \in Devices : SyncStart(p, d) => MovesTo(p, SyncPlaces)
         /\ RevokeWrite(p) \/ ScanLog(p) \/ Abort(p) => MovesTo(p, {"idle"})
         /\ ScanEvaluate(p) \/ ScanCount(p) => MovesTo(p, ScanPlaces)
         /\ SyncFind(p) \/ SyncCreate(p) => MovesTo(p, {"idle"} \cup SyncPlaces)
<1>0. handler \in [Handlers -> HandlerStates] /\ handler[p] \in HandlerStates
  BY DEF GateInv
<1>1. ASSUME NEW s, NEW places, s.pc \in places, Become(p, s) PROVE MovesTo(p, places)
  BY <1>0, <1>1 DEF Become, MovesTo
<1>2. IdleHandler.pc = "idle"
  BY DEF IdleHandler
<1>3. Return(p) => MovesTo(p, {"idle"})
  BY <1>1, <1>2 DEF Return
<1>4. ASSUME NEW b \in Badges, RevokeRead(p, b) PROVE MovesTo(p, {"revokeWrite"})
  <2> DEFINE s == [IdleHandler EXCEPT !.pc = "revokeWrite", !.badge = b]
  <2>1. s.pc = "revokeWrite" /\ Become(p, s)
    BY <1>4 DEF RevokeRead, IdleHandler
  <2> QED
    BY <1>1, <2>1
<1>5. ASSUME NEW b \in Badges, NEW z \in Places, ScanFind(p, b, z) PROVE MovesTo(p, ScanPlaces)
  <2> DEFINE s == [IdleHandler EXCEPT !.pc = "log", !.place = z, !.verdict = "INVALID"]
             u == [IdleHandler EXCEPT !.pc = "detail", !.badge = b, !.place = z, !.late = Ended(b, z)]
  <2>1. s.pc \in ScanPlaces /\ u.pc \in ScanPlaces
    BY DEF IdleHandler, ScanPlaces
  <2>2. Become(p, s) \/ Become(p, u)
    BY <1>5 DEF ScanFind
  <2> QED
    BY <1>1, <2>1, <2>2
<1>6. ASSUME NEW d \in Devices, SyncStart(p, d) PROVE MovesTo(p, SyncPlaces)
  <2> DEFINE s == [IdleHandler EXCEPT !.pc = "syncFind", !.device = d, !.todo = ScansOf(d)]
  <2>1. s.pc \in SyncPlaces /\ Become(p, s)
    BY <1>6 DEF SyncStart, IdleHandler, SyncPlaces
  <2> QED
    BY <1>1, <2>1
<1>7. ASSUME ScanEvaluate(p) PROVE MovesTo(p, ScanPlaces)
  <2> DEFINE verdict == Evaluate(handler[p].badge, handler[p].place)
             s == [handler[p] EXCEPT !.verdict = verdict,
                                     !.pc = IF verdict = "VALID" THEN "count" ELSE "log"]
  <2>1. s.pc \in ScanPlaces /\ Become(p, s)
    BY <1>0, <1>7 DEF ScanEvaluate, HandlerStates, ScanPlaces
  <2> QED
    BY <1>1, <2>1
<1>8. ASSUME ScanCount(p) PROVE MovesTo(p, ScanPlaces)
  <2> DEFINE s == [handler[p] EXCEPT !.pc = "log",
                     !.verdict = IF AlreadyUsed(handler[p].badge, handler[p].place)
                                 THEN "ALREADY_USED" ELSE "VALID"]
  <2>1. s.pc \in ScanPlaces /\ Become(p, s)
    BY <1>0, <1>8 DEF ScanCount, HandlerStates, ScanPlaces
  <2> QED
    BY <1>1, <2>1
<1>9. ASSUME NEW left, SyncOn(p, left) PROVE MovesTo(p, {"idle"} \cup SyncPlaces)
  <2> DEFINE s == [handler[p] EXCEPT !.pc = "syncFind", !.todo = left, !.scan = None]
  <2>1. s.pc \in {"idle"} \cup SyncPlaces /\ IdleHandler.pc \in {"idle"} \cup SyncPlaces
    BY <1>0, <1>2 DEF HandlerStates, SyncPlaces
  <2>2. Become(p, s) \/ Become(p, IdleHandler)
    BY <1>9 DEF SyncOn, Return
  <2> QED
    BY <1>1, <2>1, <2>2
<1>10. ASSUME SyncFind(p) PROVE MovesTo(p, {"idle"} \cup SyncPlaces)
  <2>1. PICK t \in handler[p].todo :
          \/ SyncOn(p, handler[p].todo \ {t})
          \/ Become(p, [handler[p] EXCEPT !.pc = "syncCreate", !.scan = t])
    BY <1>10 DEF SyncFind
  <2> DEFINE s == [handler[p] EXCEPT !.pc = "syncCreate", !.scan = t]
  <2>2. s.pc \in {"idle"} \cup SyncPlaces
    BY <1>0 DEF HandlerStates, SyncPlaces
  <2> QED
    BY <1>1, <1>9, <2>1, <2>2
<1>11. ASSUME SyncCreate(p) PROVE MovesTo(p, {"idle"} \cup SyncPlaces)
  BY <1>9, <1>11 DEF SyncCreate
<1> QED
  BY <1>3, <1>4, <1>5, <1>6, <1>7, <1>8, <1>10, <1>11 DEF RevokeWrite, ScanLog, Abort

-----------------------------------------------------------------------------
(* A badge is admitted once per place.                                     *)

InScan(s) == s.pc \in ScanPlaces /\ s.badge \in Badges

AdmitInv ==
  /\ \A p, q \in Handlers :
       /\ p # q /\ InScan(handler[p]) /\ InScan(handler[q])
       /\ <<handler[p].badge, handler[p].place>> \notin contended
       => handler[p].badge # handler[q].badge \/ handler[p].place # handler[q].place
  /\ \A p \in Handlers :
       /\ At(p, "log") /\ handler[p].verdict = "VALID"
       /\ <<handler[p].badge, handler[p].place>> \notin contended
       => admitted[handler[p].badge][handler[p].place] = 0
  /\ OneAdmission

\* One handler moves and nobody is admitted.
LEMMA AdmitMoves ==
  ASSUME GateInv, AdmitInv, NEW p \in Handlers, NEW s, Become(p, s), UNCHANGED admitted,
         contended \subseteq contended',
         InScan(s) /\ <<s.badge, s.place>> \notin contended' =>
           \/ InScan(handler[p]) /\ s.badge = handler[p].badge /\ s.place = handler[p].place
           \/ ~Scanning(s.badge, s.place),
         /\ s.pc = "log" /\ s.verdict = "VALID"
         /\ <<s.badge, s.place>> \notin contended'
         => admitted[s.badge][s.place] = 0
  PROVE  AdmitInv'
<1>1. handler'[p] = s /\ \A q \in Handlers \ {p} : handler'[q] = handler[q]
  BY DEF GateInv, Become
<1>2. ASSUME NEW q \in Handlers \ {p}, InScan(s), InScan(handler[q]),
             <<s.badge, s.place>> \notin contended'
      PROVE  s.badge # handler[q].badge \/ s.place # handler[q].place
  BY <1>2 DEF AdmitInv, Scanning, InScan
<1>3. ASSUME NEW q \in Handlers, NEW o \in Handlers, q # o,
             InScan(handler'[q]), InScan(handler'[o]),
             <<handler'[q].badge, handler'[q].place>> \notin contended'
      PROVE  handler'[q].badge # handler'[o].badge \/ handler'[q].place # handler'[o].place
  BY <1>1, <1>2, <1>3 DEF AdmitInv
<1>4. ASSUME NEW q \in Handlers, handler'[q].pc = "log", handler'[q].verdict = "VALID",
             <<handler'[q].badge, handler'[q].place>> \notin contended'
      PROVE  admitted'[handler'[q].badge][handler'[q].place] = 0
  BY <1>1, <1>4 DEF AdmitInv, At
<1>5. OneAdmission'
  BY DEF AdmitInv, OneAdmission
<1> QED
  BY <1>3, <1>4, <1>5 DEF AdmitInv, At, InScan

LEMMA AdmitStep ==
  ASSUME GateInv, Logged, AdmitInv, [Next]_accessVars
  PROVE  AdmitInv'
<1>0. RowsTyped /\ handler \in [Handlers -> HandlerStates]
  BY DEF GateInv
<1>a. contended \subseteq contended'
  BY DEF Next, Continues, accessVars, history, Issue, ExpiryPasses, RevokeRead, RevokeWrite,
     ScanFind, ScanEvaluate, ScanCount, ScanLog, SyncStart, SyncFind, SyncCreate, Abort,
     Export, OfflineScan
<1>1. ASSUME UNCHANGED <<handler, admitted>> PROVE AdmitInv'
  BY <1>a, <1>1 DEF AdmitInv, OneAdmission, At, InScan
<1>2. ASSUME NEW p \in Handlers, NEW places, MovesTo(p, places), places \cap ScanPlaces = {},
             UNCHANGED admitted
      PROVE  AdmitInv'
  BY <1>a, <1>2 DEF AdmitInv, OneAdmission, At, InScan, ScanPlaces, MovesTo
<1>3. ASSUME NEW p \in Handlers, NEW b \in Badges, RevokeRead(p, b) PROVE AdmitInv'
  BY <1>2, <1>3, NextPlace DEF RevokeRead, ScanPlaces
<1>4. ASSUME NEW p \in Handlers, RevokeWrite(p) \/ Abort(p) PROVE AdmitInv'
  BY <1>2, <1>4, NextPlace DEF RevokeWrite, Abort, ScanPlaces
<1>5. ASSUME NEW p \in Handlers, NEW d \in Devices, SyncStart(p, d) PROVE AdmitInv'
  BY <1>2, <1>5, NextPlace DEF SyncStart, SyncPlaces, ScanPlaces
<1>6. ASSUME NEW p \in Handlers, SyncFind(p) \/ SyncCreate(p) PROVE AdmitInv'
  BY <1>2, <1>6, NextPlace DEF SyncFind, SyncCreate, SyncPlaces, ScanPlaces
<1>7. ASSUME NEW p \in Handlers, NEW b \in Badges, NEW z \in Places, ScanFind(p, b, z)
      PROVE  AdmitInv'
  <2>1. UNCHANGED admitted /\ (<<b, z>> \notin contended' => ~Scanning(b, z))
    BY <1>7 DEF ScanFind
  <2>2. None \notin Badges
    BY PlacesAssumption
  <2>3. CASE badgeStatus[b] = None
    <3> DEFINE s == [IdleHandler EXCEPT !.pc = "log", !.place = z, !.verdict = "INVALID"]
    <3>1. s.badge = None /\ s.verdict = "INVALID"
      BY DEF IdleHandler
    <3>2. Become(p, s)
      BY <1>7, <2>3 DEF ScanFind
    <3> QED
      BY <1>a, <2>1, <2>2, <3>1, <3>2, AdmitMoves DEF InScan
  <2>4. CASE badgeStatus[b] # None
    <3> DEFINE s == [IdleHandler EXCEPT !.pc = "detail", !.badge = b, !.place = z, !.late = Ended(b, z)]
    <3>1. s.badge = b /\ s.place = z /\ s.pc = "detail"
      BY DEF IdleHandler
    <3>2. Become(p, s)
      BY <1>7, <2>4 DEF ScanFind
    <3> QED
      BY <1>a, <2>1, <3>1, <3>2, AdmitMoves
  <2> QED
    BY <2>3, <2>4
<1>8. ASSUME NEW p \in Handlers, ScanEvaluate(p) PROVE AdmitInv'
  <2> DEFINE verdict == Evaluate(handler[p].badge, handler[p].place)
             s == [handler[p] EXCEPT !.verdict = verdict,
                                     !.pc = IF verdict = "VALID" THEN "count" ELSE "log"]
  <2>1. /\ s.badge = handler[p].badge /\ s.place = handler[p].place /\ s.verdict = verdict
        /\ s.pc = IF verdict = "VALID" THEN "count" ELSE "log"
    BY <1>0 DEF HandlerStates
  <2>2. Become(p, s) /\ UNCHANGED admitted /\ InScan(handler[p])
    BY <1>8 DEF ScanEvaluate, At, GateInv, Sound, InScan, ScanPlaces
  <2>3. ~(s.pc = "log" /\ s.verdict = "VALID")
    BY <2>1
  <2> HIDE DEF s, verdict
  <2> QED
    BY <1>a, <2>1, <2>2, <2>3, AdmitMoves
<1>9. ASSUME NEW p \in Handlers, ScanCount(p) PROVE AdmitInv'
  <2> DEFINE verdict == IF AlreadyUsed(handler[p].badge, handler[p].place)
                        THEN "ALREADY_USED" ELSE "VALID"
             s == [handler[p] EXCEPT !.pc = "log", !.verdict = verdict]
  <2>1. /\ s.badge = handler[p].badge /\ s.place = handler[p].place /\ s.verdict = verdict
    BY <1>0 DEF HandlerStates
  <2>2. /\ Become(p, s) /\ UNCHANGED admitted /\ InScan(handler[p])
        /\ handler[p].badge \in Badges /\ handler[p].place \in Places
    BY <1>0, <1>9 DEF ScanCount, At, GateInv, Sound, InScan, ScanPlaces, HandlerStates
  <2>3. verdict = "VALID" => admitted[handler[p].badge][handler[p].place] = 0
    BY <1>0, <2>2 DEF AlreadyUsed, Logged, RowsTyped
  <2> QED
    BY <1>a, <2>1, <2>2, <2>3, AdmitMoves
<1>10. ASSUME NEW p \in Handlers, ScanLog(p) PROVE AdmitInv'
  <2> DEFINE c == handler[p].badge
             y == handler[p].place
  <2>1. MovesTo(p, {"idle"})
    BY <1>10, NextPlace
  <2>2. CASE UNCHANGED admitted
    BY <1>2, <2>1, <2>2 DEF ScanPlaces
  <2>3. CASE admitted' = [admitted EXCEPT ![c][y] = @ + 1] /\ handler[p].verdict = "VALID"
    <3>1. c \in Badges /\ y \in Places /\ InScan(handler[p]) /\ At(p, "log")
      BY <1>0, <1>10, <2>3 DEF ScanLog, At, GateInv, Sound, InScan, ScanPlaces, HandlerStates
    <3>2. <<c, y>> \notin contended => admitted[c][y] = 0
      BY <2>3, <3>1 DEF AdmitInv
    <3>3. <<c, y>> \notin contended =>
            \A q \in Handlers \ {p} :
              InScan(handler[q]) => handler[q].badge # c \/ handler[q].place # y
      BY <3>1 DEF AdmitInv
    <3>4. /\ handler'[p].pc = "idle"
          /\ \A q \in Handlers \ {p} : handler'[q] = handler[q]
          /\ contended' = contended
      BY <1>10, <2>1 DEF MovesTo, ScanLog, history
    <3>5. \A q \in Handlers : At(q, "log") /\ handler[q].verdict = "VALID" =>
            InScan(handler[q]) /\ handler[q].place \in Places
      BY <1>0 DEF At, GateInv, Sound, InScan, ScanPlaces, HandlerStates
    <3> HIDE DEF c, y
    <3>6. \A b \in Badges, z \in Places :
            admitted'[b][z] = IF b = c /\ z = y THEN admitted[c][y] + 1 ELSE admitted[b][z]
      BY <1>0, <2>3, <3>1, Increment DEF RowsTyped
    <3>7. ASSUME NEW q \in Handlers, handler'[q].pc = "log", handler'[q].verdict = "VALID",
                 <<handler'[q].badge, handler'[q].place>> \notin contended
          PROVE  admitted'[handler'[q].badge][handler'[q].place] = 0
      <4>1. q # p /\ handler'[q] = handler[q]
        BY <3>4, <3>7
      <4>2. /\ handler[q].badge \in Badges /\ handler[q].place \in Places
            /\ InScan(handler[q])
        BY <3>5, <3>7, <4>1 DEF At, InScan
      <4>3. ~(handler[q].badge = c /\ handler[q].place = y)
        BY <3>3, <3>7, <4>1, <4>2
      <4>4. admitted[handler[q].badge][handler[q].place] = 0
        BY <3>7, <4>1 DEF AdmitInv, At
      <4> QED
        BY <3>6, <4>1, <4>2, <4>3, <4>4
    <3>8. OneAdmission'
      BY <3>2, <3>4, <3>6 DEF AdmitInv, OneAdmission
    <3>9. ASSUME NEW q \in Handlers, NEW o \in Handlers, q # o,
                 InScan(handler'[q]), InScan(handler'[o]),
                 <<handler'[q].badge, handler'[q].place>> \notin contended
          PROVE  handler'[q].badge # handler'[o].badge \/ handler'[q].place # handler'[o].place
      <4>1. q # p /\ o # p
        BY <3>4, <3>9 DEF InScan, ScanPlaces
      <4> QED
        BY <3>4, <3>9, <4>1 DEF AdmitInv
    <3> QED
      BY <3>4, <3>7, <3>8, <3>9 DEF AdmitInv, At, InScan
  <2> QED
    BY <1>10, <2>2, <2>3 DEF ScanLog
<1>11. CASE UNCHANGED accessVars
  BY <1>1, <1>11 DEF accessVars
<1>12. CASE \/ \E b \in Badges : Issue(b) \/ ExpiryPasses(b)
            \/ \E d \in Devices :
                 \/ Export(d)
                 \/ \E s \in OfflineScans, b \in Badges, z \in Zones : OfflineScan(d, s, b, z)
  BY <1>1, <1>12 DEF Issue, ExpiryPasses, Export, OfflineScan
<1>13. CASE Next
  BY <1>3, <1>4, <1>5, <1>6, <1>7, <1>8, <1>9, <1>10, <1>12, <1>13 DEF Next, Continues
<1> QED
  BY <1>11, <1>13

LEMMA AdmitInit == Init => AdmitInv
  BY DEF Init, AdmitInv, OneAdmission, IdleHandler, InScan, ScanPlaces, At

\* A badge is admitted online at most once per zone, whatever overlaps, unless
\* two scans of it for this very zone were in flight at once.
THEOREM AdmittedOnce == Spec => []OneAdmission
<1>1. AdmitInv => OneAdmission
  BY DEF AdmitInv
<1>2. GateInv /\ Logged /\ AdmitInv /\ [Next]_accessVars => AdmitInv'
  BY AdmitStep
<1> QED
  BY <1>1, <1>2, AdmitInit, GateAlways, LoggedAlways, PTL DEF Spec
=============================================================================
