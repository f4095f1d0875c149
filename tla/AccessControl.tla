--------------------------- MODULE AccessControl ---------------------------
(***************************************************************************)
(* Badges at the gates of one match: AccessControlService                   *)
(* (src/modules/access-control) with the revocation and the lookup of       *)
(* AccreditationsService.  As in RequestWorkflow a handler's step is what    *)
(* happens between two awaits, and handlers interleave at their awaits.     *)
(*                                                                         *)
(* A place is what a scan asks for: a zone of the match, None when the scan  *)
(* names no zone, or Elsewhere when it names another match.  Of the rows of  *)
(* ScanLog only those with the result VALID are kept: refusals are logged    *)
(* too and nothing ever reads them back.                                    *)
(*                                                                         *)
(* The badge row is created by generateAccreditation, whose own steps are    *)
(* in RequestWorkflow; booth and flash-slot assignments touch columns that   *)
(* no verdict depends on and are left out.  Devices that scan offline are    *)
(* not part of the code: they keep every scan they made and may send the     *)
(* whole list again at any time.                                            *)
(***************************************************************************)
EXTENDS Naturals, FiniteSets

CONSTANTS
  Handlers,      \* handlers that may be in flight at the same time
  Badges,        \* Accreditation rows
  Zones,         \* zones of the stadium
  GrantedZones,  \* the zones of each badge (AccreditationZone rows)
  Devices,       \* offline devices
  OfflineScans,  \* bound: the scans made offline, one identifier each
  None, Elsewhere,
  Failures       \* whether awaits may throw

ASSUME ZonesAssumption == GrantedZones \in [Badges -> SUBSET Zones]
ASSUME PlacesAssumption ==
  /\ {None, Elsewhere} \cap (Zones \cup Badges \cup Devices \cup OfflineScans) = {}
  /\ None # Elsewhere
ASSUME StatusAssumption == None \notin {"ACTIVE", "REVOKED"}
ASSUME SwitchesAssumption == Failures \in BOOLEAN

Places == Zones \cup {None, Elsewhere}

ScanResults == { "VALID", "INVALID", "EXPIRED", "REVOKED", "ALREADY_USED", "OUT_OF_SCOPE" }

VARIABLES
  badgeStatus,   \* Accreditation.status; None before the row exists.  No code
                 \* ever writes EXPIRED
  outOfDate,     \* badges whose expiresAt is past
  validRows,     \* number of ScanLog rows with result VALID, per badge and place
  syncedRows,    \* number of ScanLog rows with the key of an offline scan
  exported,      \* the badges each device got from its last offline export
  scanned,       \* the offline scans: None or the device, badge and place
  admitted,      \* history: VALID answers given online per badge and place
  contended,     \* history: <<badge, place>> of two scans in flight at once
  resent,        \* history: devices with two synchronisations in flight at once
  handler        \* the handlers in flight

history == <<contended, resent>>
accessVars == <<badgeStatus, outOfDate, validRows, syncedRows, exported, scanned,
                history, admitted, handler>>

-----------------------------------------------------------------------------
(* Handlers.                                                               *)

ScanPlaces == {"detail", "count", "log"}
SyncPlaces == {"syncFind", "syncCreate"}

IdleHandler ==
  [ pc |-> "idle", badge |-> None, place |-> None, verdict |-> None,
    late |-> FALSE, device |-> None, todo |-> {}, scan |-> None ]

HandlerStates ==
  [ pc : {"idle", "revokeWrite"} \cup ScanPlaces \cup SyncPlaces,
    badge : Badges \cup {None}, place : Places,
    verdict : ScanResults \cup {None}, late : BOOLEAN,
    device : Devices \cup {None}, todo : SUBSET OfflineScans,
    scan : OfflineScans \cup {None} ]

At(p, place) == handler[p].pc = place
Become(p, state) == handler' = [handler EXCEPT ![p] = state]
Return(p) == Become(p, IdleHandler)

Scanning(b, z) ==
  \E q \in Handlers :
    handler[q].pc \in ScanPlaces /\ handler[q].badge = b /\ handler[q].place = z
Syncing(d) == \E q \in Handlers : handler[q].device = d

-----------------------------------------------------------------------------
(* The badge: issue, expiry, revocation.                                   *)

Issue(b) ==
  /\ badgeStatus[b] = None
  /\ badgeStatus' = [badgeStatus EXCEPT ![b] = "ACTIVE"]
  /\ UNCHANGED <<outOfDate, validRows, syncedRows, exported, scanned, history,
                 admitted, handler>>

\* Time passes expiresAt; the row is not touched.
ExpiryPasses(b) ==
  /\ badgeStatus[b] # None /\ b \notin outOfDate
  /\ outOfDate' = outOfDate \cup {b}
  /\ UNCHANGED <<badgeStatus, validRows, syncedRows, exported, scanned, history,
                 admitted, handler>>

\* ACCREDITATION_ALREADY_REVOKED unless the row just read is not revoked.
RevokeRead(p, b) ==
  /\ At(p, "idle")
  /\ badgeStatus[b] \notin {None, "REVOKED"}
  /\ Become(p, [IdleHandler EXCEPT !.pc = "revokeWrite", !.badge = b])
  /\ UNCHANGED <<badgeStatus, outOfDate, validRows, syncedRows, exported, scanned,
                 history, admitted>>

\* update by id, then the event.
RevokeWrite(p) ==
  /\ At(p, "revokeWrite")
  /\ badgeStatus' = [badgeStatus EXCEPT ![handler[p].badge] = "REVOKED"]
  /\ Return(p)
  /\ UNCHANGED <<outOfDate, validRows, syncedRows, exported, scanned, history, admitted>>

-----------------------------------------------------------------------------
(* verifyScan                                                              *)

\* Something had already ended the badge for this place when the scan arrived.
Ended(b, z) == badgeStatus[b] = "REVOKED" \/ b \in outOfDate \/ validRows[b][z] > 0

\* Plausible bug: the lookup that finds nothing is not handled.
ScanFind_NoNullCheck(p, b, z) ==
  /\ At(p, "idle")
  /\ Become(p, [IdleHandler EXCEPT !.pc = "detail",
                  !.badge = IF badgeStatus[b] = None THEN None ELSE b, !.place = z])
  /\ UNCHANGED <<badgeStatus, outOfDate, validRows, syncedRows, exported, scanned,
                 history, admitted>>

\* findByRawToken.  The token of a badge that does not exist is unknown: the
\* scan is logged as INVALID.
ScanFind(p, b, z) ==
  /\ At(p, "idle")
  /\ Become(p, IF badgeStatus[b] = None
               THEN [IdleHandler EXCEPT !.pc = "log", !.place = z, !.verdict = "INVALID"]
               ELSE [IdleHandler EXCEPT !.pc = "detail", !.badge = b, !.place = z,
                                        !.late = Ended(b, z)])
  /\ contended' = IF Scanning(b, z) THEN contended \cup {<<b, z>>} ELSE contended
  /\ UNCHANGED <<badgeStatus, outOfDate, validRows, syncedRows, exported, scanned,
                 resent, admitted>>

\* Plausible bug: the status alone is trusted for the expiry.
Evaluate_StatusOnly(b, z) ==
  CASE badgeStatus[b] = "REVOKED" -> "REVOKED"
    [] badgeStatus[b] = "EXPIRED" -> "EXPIRED"
    [] z = Elsewhere -> "OUT_OF_SCOPE"
    [] z \in Zones \ GrantedZones[b] -> "OUT_OF_SCOPE"
    [] OTHER -> "VALID"

\* evaluate: the first test that applies, in the order of the code.
Evaluate(b, z) ==
  IF badgeStatus[b] = "REVOKED" THEN "REVOKED"
  ELSE IF b \in outOfDate THEN "EXPIRED"
  ELSE IF z = Elsewhere \/ z \in Zones \ GrantedZones[b] THEN "OUT_OF_SCOPE"
  ELSE "VALID"

\* The second read of the badge and its evaluation.
ScanEvaluate(p) ==
  /\ At(p, "detail")
  /\ LET verdict == Evaluate(handler[p].badge, handler[p].place) IN
     Become(p, [handler[p] EXCEPT !.verdict = verdict,
                                  !.pc = IF verdict = "VALID" THEN "count" ELSE "log"])
  /\ UNCHANGED <<badgeStatus, outOfDate, validRows, syncedRows, exported, scanned,
                 history, admitted>>

\* Plausible bug: only scans that name no zone are looked up.
AlreadyUsed_NoZone(b, z) == z = None /\ validRows[b][z] > 0

\* wasAlreadyUsed: a VALID row for this badge and this very zone (or no zone).
AlreadyUsed(b, z) == validRows[b][z] > 0

ScanCount(p) ==
  /\ At(p, "count")
  /\ Become(p, [handler[p] EXCEPT !.pc = "log",
                  !.verdict = IF AlreadyUsed(handler[p].badge, handler[p].place)
                              THEN "ALREADY_USED" ELSE "VALID"])
  /\ UNCHANGED <<badgeStatus, outOfDate, validRows, syncedRows, exported, scanned,
                 history, admitted>>

\* logScan, then the answer; the row may be written and the answer lost.
ScanLog(p) ==
  /\ At(p, "log")
  /\ IF handler[p].verdict = "VALID"
     THEN /\ validRows' = [validRows EXCEPT ![handler[p].badge][handler[p].place] = @ + 1]
          /\ \/ admitted' = [admitted EXCEPT ![handler[p].badge][handler[p].place] = @ + 1]
             \/ Failures /\ UNCHANGED admitted
     ELSE UNCHANGED <<validRows, admitted>>
  /\ Return(p)
  /\ UNCHANGED <<badgeStatus, outOfDate, syncedRows, exported, scanned, history>>

-----------------------------------------------------------------------------
(* Offline devices: export, scan, synchronisation.                         *)

\* exportForOfflineUse.
Export(d) ==
  /\ exported' = [exported EXCEPT ![d] = {b \in Badges : badgeStatus[b] = "ACTIVE"}]
  /\ UNCHANGED <<badgeStatus, outOfDate, validRows, syncedRows, scanned, history,
                 admitted, handler>>

\* A device admits a badge of its list to one of the badge's zones and keeps the
\* scan.  The list may be older than a revocation.
OfflineScan(d, s, b, z) ==
  /\ scanned[s] = None
  /\ b \in exported[d] /\ z \in GrantedZones[b]
  /\ scanned' = [scanned EXCEPT ![s] = <<d, b, z>>]
  /\ UNCHANGED <<badgeStatus, outOfDate, validRows, syncedRows, exported, history,
                 admitted, handler>>

ScansOf(d) == { s \in OfflineScans : scanned[s] # None /\ scanned[s][1] = d }

\* syncOfflineScans is called with all the scans of the device.
SyncStart(p, d) ==
  /\ At(p, "idle")
  /\ ScansOf(d) # {}
  /\ Become(p, [IdleHandler EXCEPT !.pc = "syncFind", !.device = d, !.todo = ScansOf(d)])
  /\ resent' = IF Syncing(d) THEN resent \cup {d} ELSE resent
  /\ UNCHANGED <<badgeStatus, outOfDate, validRows, syncedRows, exported, scanned,
                 contended, admitted>>

\* The loop goes on with the scans that are left, or returns.
SyncOn(p, left) ==
  IF left = {} THEN Return(p)
  ELSE Become(p, [handler[p] EXCEPT !.pc = "syncFind", !.todo = left, !.scan = None])

\* Plausible bug: every record is inserted without a lookup.
SyncFind_NoLookup(p) ==
  /\ At(p, "syncFind")
  /\ \E s \in handler[p].todo :
       /\ syncedRows[s] < 2
       /\ Become(p, [handler[p] EXCEPT !.pc = "syncCreate", !.scan = s])
  /\ UNCHANGED <<badgeStatus, outOfDate, validRows, syncedRows, exported, scanned,
                 history, admitted>>

\* findFirst by badge, device and time: a scan that has a row is skipped.
SyncFind(p) ==
  /\ At(p, "syncFind")
  /\ \E s \in handler[p].todo :
       IF syncedRows[s] > 0 THEN SyncOn(p, handler[p].todo \ {s})
       ELSE Become(p, [handler[p] EXCEPT !.pc = "syncCreate", !.scan = s])
  /\ UNCHANGED <<badgeStatus, outOfDate, validRows, syncedRows, exported, scanned,
                 history, admitted>>

\* create: the result is the device's; nothing is evaluated again.
SyncCreate(p) ==
  /\ At(p, "syncCreate")
  /\ LET s == handler[p].scan IN
     /\ syncedRows' = [syncedRows EXCEPT ![s] = @ + 1]
     /\ validRows' = [validRows EXCEPT ![scanned[s][2]][scanned[s][3]] = @ + 1]
     /\ SyncOn(p, handler[p].todo \ {s})
  /\ UNCHANGED <<badgeStatus, outOfDate, exported, scanned, history, admitted>>

\* An await throws or the process dies: the rows of a batch written so far stay.
Abort(p) ==
  /\ Failures
  /\ ~At(p, "idle")
  /\ Return(p)
  /\ UNCHANGED <<badgeStatus, outOfDate, validRows, syncedRows, exported, scanned,
                 history, admitted>>

-----------------------------------------------------------------------------
Init ==
  /\ badgeStatus = [b \in Badges |-> None]
  /\ outOfDate = {}
  /\ validRows = [b \in Badges |-> [z \in Places |-> 0]]
  /\ syncedRows = [s \in OfflineScans |-> 0]
  /\ exported = [d \in Devices |-> {}]
  /\ scanned = [s \in OfflineScans |-> None]
  /\ admitted = [b \in Badges |-> [z \in Places |-> 0]]
  /\ contended = {} /\ resent = {}
  /\ handler = [p \in Handlers |-> IdleHandler]

Continues(p) ==
  \/ RevokeWrite(p)
  \/ ScanEvaluate(p) \/ ScanCount(p) \/ ScanLog(p)
  \/ SyncFind(p) \/ SyncCreate(p)

Next ==
  \/ \E b \in Badges : Issue(b) \/ ExpiryPasses(b)
  \/ \E p \in Handlers :
       \/ \E b \in Badges : RevokeRead(p, b) \/ \E z \in Places : ScanFind(p, b, z)
       \/ \E d \in Devices : SyncStart(p, d)
       \/ Continues(p)
       \/ Abort(p)
  \/ \E d \in Devices :
       \/ Export(d)
       \/ \E s \in OfflineScans, b \in Badges, z \in Zones : OfflineScan(d, s, b, z)

Spec == Init /\ [][Next]_accessVars

-----------------------------------------------------------------------------
(* Properties.                                                             *)

\* Every variable has its type, and a scan that goes on has found its badge.
TypeOK ==
  /\ badgeStatus \in [Badges -> {None, "ACTIVE", "REVOKED"}]
  /\ outOfDate \subseteq Badges
  /\ validRows \in [Badges -> [Places -> Nat]]
  /\ syncedRows \in [OfflineScans -> Nat]
  /\ exported \in [Devices -> SUBSET Badges]
  /\ scanned \in [OfflineScans -> (Devices \X Badges \X Zones) \cup {None}]
  /\ admitted \in [Badges -> [Places -> Nat]]
  /\ contended \subseteq Badges \X Places /\ resent \subseteq Devices
  /\ handler \in [Handlers -> HandlerStates]
  /\ \A p \in Handlers : handler[p].pc \in {"detail", "count"} => handler[p].badge # None

\* A revocation, the expiry of the badge and a recorded entry take effect at
\* once at every gate: a scan that arrives after one of them, online or synced
\* from a device, is never answered VALID.
NoLateAdmission ==
  \A p \in Handlers : At(p, "log") /\ handler[p].verdict = "VALID" => ~handler[p].late

\* A badge is admitted online at most once per zone, whatever answers were lost,
\* offline scans came in and other scans of the badge went on meanwhile.  Only
\* where two scans of the badge for this very zone were in flight at once may
\* both find no VALID row: the lookup and the row are not one step.
OneAdmission ==
  \A b \in Badges, z \in Places : <<b, z>> \notin contended => admitted[b][z] <= 1

\* The ingestion is idempotent: an offline scan has at most one row however often
\* its batch is sent again, after complete and interrupted calls, and beside the
\* batches of other devices.  Only two calls of its own device that were in
\* flight at once may both find no row.
SyncOnce ==
  \A s \in OfflineScans :
    scanned[s] # None /\ scanned[s][1] \notin resent => syncedRows[s] <= 1
=============================================================================
