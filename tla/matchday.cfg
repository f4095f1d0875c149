\* An update beside a submission, the cron and the listener, two requesters, one
\* failure or crash.
CONSTANTS
  r1 = r1
  r2 = r2
  alice = alice
  bob = bob
  Organisers = {o1}
  Callers = {c1}
  Events = {1}
  Requests = {r1, r2}
  OwnerOf <- OwnerOfTwo
  Places = {dakar, thies}
  None = None
  MaxTime = 1
  MaxFaults = 1
  MaxUpdates = 1
SPECIFICATION FairSpec
INVARIANTS TypeOK MailsLogged ChangesAnnounced
PROPERTIES SubmissionsInWindow ExpiredGetsClosed EventsServed
CHECK_DEADLOCK FALSE
