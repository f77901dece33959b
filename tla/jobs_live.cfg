SPECIFICATION FairSpec
CONSTANTS
  m1 = m1
  m2 = m2
  Mailboxes = {m1, m2}
  Hosts = {"imap1"}
  Addrs = {"a1", "a2"}
  NewAddrs = {}
  Server = Server
  CLIs = {}
  Clients = {web}
  Requests <- MCExpanding
  NoMailbox = NoMailbox
  Nobody = Nobody
  NoCall = NoCall
  Home <- MCHome
  ProbeHost = "imap1"
  MaxJobs = 2
  MaxWorkers = 2
  MaxCrashes = 0
  MaxEdits = 1
  MaxErrors = 0
INVARIANTS
  DeletedMailboxIdle
PROPERTIES
  QueuedFinishes
  StopEnds
