SPECIFICATION Spec
CONSTANTS
  m1 = m1
  m2 = m2
  Mailboxes = {m1, m2}
  Hosts = {"imap1"}
  Addrs = {"a1", "a2"}
  NewAddrs = {}
  Server = Server
  CLIs = {}
  Clients = {web}
  Requests <- MCServing
  NoMailbox = NoMailbox
  Nobody = Nobody
  NoCall = NoCall
  Home <- MCHome
  ProbeHost = "imap1"
  MaxJobs = 3
  MaxWorkers = 2
  MaxCrashes = 1
  MaxEdits = 0
  MaxErrors = 1
INVARIANTS
  TypeOK
  WorkIsExclusive
PROPERTIES
  SerialQueueSpec
