SPECIFICATION Spec
CONSTANTS
  m1 = m1
  m2 = m2
  Mailboxes = {m1}
  Hosts = {"imap1"}
  Addrs = {"a1", "a3"}
  NewAddrs = {"a3"}
  Server = Server
  CLIs = {cli1, cli2}
  Clients = {}
  Requests <- MCOneMailbox
  NoMailbox = NoMailbox
  Nobody = Nobody
  NoCall = NoCall
  Home <- MCHome
  ProbeHost = "imap1"
  MaxJobs = 2
  MaxWorkers = 1
  MaxCrashes = 1
  MaxEdits = 1
  MaxErrors = 1
SYMMETRY Terminals
INVARIANTS
  LockTableExact
  RowsTellWork
PROPERTIES
  ForeignJobsLeftAlone
