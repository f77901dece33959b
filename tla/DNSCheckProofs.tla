--------------------------- MODULE DNSCheckProofs ---------------------------
(* For any number of runs, notices, resolvers and servers: what is stored     *)
(* about a name never contradicts itself within the fresh period, is true,    *)
(* and stays as long as a notice may be filed by it.  For any number of runs, *)
(* names and kinds of source: no sending source is lost (SourceCache).  For   *)
(* any mails, sending sources and DNS data: what is decided about a notice is *)
(* true of it, its groups are counted, and what was left unverified is tried  *)
(* again (NoticeFiling).                                                      *)
EXTENDS DNSCheck, SourceCache, NoticeFiling, TLAPS, WellFoundedInduction, FiniteSetTheorems

-----------------------------------------------------------------------------
(* The inductive invariant.                                                   *)

\* A Checker has its fields; it began a verification in the past.
IsRun(r) ==
  /\ DOMAIN r = {"pc", "live", "system", "control", "n", "t", "out", "asked", "sound"}
  /\ r.t \in 0..now /\ r.asked \in BOOLEAN
RunsOK == run = [p \in Runs |-> run[p]] /\ \A p \in Runs : IsRun(run[p])

\* No row is dated after now: one stored earlier than a verification lies
\* either within the window it looks in, or before its fresh period.
RowsOK ==
  /\ rows = [i \in Ids |-> rows[i]]
  /\ \A i \in Ids : rows[i].at \in 0..now /\ rows[i].direct \in BOOLEAN

IInv == now \in Nat /\ RunsOK /\ RowsOK /\ OneOutcome

LEMMA Start == Init => IInv
<1> SUFFICES ASSUME Init PROVE IInv
  OBVIOUS
<1>1. NoRun.t = 0 /\ NoRun.asked = FALSE /\ NoRow.at = 0 /\ NoRow.direct = FALSE
  BY DEF NoRun, NoRow
<1>2. DOMAIN NoRun = {"pc", "live", "system", "control", "n", "t", "out", "asked", "sound"}
  BY DEF NoRun
<1>0. now = 0 /\ 0 \in 0..0
  BY DEF Init
<1>3. RunsOK
  <2>1. IsRun(NoRun)
    BY <1>0, <1>1, <1>2 DEF IsRun
  <2> QED
    BY <2>1 DEF Init, RunsOK
<1>4. RowsOK
  <2>1. NoRow.at \in 0..now /\ NoRow.direct \in BOOLEAN
    BY <1>0, <1>1
  <2>2. rows = [i \in Ids |-> NoRow]
    BY DEF Init
  <2>3. \A i \in Ids : rows[i] = NoRow
    BY <2>2
  <2>4. rows = [i \in Ids |-> rows[i]]
    BY <2>2, <2>3, Zenon
  <2> QED
    BY <2>1, <2>3, <2>4 DEF RowsOK
<1>5. OneOutcome
  BY DEF Init, OneOutcome, AllRows
<1> QED
  BY <1>3, <1>4, <1>5 DEF IInv, Init

\* A run goes on to a record that is a Checker, and nothing else changes.
LEMMA GoesOn ==
  ASSUME IInv, NEW p \in Runs, NEW r, IsRun(r), run' = [run EXCEPT ![p] = r], UNCHANGED <<now, rows>>
  PROVE  IInv'
<1>1. RunsOK'
  BY DEF IInv, RunsOK, IsRun
<1>2. RowsOK' /\ OneOutcome' /\ now' \in Nat
  BY DEF IInv, RowsOK, OneOutcome, AllRows
<1> QED
  BY <1>1, <1>2 DEF IInv

LEMMA IdleRun == IInv => IsRun(NoRun)
  BY SMTT(30) DEF IInv, IsRun, NoRun

\* A record that is changed is a Checker still.
LEMMA FilesOn ==
  ASSUME IInv, NEW p \in Runs, NEW r, IsRun(r), NEW o, Files(p, r, o), UNCHANGED <<now, rows>>
  PROVE  IInv'
<1> DEFINE s == [r EXCEPT !.pc = "ready", !.n = NoRun.n, !.t = 0, !.out = o, !.asked = FALSE, !.sound = TRUE]
<1>1. IsRun(s)
  BY SMTT(30) DEF IsRun, IInv
<1>2. run' = [run EXCEPT ![p] = s]
  BY DEF Files, Goes
<1> HIDE DEF s
<1> QED
  BY <1>1, <1>2, GoesOn

LEMMA BeginStep ==
  ASSUME IInv, NEW p \in Runs, Begin(p)
  PROVE  IInv'
<1>1. PICK cfg \in {<<TRUE, FALSE>>, <<TRUE, TRUE>>, <<FALSE, FALSE>>} :
        run' = [run EXCEPT ![p] = [NoRun EXCEPT !.pc = "ready", !.live = cfg[1], !.system = cfg[2]]]
  BY DEF Begin, Goes
<1>2. IsRun([NoRun EXCEPT !.pc = "ready", !.live = cfg[1], !.system = cfg[2]])
  BY IdleRun, SMTT(30) DEF IsRun
<1> QED
  BY <1>1, <1>2, GoesOn DEF Begin

LEMMA ReadStep ==
  ASSUME IInv, NEW p \in Runs, NEW n \in Notices, Read(p, n) \/ ReadStored(p, n)
  PROVE  IInv'
<1>1. IsRun(run[p])
  BY DEF IInv, RunsOK
<1>2. CASE ReadStored(p, n)
  BY <1>1, <1>2, FilesOn DEF ReadStored
<1>3. CASE Read(p, n)
  <2>1. IsRun([run[p] EXCEPT !.pc = "verify", !.n = n, !.t = now, !.out = ""])
    BY <1>1, SMTT(30) DEF IsRun, IInv
  <2> QED
    BY <1>1, <1>3, <2>1, FilesOn, GoesOn DEF Read, Goes
<1> QED
  BY <1>2, <1>3

LEMMA VerifyStep ==
  ASSUME IInv, NEW p \in Runs, Verify(p)
  PROVE  IInv'
<1>1. IsRun(run[p])
  BY DEF IInv, RunsOK
<1>2. PICK c \in Checks :
        /\ c.asks = (TryDirect(p, run[p].n) /\ c.R # {})
        /\ LET r == [run[p] EXCEPT !.control = {c.R}]
           IN IF ~Applicable(run[p].n, c.host) \/ c.out = "" THEN Files(p, r, StandIn)
              ELSE Goes(p, [r EXCEPT !.pc = "store", !.out = c.out, !.asked = c.asks, !.sound = c.sound])
  BY DEF Verify
<1> DEFINE r == [run[p] EXCEPT !.control = {c.R}]
           s == [r EXCEPT !.pc = "store", !.out = c.out, !.asked = c.asks, !.sound = c.sound]
<1>3. IsRun(r)
  BY <1>1, SMTT(30) DEF IsRun
<1>4. c.asks \in BOOLEAN
  BY <1>2
<1>5. IsRun(s)
  BY <1>3, <1>4, SMTT(30) DEF IsRun
<1>6. \/ Files(p, r, StandIn)
      \/ Goes(p, s)
  BY <1>2
<1>7. UNCHANGED <<now, rows>>
  BY DEF Verify
<1> HIDE DEF r, s
<1> QED
  BY <1>3, <1>5, <1>6, <1>7, FilesOn, GoesOn DEF Goes

-----------------------------------------------------------------------------
(* The statement that inserts.                                                *)

\* A row that no other would have been used for is later than every row of its
\* kind by more than the fresh period; its id is the highest.
LEMMA Insert ==
  ASSUME IInv, NEW p \in Runs, IsRun(run[p]), rows[MaxChecks] = NoRow, Winners(p) = {},
         NEW o, rows' = [rows EXCEPT ![NextId] = [outcome |-> o, direct |-> run[p].asked, at |-> run[p].t]],
         now' = now
  PROVE  RowsOK' /\ OneOutcome'
<1> DEFINE new == [outcome |-> o, direct |-> run[p].asked, at |-> run[p].t]
<1>1. MaxChecks \in Nat /\ Fresh \in Nat
  BY Times
<1>2. CASE Ids = {}
  BY <1>2 DEF IInv, RowsOK, OneOutcome, AllRows
<1>3. CASE Ids # {}
  <2>1. MaxChecks \in Ids /\ \A j \in Ids : j >= MaxChecks => rows[j] = NoRow
    BY <1>1, <1>3 DEF Ids
  <2>2. NextId \in Ids /\ \A j \in Ids : j >= NextId => rows[j] = NoRow
    BY <2>1 DEF NextId
  <2>3. rows'[NextId] = new /\ \A i \in Ids : i # NextId => rows'[i] = rows[i]
    BY <2>2 DEF IInv, RowsOK
  <2>4. RowsOK'
    BY <2>2, <2>3 DEF IInv, RowsOK, IsRun
  <2>5. \A i \in AllRows : run[p].asked /\ rows[i].direct => rows[i].at < FreshFrom(run[p].t)
    BY SMTT(30), <1>1 DEF Winners, Usable, In, AllRows, IInv, RowsOK, IsRun, FreshFrom
  <2>6. \A i \in AllRows : ~run[p].asked => rows[i].at < FreshFrom(run[p].t)
    BY <1>1 DEF Winners, Usable, In, AllRows, IInv, RowsOK, IsRun, FreshFrom
  <2>7. \A i \in AllRows : rows[i].at < FreshFrom(run[p].t) => run[p].t > rows[i].at + Fresh
    BY <1>1 DEF FreshFrom, IInv, RowsOK, IsRun, AllRows
  <2>8. ASSUME NEW i \in AllRows', NEW j \in AllRows', i < j,
               rows'[i].direct = rows'[j].direct \/ ~rows'[j].direct
        PROVE  rows'[j].at > rows'[i].at + Fresh
    <3>1. i \in Ids /\ j \in Ids
      BY DEF AllRows
    <3>2. i # NextId
      BY <2>2, <2>3, <2>8, <3>1 DEF AllRows, Ids
    <3>3. i \in AllRows /\ rows'[i] = rows[i]
      BY <2>3, <3>1, <3>2 DEF AllRows
    <3>4. CASE j # NextId
      BY <2>3, <2>8, <3>1, <3>3, <3>4 DEF IInv, OneOutcome, AllRows
    <3>5. CASE j = NextId
      <4>1. rows'[j].direct = run[p].asked /\ rows'[j].at = run[p].t
        BY <2>3, <3>5
      <4>2. rows[i].at < FreshFrom(run[p].t)
        BY <2>5, <2>6, <2>8, <3>3, <4>1 DEF IInv, RowsOK, IsRun
      <4> QED
        BY <2>7, <3>3, <4>1, <4>2
    <3> QED
      BY <3>4, <3>5
  <2> QED
    BY <2>4, <2>8 DEF OneOutcome
<1> QED
  BY <1>2, <1>3

LEMMA StoreStep ==
  ASSUME IInv, NEW p \in Runs, Store(p) \/ StoreFails(p)
  PROVE  IInv'
<1>1. IsRun(run[p])
  BY DEF IInv, RunsOK
<1>2. CASE StoreFails(p)
  BY <1>1, <1>2, FilesOn DEF StoreFails
<1>3. CASE Store(p) /\ Winners(p) # {}
  BY <1>1, <1>3, FilesOn DEF Store
<1>4. CASE Store(p) /\ Winners(p) = {}
  <2> DEFINE s == [run[p] EXCEPT !.pc = "ready", !.n = NoRun.n, !.t = 0, !.out = run[p].out, !.asked = FALSE, !.sound = TRUE]
  <2>1. RowsOK' /\ OneOutcome'
    BY <1>1, <1>4, Insert DEF Store
  <2>2. IsRun(s)
    BY <1>1, SMTT(30) DEF IsRun, IInv
  <2>3. run' = [run EXCEPT ![p] = s] /\ now' = now
    BY <1>4 DEF Store, Files, Goes
  <2> HIDE DEF s
  <2>4. RunsOK'
    BY <2>2, <2>3 DEF IInv, RunsOK, IsRun
  <2> QED
    BY <2>1, <2>3, <2>4 DEF IInv
<1> QED
  BY <1>2, <1>3, <1>4

-----------------------------------------------------------------------------
LEMMA TickStep == IInv /\ Tick => IInv'
<1> SUFFICES ASSUME IInv, Tick PROVE IInv'
  OBVIOUS
<1>1. now' = now + 1 /\ now \in Nat /\ UNCHANGED <<rows, run>>
  BY DEF Tick, IInv
<1>2. RunsOK'
  BY <1>1 DEF IInv, RunsOK, IsRun
<1>3. RowsOK' /\ OneOutcome'
  BY <1>1 DEF IInv, RowsOK, OneOutcome, AllRows
<1> QED
  BY <1>1, <1>2, <1>3 DEF IInv

LEMMA PruneStep == IInv /\ Prune => IInv'
<1> SUFFICES ASSUME IInv, Prune PROVE IInv'
  OBVIOUS
<1>1. \A i \in Ids : rows'[i] = NoRow \/ rows'[i] = rows[i]
  BY DEF Prune
<1>2. RowsOK'
  <2>1. now' = now /\ rows' = [i \in Ids |-> IF Outlived(i) THEN NoRow ELSE rows[i]]
    BY DEF Prune
  <2>2. rows' = [i \in Ids |-> rows'[i]]
    BY <2>1
  <2>3. NoRow.at = 0 /\ NoRow.direct = FALSE
    BY DEF NoRow
  <2>4. NoRow.at \in 0..now /\ NoRow.direct \in BOOLEAN
    <3>1. 0 \in 0..now
      BY DEF IInv
    <3> QED
      BY <2>3, <3>1
  <2>5. \A i \in Ids : rows'[i].at \in 0..now /\ rows'[i].direct \in BOOLEAN
    BY <1>1, <2>4, Zenon DEF IInv, RowsOK
  <2> QED
    BY <2>1, <2>2, <2>5 DEF RowsOK
<1>3. \A i \in AllRows' : i \in AllRows /\ rows'[i] = rows[i]
  BY <1>1 DEF AllRows
<1>4. OneOutcome'
  BY <1>3 DEF IInv, OneOutcome
<1>5. RunsOK' /\ now' \in Nat
  BY DEF Prune, IInv, RunsOK, IsRun
<1> QED
  BY <1>2, <1>4, <1>5 DEF IInv

LEMMA Step == IInv /\ [Next]_vars => IInv'
<1> SUFFICES ASSUME IInv, [Next]_vars PROVE IInv'
  OBVIOUS
<1>1. CASE UNCHANGED vars
  BY <1>1 DEF vars, IInv, RunsOK, RowsOK, IsRun, OneOutcome, AllRows
<1>2. CASE Tick \/ Prune
  BY <1>2, TickStep, PruneStep
<1>3. ASSUME NEW p \in Runs, End(p) PROVE IInv'
  BY <1>3, IdleRun, GoesOn DEF End, Goes
<1> QED
  BY <1>1, <1>2, <1>3, BeginStep, ReadStep, VerifyStep, StoreStep DEF Next

\* Two runs that verify one name at once agree, whatever the servers say and
\* however the steps of the runs interleave: the row that is inserted first is
\* the outcome of both (models.InsertDNSCheckIfAbsent).
THEOREM OutcomesAgree == Spec => []OneOutcome
<1>1. IInv => OneOutcome
  BY DEF IInv
<1> QED
  BY <1>1, Start, Step, PTL DEF Spec

-----------------------------------------------------------------------------
(* What the answers show.                                                     *)

\* Of "data", "none" and "fail" the first that was given counts
\* (targetsAnswer, addressesAnswer).
LEMMA FirstOfThree ==
  ASSUME NEW S, NEW o
  PROVE  Foremost(<<"data", "none", "fail">>, S, o) =
           IF "data" \in S THEN "data" ELSE IF "none" \in S THEN "none" ELSE IF "fail" \in S THEN "fail" ELSE o
<1> DEFINE order == <<"data", "none", "fail">>
           Leads(i) == order[i] \in S /\ \A j \in 1..(i-1) : order[j] \notin S
           F == CHOOSE i \in DOMAIN order : Leads(i)
<1>1. DOMAIN order = 1..3 /\ order[1] = "data" /\ order[2] = "none" /\ order[3] = "fail"
  OBVIOUS
<1>2. 1..(1-1) = {} /\ 1..(2-1) = {1} /\ 1..(3-1) = {1, 2} /\ 1..3 = {1, 2, 3}
  OBVIOUS
<1> HIDE DEF order
<1>3. Foremost(order, S, o) = IF \A i \in DOMAIN order : order[i] \notin S THEN o ELSE order[F]
  BY DEF Foremost
<1>4. ASSUME NEW k \in 1..3, \A i \in 1..3 : Leads(i) <=> i = k
      PROVE  Foremost(order, S, o) = order[k]
  <2>1. F = k
    BY <1>1, <1>4
  <2>2. order[k] \in S /\ k \in DOMAIN order
    BY <1>1, <1>4
  <2> HIDE DEF F, Leads
  <2> QED BY <1>3, <2>1, <2>2
<1>5. CASE "data" \in S
  <2>1. \A i \in 1..3 : Leads(i) <=> i = 1
    BY <1>1, <1>2, <1>5
  <2> HIDE DEF Leads
  <2>2. Foremost(order, S, o) = order[1]
    BY <1>4, <2>1
  <2> QED BY <1>1, <1>5, <2>2 DEF order
<1>6. CASE "data" \notin S /\ "none" \in S
  <2>1. \A i \in 1..3 : Leads(i) <=> i = 2
    BY <1>1, <1>2, <1>6
  <2> HIDE DEF Leads
  <2>2. Foremost(order, S, o) = order[2]
    BY <1>4, <2>1
  <2> QED BY <1>1, <1>6, <2>2 DEF order
<1>7. CASE "data" \notin S /\ "none" \notin S /\ "fail" \in S
  <2>1. \A i \in 1..3 : Leads(i) <=> i = 3
    BY <1>1, <1>2, <1>7
  <2> HIDE DEF Leads
  <2>2. Foremost(order, S, o) = order[3]
    BY <1>4, <2>1
  <2> QED BY <1>1, <1>7, <2>2 DEF order
<1>8. CASE "data" \notin S /\ "none" \notin S /\ "fail" \notin S
  <2>1. Foremost(order, S, o) = o
    BY <1>1, <1>2, <1>3, <1>8
  <2> QED BY <1>8, <2>1 DEF order
<1> QED
  BY <1>5, <1>6, <1>7, <1>8

\* However often a query is lost, cut or repeated, the answer is that of one of
\* the replies, or none (exchange).
LEMMA AskedOf ==
  ASSUME NEW auth, NEW R, NEW a \in Asked(auth, R)
  PROVE  a = "none" \/ \E r \in R : a = LookupType(auth, r)
<1>1. PICK u \in R \cup Lost, v \in R \cup Lost, t \in R \cup Lost : a = Exchange(auth, u, v, t)
  BY DEF Asked
<1>2. PICK got \in R \cup Lost :
        a = IF got.kind \in ReplyKinds THEN LookupType(auth, got) ELSE "none"
  BY <1>1 DEF Exchange, ExchangeUDP
<1>3. CASE got \in R
  BY <1>2, <1>3
<1>4. CASE got \in Lost
  <2>1. PICK k \in Losses : got = [kind |-> k, aa |-> FALSE]
    BY <1>4 DEF Lost
  <2>2. got.kind \notin ReplyKinds
    BY <2>1 DEF Losses, ReplyKinds
  <2> QED
    BY <1>2, <2>2
<1> QED
  BY <1>2, <1>3, <1>4

\* A resolver that is honest says what the DNS holds, nothing, or an error.
LEMMA GetsOf ==
  ASSUME NEW a \in {"data", "nodata", "nx"}, NEW errs \in BOOLEAN, NEW b \in Gets(FALSE, a, errs)
  PROVE  b \in {"none", a} \/ (b = "fail" /\ errs)
<1>1. b = "none" \/ \E r \in {ReplyFor(a)} \cup ErrorReply(errs) : b = LookupType(FALSE, r)
  BY AskedOf DEF Gets
<1>2. LookupType(FALSE, ReplyFor(a)) = a
  BY DEF LookupType, ReplyFor
<1>3. \A r \in ErrorReply(errs) : errs /\ LookupType(FALSE, r) = "fail"
  BY DEF LookupType, ErrorReply
<1> QED
  BY <1>1, <1>2, <1>3

LEMMA AnswersOf ==
  ASSUME NEW X, NEW Y, NEW x \in {AddressesAnswer({d, e}) : d \in X, e \in Y}
  PROVE  \E d \in X, e \in Y : x = AddressesAnswer({d, e})
OBVIOUS

\* The answer about the addresses of a host.
HostSays(a, pair, errs) ==
  /\ a \in Answers
  /\ a = "data" => pair[1] = "data" \/ pair[2] = "data"
  /\ a = "nx" => pair = NoName
  /\ a = "nodata" => pair # NoName /\ pair[1] # "data" /\ pair[2] # "data"
  /\ a = "fail" => errs

LEMMA HostAnswer ==
  ASSUME NEW z \in Zones, NEW errs \in BOOLEAN, NEW h \in HostsOf(z), NEW a \in HostGets(z, errs)[h]
  PROVE  HostSays(a, z.addr[h], errs)
<1> DEFINE pair == z.addr[h]
<1> SUFFICES HostSays(a, pair, errs)
  OBVIOUS
<1>1. pair = NoName \/ pair \in {"data", "nodata"} \X {"data", "nodata"}
  BY ZonesOK DEF HostsOf
<1>2. pair[1] \in {"data", "nodata", "nx"} /\ pair[2] \in {"data", "nodata", "nx"}
  BY <1>1 DEF NoName
<1> DEFINE X(k) == Gets(FALSE, z.addr[k][1], errs)
           Y(k) == Gets(FALSE, z.addr[k][2], errs)
           W(k) == {AddressesAnswer({d, e}) : d \in X(k), e \in Y(k)}
<1>3. HostGets(z, errs) = [k \in HostsOf(z) |-> W(k)]
  BY DEF HostGets
<1> HIDE DEF X, Y, W
<1>4. a \in W(h)
  BY <1>3
<1>5. ASSUME NEW x \in W(h) PROVE \E d \in X(h), e \in Y(h) : x = AddressesAnswer({d, e})
  <2>1. x \in {AddressesAnswer({d, e}) : d \in X(h), e \in Y(h)}
    BY <1>5 DEF W
  <2> QED BY <2>1
<1>6. PICK b \in X(h), c \in Y(h) : a = AddressesAnswer({b, c})
  BY <1>4, <1>5
<1>7. (b \in {"none", pair[1]} \/ (b = "fail" /\ errs)) /\ (c \in {"none", pair[2]} \/ (c = "fail" /\ errs))
  BY <1>2, GetsOf DEF X, Y
<1>8. a = IF b = "nx" /\ c = "nx" THEN "nx"
          ELSE IF b = "data" \/ c = "data" THEN "data" ELSE IF b = "none" \/ c = "none" THEN "none"
          ELSE IF b = "fail" \/ c = "fail" THEN "fail" ELSE "nodata"
  <2>1. {b, c} = {"nx"} <=> b = "nx" /\ c = "nx"
    OBVIOUS
  <2>2. \A x : x \in {b, c} <=> b = x \/ c = x
    OBVIOUS
  <2>3. a = IF {b, c} = {"nx"} THEN "nx"
            ELSE IF "data" \in {b, c} THEN "data" ELSE IF "none" \in {b, c} THEN "none"
            ELSE IF "fail" \in {b, c} THEN "fail" ELSE "nodata"
    BY <1>6, FirstOfThree DEF AddressesAnswer
  <2> QED BY <2>1, <2>2, <2>3
<1> HIDE DEF pair
<1>9. CASE pair = NoName
  <2>1. pair[1] = "nx" /\ pair[2] = "nx"
    BY <1>9 DEF NoName
  <2> QED BY <1>7, <1>8, <1>9, <2>1 DEF HostSays, Answers
<1>10. CASE pair # NoName /\ pair \in {"data", "nodata"} \X {"data", "nodata"}
  <2>1. pair[1] \in {"data", "nodata"} /\ pair[2] \in {"data", "nodata"}
    BY <1>10
  <2> QED BY <1>7, <1>8, <1>10, <2>1 DEF HostSays, Answers
<1> QED
  BY <1>1, <1>9, <1>10

\* The truth, case by case.
Delivers(z, host) == \E h \in MailHosts(z, host) : z.addr[h][1] = "data" \/ z.addr[h][2] = "data"

LEMMA TruthIs ==
  ASSUME NEW z \in Zones, NEW host \in BOOLEAN, NEW system \in BOOLEAN
  PROVE  Truth(z, host, system) =
           IF Delivers(z, host) THEN "exists"
           ELSE IF (host /\ z.addr["name"] = NoName) \/ (~host /\ z.mx = "nx") THEN "not_found"
           ELSE IF system /\ (host \/ z.mx = "nodata") THEN "not_found" ELSE "broken"
<1>1. z.mx = "nx" => z.targets = {}
  BY ZonesOK
<1>2. NoName[1] = "nx" /\ NoName[2] = "nx"
  BY DEF NoName
<1>3. host /\ z.addr["name"] = NoName => ~Delivers(z, host)
  BY <1>2 DEF Delivers, MailHosts
<1>4. ~host /\ z.mx = "nx" => ~Delivers(z, host)
  BY <1>1 DEF Delivers, MailHosts
<1> QED
  BY <1>3, <1>4 DEF Truth, Delivers

\* What an answer shows about the truth.
Shows(a, truth, errs) ==
  /\ a \in Answers
  /\ a = "data" => truth = "exists"
  /\ a = "nx" => truth = "not_found"
  /\ a = "nodata" => truth = "broken"
  /\ a = "fail" => errs

\* The answer about the MX targets, of what is known of each.
LEMMA TargetsSay ==
  ASSUME NEW S
  PROVE  /\ TargetsAnswer(S) \in Answers \ {"nx"}
         /\ TargetsAnswer(S) = "data" => "data" \in S
         /\ TargetsAnswer(S) = "fail" => "fail" \in S
         /\ TargetsAnswer(S) = "nodata" => "data" \notin S /\ "none" \notin S /\ "fail" \notin S
BY FirstOfThree DEF TargetsAnswer, Answers

\* A resolver that asks each server on its own.
LEMMA ResolverShows ==
  ASSUME NEW z \in Zones, NEW host \in BOOLEAN, NEW errs \in BOOLEAN,
         NEW m, m \in {"none", z.mx} \/ (m = "fail" /\ errs),
         NEW g, \A h \in HostsOf(z) : HostSays(g[h], z.addr[h], errs)
  PROVE  Shows(ResolveName(host, m, z.targets, g), Truth(z, host, FALSE), errs)
<1> DEFINE a == ResolveName(host, m, z.targets, g)
           truth == Truth(z, host, FALSE)
<1>1. /\ z.mx \in {"data", "nodata", "nx"}
      /\ "name" \in HostsOf(z) /\ z.targets \subseteq HostsOf(z)
      /\ z.mx = "nx" <=> z.addr["name"] = NoName
      /\ z.mx # "data" => z.targets = {}
  BY ZonesOK DEF HostsOf
<1>2. truth = IF Delivers(z, host) THEN "exists"
              ELSE IF (host /\ z.addr["name"] = NoName) \/ (~host /\ z.mx = "nx") THEN "not_found" ELSE "broken"
  BY TruthIs
<1>3. NoName[1] = "nx" /\ NoName[2] = "nx"
  BY DEF NoName
<1>4. CASE host \/ m = "nodata"
  <2>1. a = g["name"] /\ HostSays(a, z.addr["name"], errs)
    BY <1>1, <1>4 DEF ResolveName
  <2>2. MailHosts(z, host) = {"name"} /\ (~host => z.mx = "nodata")
    BY <1>1, <1>4 DEF MailHosts
  <2> HIDE DEF a, truth
  <2> SUFFICES Shows(a, truth, errs)
    BY DEF a, truth
  <2> QED
    BY <1>1, <1>2, <1>3, <2>1, <2>2 DEF Shows, HostSays, Delivers
<1>5. CASE ~host /\ m \in {"nx", "none", "fail"}
  <2>1. a = m
    BY <1>5 DEF ResolveName
  <2>2. m = "nx" => z.mx = "nx" /\ ~Delivers(z, host)
    BY <1>1, <1>5 DEF Delivers, MailHosts
  <2>3. m = "fail" => errs
    BY <1>1
  <2> HIDE DEF a, truth
  <2> SUFFICES Shows(a, truth, errs)
    BY DEF a, truth
  <2> QED
    BY <1>2, <1>5, <2>1, <2>2, <2>3 DEF Shows, Answers
<1>6. CASE ~host /\ m = "data"
  <2>1. a = IF z.targets = {} THEN "nodata" ELSE TargetsAnswer({g[h] : h \in z.targets})
    BY <1>6 DEF ResolveName
  <2>2. z.mx = "data" /\ MailHosts(z, host) = z.targets
    BY <1>1, <1>6 DEF MailHosts
  <2>3. \A h \in z.targets : HostSays(g[h], z.addr[h], errs)
    BY <1>1
  <2>4. a \in Answers \ {"nx"}
    BY <2>1, TargetsSay DEF Answers
  <2>5. a = "data" => \E h \in z.targets : g[h] = "data"
    BY <2>1, TargetsSay
  <2>6. a = "fail" => \E h \in z.targets : g[h] = "fail"
    BY <2>1, TargetsSay
  <2>7. a = "nodata" => \A h \in z.targets : g[h] \notin {"data", "none", "fail"}
    BY <2>1, TargetsSay
  <2> HIDE DEF a, truth
  <2> SUFFICES Shows(a, truth, errs)
    BY DEF a, truth
  <2>8. a = "data" => truth = "exists"
    BY <1>2, <2>2, <2>3, <2>5 DEF HostSays, Delivers
  <2>9. a = "nodata" => truth = "broken"
    BY <1>2, <1>3, <1>6, <2>2, <2>3, <2>7 DEF HostSays, Delivers, Answers
  <2>10. a = "fail" => errs
    BY <2>3, <2>6 DEF HostSays
  <2> QED
    BY <2>4, <2>8, <2>9, <2>10 DEF Shows
<1> QED
  BY <1>1, <1>4, <1>5, <1>6

\* The OS resolver.
LEMMA SystemShows ==
  ASSUME NEW z \in Zones, NEW host \in BOOLEAN, NEW errs \in BOOLEAN,
         NEW m, m \in {"none", z.mx} \/ (m = "fail" /\ errs),
         NEW g, DOMAIN g = HostsOf(z), \A h \in HostsOf(z) : HostSays(g[h], z.addr[h], errs)
  PROVE  Shows(SystemResolveName(host, SystemAnswer(m), z.targets, g), Truth(z, host, TRUE), errs)
<1> DEFINE k == IF SystemAnswer(m) = "nx" THEN "nodata" ELSE SystemAnswer(m)
           f == [h \in DOMAIN g |-> SystemAnswer(g[h])]
           a == ResolveName(host, k, z.targets, f)
           truth == Truth(z, host, TRUE)
<1> SUFFICES Shows(a, truth, errs)
  BY DEF SystemResolveName
<1>1. /\ z.mx \in {"data", "nodata", "nx"}
      /\ "name" \in HostsOf(z) /\ z.targets \subseteq HostsOf(z)
      /\ z.mx = "nx" <=> z.addr["name"] = NoName
      /\ z.mx # "data" => z.targets = {}
  BY ZonesOK DEF HostsOf
<1>2. truth = IF Delivers(z, host) THEN "exists"
              ELSE IF host \/ z.mx # "data" THEN "not_found" ELSE "broken"
  BY <1>1, TruthIs
<1>3. NoName[1] = "nx" /\ NoName[2] = "nx"
  BY DEF NoName
<1>4. /\ k = "nodata" => z.mx \in {"nx", "nodata"}
      /\ k = "data" => z.mx = "data"
      /\ k \in {"nodata", "data", "none", "fail"}
      /\ k = "fail" => errs
  BY <1>1 DEF SystemAnswer
<1>5. \A h \in HostsOf(z) : f[h] = SystemAnswer(g[h])
  OBVIOUS
<1>6. ASSUME NEW h \in HostsOf(z)
      PROVE  /\ f[h] \in Answers \ {"nodata"}
             /\ f[h] = "data" => z.addr[h][1] = "data" \/ z.addr[h][2] = "data"
             /\ f[h] = "nx" => z.addr[h][1] # "data" /\ z.addr[h][2] # "data"
             /\ f[h] = "fail" => errs
  BY <1>3, <1>5 DEF HostSays, SystemAnswer, Answers
<1> HIDE DEF k, f, truth
<1>7. CASE host \/ k = "nodata"
  <2>1. a = f["name"]
    BY <1>7 DEF ResolveName
  <2>2. host \/ z.mx = "nodata" => MailHosts(z, host) = {"name"}
    BY DEF MailHosts
  <2>3. ~host /\ z.mx = "nx" => f["name"] # "data" /\ ~Delivers(z, host)
    BY <1>1, <1>3, <1>6 DEF Delivers, MailHosts
  <2>4. host \/ z.mx = "nodata" \/ z.mx = "nx"
    BY <1>4, <1>7
  <2> HIDE DEF a
  <2>5. a \in Answers \ {"nodata"}
    BY <1>1, <1>6, <2>1
  <2>6. a = "data" => truth = "exists"
    BY <1>1, <1>2, <1>6, <2>1, <2>2, <2>3, <2>4 DEF Delivers
  <2>7. a = "nx" => truth = "not_found"
    <3>1. host \/ z.mx # "data"
      BY <2>4
    <3>2. a = "nx" => ~Delivers(z, host)
      BY <1>1, <1>6, <2>1, <2>2, <2>3, <2>4 DEF Delivers
    <3> QED BY <1>2, <3>1, <3>2
  <2>8. a = "fail" => errs
    BY <1>1, <1>6, <2>1
  <2> QED
    BY <2>5, <2>6, <2>7, <2>8 DEF Shows
<1>8. CASE ~host /\ k \in {"none", "fail"}
  <2>1. a = k
    BY <1>8 DEF ResolveName
  <2> HIDE DEF a
  <2> QED
    BY <1>4, <1>8, <2>1 DEF Shows, Answers
<1>9. CASE ~host /\ k = "data"
  <2>1. a = IF z.targets = {} THEN "nodata" ELSE TargetsAnswer({f[h] : h \in z.targets})
    BY <1>9 DEF ResolveName
  <2>2. z.mx = "data" /\ MailHosts(z, host) = z.targets
    BY <1>4, <1>9 DEF MailHosts
  <2>3. a \in Answers \ {"nx"}
    BY <2>1, TargetsSay DEF Answers
  <2>4. a = "data" => \E h \in z.targets : f[h] = "data"
    BY <2>1, TargetsSay
  <2>5. a = "fail" => \E h \in z.targets : f[h] = "fail"
    BY <2>1, TargetsSay
  <2>6. a = "nodata" => \A h \in z.targets : f[h] \notin {"data", "none", "fail"}
    BY <2>1, TargetsSay
  <2> HIDE DEF a
  <2>7. a = "data" => truth = "exists"
    BY <1>1, <1>2, <1>6, <2>2, <2>4 DEF Delivers
  <2>8. a = "nodata" => truth = "broken"
    <3>1. a = "nodata" => \A h \in z.targets : f[h] = "nx"
      BY <1>1, <1>6, <2>6 DEF Answers
    <3>2. a = "nodata" => ~Delivers(z, host)
      BY <1>1, <1>6, <2>2, <3>1 DEF Delivers
    <3> QED BY <1>2, <1>9, <2>2, <3>2
  <2>9. a = "fail" => errs
    BY <1>1, <1>6, <2>5
  <2> QED
    BY <2>3, <2>7, <2>8, <2>9 DEF Shows
<1> QED
  BY <1>4, <1>7, <1>8, <1>9

\* Whatever is lost on the way: an answer of an honest resolver is a fact.
LEMMA HonestShows ==
  ASSUME NEW z \in Zones, NEW host \in BOOLEAN, NEW system \in BOOLEAN, NEW errs \in BOOLEAN,
         NEW a \in Honest(z, host, system, errs)
  PROVE  Shows(a, Truth(z, host, system), errs)
<1> DEFINE said == {g \in [HostsOf(z) -> Answers] : \A h \in HostsOf(z) : g[h] \in HostGets(z, errs)[h]}
           mxs == Gets(FALSE, z.mx, errs)
           S == {SystemAnswer(x) : x \in mxs}
           T == z.targets
           One == {ResolveName(host, m, T, g) : m \in mxs, g \in said}
           Sys == {SystemResolveName(host, m, T, g) : m \in S, g \in said}
<1>1. \A g \in said : DOMAIN g = HostsOf(z) /\ \A h \in HostsOf(z) : HostSays(g[h], z.addr[h], errs)
  BY HostAnswer
<1>2. \A m \in mxs : m \in {"none", z.mx} \/ (m = "fail" /\ errs)
  BY GetsOf, ZonesOK
<1>3. Honest(z, host, system, errs) = IF system THEN Sys ELSE One
  BY DEF Honest
<1> HIDE DEF said, mxs, T, One, Sys
<1>4. CASE ~system
  <2>1. a \in One
    BY <1>3, <1>4
  <2>2. PICK m \in mxs, g \in said : a = ResolveName(host, m, T, g)
    <3>1. a \in {ResolveName(host, m, T, g) : m \in mxs, g \in said}
      BY <2>1 DEF One
    <3> QED BY <3>1
  <2> QED
    BY <1>1, <1>2, <1>4, <2>2, ResolverShows DEF T
<1>5. CASE system
  <2> HIDE DEF S
  <2>1. a \in Sys
    BY <1>3, <1>5
  <2>2. PICK s \in S, g \in said : a = SystemResolveName(host, s, T, g)
    <3>1. a \in {SystemResolveName(host, m, T, g) : m \in S, g \in said}
      BY <2>1 DEF Sys
    <3> QED BY <3>1
  <2>3. PICK m \in mxs : s = SystemAnswer(m)
    BY DEF S
  <2> QED
    BY <1>1, <1>2, <1>5, <2>2, <2>3, SystemShows DEF T
<1> QED
  BY <1>4, <1>5

\* An authoritative server that answers at all says whether the name exists; a
\* lame one says nothing.
ServerSays(a, truth) ==
  /\ a \in {"none", "data", "nx", "fail"}
  /\ a = "data" => truth # "not_found"
  /\ a = "nx" => truth = "not_found"

LEMMA ServerShows ==
  ASSUME NEW z \in Zones, NEW host \in BOOLEAN, NEW errs \in BOOLEAN, NEW s,
         NEW a \in ServerGets(z, host, s, errs)
  PROVE  ServerSays(a, Truth(z, host, FALSE))
<1> DEFINE q == IF host THEN z.addr["name"][1] ELSE z.mx
           R == {[r EXCEPT !.aa = s \notin Lame] : r \in {ReplyFor(q)} \cup ErrorReply(errs)}
           truth == Truth(z, host, FALSE)
<1>1. /\ z.mx \in {"data", "nodata", "nx"}
      /\ z.addr["name"] \in {NoName} \cup {"data", "nodata"} \X {"data", "nodata"}
      /\ z.mx = "nx" <=> z.addr["name"] = NoName
      /\ z.mx # "data" => z.targets = {}
  BY ZonesOK
<1>2. z.addr["name"] = NoName <=> z.addr["name"][1] = "nx"
  BY <1>1 DEF NoName
<1>3. q \in {"data", "nodata", "nx"}
  BY <1>1, <1>2 DEF NoName
<1>4. q = "nx" <=> truth = "not_found"
  <2>1. truth = IF Delivers(z, host) THEN "exists"
                ELSE IF (host /\ z.addr["name"] = NoName) \/ (~host /\ z.mx = "nx") THEN "not_found" ELSE "broken"
    BY TruthIs
  <2>2. q = "nx" => ~Delivers(z, host)
    BY <1>1, <1>2 DEF Delivers, MailHosts, NoName
  <2> QED BY <1>1, <1>2, <2>1, <2>2
<1> HIDE DEF truth
<1>5. PICK x \in Asked(TRUE, R) : a = IF x = "nodata" THEN "data" ELSE x
  BY DEF ServerGets
<1>6. x = "none" \/ \E r \in R : x = LookupType(TRUE, r)
  BY <1>5, AskedOf
<1>7. ASSUME NEW r \in R PROVE LookupType(TRUE, r) \in {"fail", "none", q}
  <2>1. PICK t \in {ReplyFor(q)} \cup ErrorReply(errs) : r = [t EXCEPT !.aa = s \notin Lame]
    OBVIOUS
  <2> HIDE DEF q
  <2>2. t = ReplyFor(q) \/ t = [kind |-> "error", aa |-> TRUE]
    BY <2>1 DEF ErrorReply
  <2>3. r.kind = t.kind
    BY <2>1, <2>2 DEF ReplyFor
  <2>4. t.kind = "error" => LookupType(TRUE, r) = "fail"
    BY <2>3 DEF LookupType
  <2>5. t = ReplyFor(q) => LookupType(TRUE, r) \in {"none", q}
    BY <1>3, <2>3 DEF LookupType, ReplyFor
  <2>6. [kind |-> "error", aa |-> TRUE].kind = "error"
    OBVIOUS
  <2> QED BY <2>2, <2>4, <2>5, <2>6
<1>8. x \in {"fail", "none", q}
  BY <1>6, <1>7
<1> SUFFICES ServerSays(a, truth)
  BY DEF truth
<1> HIDE DEF q, R
<1> QED
  BY <1>3, <1>4, <1>5, <1>8 DEF ServerSays

-----------------------------------------------------------------------------
(* The vote.                                                                  *)

\* What the vote makes of facts, mixed with what wild resolvers say, is evident.
LEMMA VoteEvident ==
  ASSUME NEW truth \in Outcomes, NEW errs \in BOOLEAN, NEW g, NEW A,
         \A r \in DOMAIN g : g[r] \in Answers,
         \A r \in DOMAIN g : r \notin Wild => Shows(g[r], truth, errs),
         \A a \in A : ServerSays(a, truth) \/ a = "none"
  PROVE  LET out == Vote({g[r] : r \in DOMAIN g}, A) IN out = "" \/ out \in Evident(truth, errs, g, A)
<1> DEFINE S == {g[r] : r \in DOMAIN g}
           said == S \intersect Answering
           out == Vote(S, A)
           wild == \E r \in DOMAIN g : r \in Wild /\ g[r] # "none"
           heard == \E r \in DOMAIN g : r \notin Wild /\ g[r] \in Answering
<1>1. /\ said = {} /\ "fail" \notin S => out = ""
      /\ said = {} /\ "fail" \in S => out = "broken"
      /\ said = {"nx"} /\ A \intersect {"data", "nodata"} = {} => out = "not_found"
      /\ said = {"data"} /\ "nx" \notin A => out = "exists"
      /\ ~(said = {} /\ "fail" \notin S) /\ ~(said = {} /\ "fail" \in S)
           /\ ~(said = {"nx"} /\ A \intersect {"data", "nodata"} = {}) /\ ~(said = {"data"} /\ "nx" \notin A)
         => out = "broken"
  BY DEF Vote
<1>2. \A x : x \in S <=> \E r \in DOMAIN g : x = g[r]
  OBVIOUS
<1>3. /\ "data" \in A => truth # "not_found"
      /\ "nx" \in A => truth = "not_found"
      /\ "nodata" \notin A
  BY DEF ServerSays
<1> SUFFICES ASSUME out # "" PROVE out \in Evident(truth, errs, g, A)
  OBVIOUS
<1> HIDE DEF out
<1>4. out \in Outcomes
  BY <1>1 DEF Outcomes
<1>5. ASSUME NEW x \in said, ~wild PROVE (x = "data" => truth = "exists") /\ (x = "nx" => truth = "not_found") /\ (x = "nodata" => truth = "broken")
  <2>1. PICK r \in DOMAIN g : x = g[r]
    BY <1>2
  <2>2. r \notin Wild
    BY <1>5, <2>1 DEF Answering
  <2> QED BY <2>1, <2>2 DEF Shows
<1>6. ASSUME NEW r \in DOMAIN g, r \notin Wild, g[r] \in Answering
      PROVE  /\ g[r] \in said
             /\ (g[r] = "data" => truth = "exists") /\ (g[r] = "nx" => truth = "not_found") /\ (g[r] = "nodata" => truth = "broken")
  BY <1>2, <1>6 DEF Shows
<1>7. out = "not_found" => said = {"nx"} /\ A \intersect {"data", "nodata"} = {}
  BY <1>1
<1>8. out = "exists" => said = {"data"} /\ "nx" \notin A
  BY <1>1
<1>9. ~wild /\ ~errs => out = truth
  <2> SUFFICES ASSUME ~wild, ~errs PROVE out = truth
    OBVIOUS
  <2>1. "fail" \notin S
    <3> SUFFICES ASSUME NEW r \in DOMAIN g, g[r] = "fail" PROVE FALSE
      BY <1>2
    <3>1. r \notin Wild
      OBVIOUS
    <3> QED BY <3>1 DEF Shows
  <2>2. said # {}
    BY <1>1, <2>1
  <2>3. \E x \in {"data", "nx", "nodata"} : said = {x}
    <3>1. \A x \in said : x \in {"data", "nx", "nodata"}
      BY DEF Answering
    <3>2. \A x, y \in said : x = y
      BY <1>5, <3>1
    <3> HIDE DEF said
    <3> QED BY <2>2, <3>1, <3>2
  <2> HIDE DEF said
  <2>4. CASE said = {"data"}
    BY <1>1, <1>3, <1>5, <2>4
  <2>5. CASE said = {"nx"}
    <3>1. truth = "not_found"
      BY <1>5, <2>5
    <3>2. A \intersect {"data", "nodata"} = {}
      BY <1>3, <3>1
    <3> QED BY <1>1, <2>5, <3>1, <3>2
  <2>6. CASE said = {"nodata"}
    <3>1. truth = "broken"
      BY <1>5, <2>6
    <3>2. out = "broken"
      BY <1>1, <2>6
    <3> QED BY <3>1, <3>2
  <2> QED BY <2>3, <2>4, <2>5, <2>6
<1>10. heard \/ ~wild => out \in {truth, "broken"}
  <2>1. heard => out \in {truth, "broken"}
    <3> SUFFICES ASSUME NEW r \in DOMAIN g, r \notin Wild, g[r] \in Answering PROVE out \in {truth, "broken"}
      OBVIOUS
    <3>1. out = "not_found" => g[r] = "nx"
      BY <1>6, <1>7
    <3>2. out = "exists" => g[r] = "data"
      BY <1>6, <1>8
    <3> QED BY <1>4, <1>6, <3>1, <3>2 DEF Outcomes
  <2>2. ~wild => out \in {truth, "broken"}
    <3> HIDE DEF said
    <3> SUFFICES ASSUME ~wild PROVE out \in {truth, "broken"}
      OBVIOUS
    <3>1. out = "not_found" => truth = "not_found"
      BY <1>5, <1>7
    <3>2. out = "exists" => truth = "exists"
      BY <1>5, <1>8
    <3> QED BY <1>4, <3>1, <3>2 DEF Outcomes
  <2> QED BY <2>1, <2>2
<1>11. A \intersect {"nx", "data"} # {} =>
         (out = "not_found" => truth = "not_found") /\ (truth = "not_found" => out # "exists")
  <2>1. ASSUME A \intersect {"nx", "data"} # {}, out = "not_found" PROVE truth = "not_found"
    BY <1>3, <1>7, <2>1
  <2>2. ASSUME A \intersect {"nx", "data"} # {}, truth = "not_found" PROVE out # "exists"
    BY <1>3, <1>8, <2>2
  <2> QED BY <2>1, <2>2
<1> HIDE DEF S, said
<1> QED
  BY <1>4, <1>9, <1>10, <1>11 DEF Evident

\* Whatever a verification meets, it ends without an outcome or with an
\* evident one (check).
LEMMA ChecksAreSound ==
  ASSUME NEW c \in Checks, c.asks => ~c.system, c.out # ""
  PROVE  c.sound
<1>1. PICK q \in Cases : c \in {EndOf(q, v) : v \in Verdicts(q)}
  BY DEF Checks
<1>2. PICK v \in Verdicts(q) : c = EndOf(q, v)
  BY <1>1
<1> DEFINE z == q.z
           host == q.host
           system == q.system
           errs == q.errs
           truth == Truth(z, host, system)
           As == {{"none"}} \cup (IF q.asks THEN AuthAnswers(z, host, errs) ELSE {})
           Gs == Said(z, host, system, errs, q.R)
<1>3. PICK g \in Gs, A \in As : v = Verdict(truth, errs, g, A)
  BY ZenonT(60) DEF Verdicts
<1>0. z \in Zones /\ host \in BOOLEAN /\ system \in BOOLEAN /\ errs \in BOOLEAN /\ q.asks \in BOOLEAN
  BY DEF Cases
<1> HIDE DEF z, host, system, errs
<1>4. truth \in Outcomes
  BY <1>0, TruthIs DEF Outcomes
<1>5. DOMAIN g = q.R /\ \A r \in q.R : g[r] \in Answers /\ (r \notin Wild => g[r] \in Honest(z, host, system, errs))
  <2>1. Resolved[z][<<host, system, errs>>] = Honest(z, host, system, errs)
    BY <1>0 DEF Resolved
  <2> QED BY <2>1 DEF Said
<1>6. \A r \in DOMAIN g : r \notin Wild => Shows(g[r], truth, errs)
  BY <1>0, <1>5, HonestShows
<1>7. q.asks => ~system
  BY <1>2 DEF EndOf, system
<1>8. \A a \in A : ServerSays(a, truth) \/ a = "none"
  <2>1. CASE A = {"none"}
    BY <2>1
  <2>2. CASE q.asks /\ A \in AuthAnswers(z, host, errs)
    <3>1. PICK f \in [Servers -> Answers] : A = {f[s] : s \in Servers} /\ \A s \in Servers : f[s] \in ServerGets(z, host, s, errs)
      BY <2>2 DEF AuthAnswers
    <3>2. system = FALSE
      BY <1>0, <1>7, <2>2
    <3> QED
      BY <1>0, <3>1, <3>2, ServerShows
  <2> QED
    BY <1>3, <2>1, <2>2
<1> HIDE DEF truth
<1>9. LET out == Vote({g[r] : r \in DOMAIN g}, A) IN out = "" \/ out \in Evident(truth, errs, g, A)
  BY <1>0, <1>4, <1>5, <1>6, <1>8, VoteEvident
<1> QED
  BY <1>2, <1>3, <1>9 DEF Verdict, EndOf

-----------------------------------------------------------------------------
(* What is stored, and what the cleanup takes.                                *)

LEMMA SoundStep == IInv /\ VerdictIsTrue /\ [Next]_vars => VerdictIsTrue'
<1> SUFFICES ASSUME IInv, VerdictIsTrue, [Next]_vars, NEW p \in Runs, run'[p].pc = "store"
             PROVE  run'[p].sound
  BY DEF VerdictIsTrue
<1>1. run = [q \in Runs |-> run[q]] /\ \A q \in Runs : IsRun(run[q])
  BY DEF IInv, RunsOK
<1>2. run[p].pc = "store" => run[p].sound
  BY DEF VerdictIsTrue
<1>3. CASE run' = run
  BY <1>2, <1>3
<1>4. ASSUME NEW q \in Runs, NEW r, run' = [run EXCEPT ![q] = r], r.pc # "store" \/ r.sound
      PROVE  run'[p].sound
  BY <1>1, <1>2, <1>4
<1>5. ASSUME NEW q \in Runs, NEW r, IsRun(r), NEW o, Files(q, r, o) PROVE run'[p].sound
  <2> DEFINE s == [r EXCEPT !.pc = "ready", !.n = NoRun.n, !.t = 0, !.out = o, !.asked = FALSE, !.sound = TRUE]
  <2>1. s.pc = "ready"
    BY <1>5 DEF IsRun
  <2>2. run' = [run EXCEPT ![q] = s]
    BY <1>5 DEF Files, Goes
  <2> HIDE DEF s
  <2> QED BY <1>4, <2>1, <2>2
<1>6. IsRun(NoRun) /\ NoRun.pc = "off"
  BY IdleRun DEF NoRun
<1>7. CASE UNCHANGED vars \/ Tick \/ Prune
  BY <1>3, <1>7 DEF vars, Tick, Prune
<1>8. ASSUME NEW q \in Runs, Begin(q) PROVE run'[p].sound
  <2>1. PICK cfg \in {<<TRUE, FALSE>>, <<TRUE, TRUE>>, <<FALSE, FALSE>>} :
          run' = [run EXCEPT ![q] = [NoRun EXCEPT !.pc = "ready", !.live = cfg[1], !.system = cfg[2]]]
    BY <1>8 DEF Begin, Goes
  <2> DEFINE s == [NoRun EXCEPT !.pc = "ready", !.live = cfg[1], !.system = cfg[2]]
  <2>2. s.pc = "ready"
    BY <1>6 DEF IsRun
  <2> HIDE DEF s
  <2>3. run' = [run EXCEPT ![q] = s]
    BY <2>1 DEF s
  <2> QED BY <1>4, <2>2, <2>3
<1>9. ASSUME NEW q \in Runs, End(q) PROVE run'[p].sound
  <2>1. run' = [run EXCEPT ![q] = NoRun]
    BY <1>9 DEF End, Goes
  <2> QED BY <1>4, <1>6, <2>1
<1>10. ASSUME NEW q \in Runs, NEW n \in Notices, Read(q, n) PROVE run'[p].sound
  <2> DEFINE s == [run[q] EXCEPT !.pc = "verify", !.n = n, !.t = now, !.out = ""]
  <2>1. s.pc = "verify"
    BY <1>1 DEF IsRun
  <2>2. Files(q, run[q], FindDNSCheck(FreshRows(q, n))) \/ run' = [run EXCEPT ![q] = s]
    BY <1>10 DEF Read, Goes
  <2> HIDE DEF s
  <2> QED BY <1>1, <1>4, <1>5, <2>1, <2>2
<1>11. ASSUME NEW q \in Runs, NEW n \in Notices, ReadStored(q, n) PROVE run'[p].sound
  BY <1>1, <1>5, <1>11 DEF ReadStored
<1>12. ASSUME NEW q \in Runs, Store(q) \/ StoreFails(q) PROVE run'[p].sound
  BY <1>1, <1>5, <1>12 DEF Store, StoreFails
<1>13. ASSUME NEW q \in Runs, Verify(q) PROVE run'[p].sound
  <2>1. PICK c \in Checks :
          /\ c.system = run[q].system /\ c.asks = (TryDirect(q, run[q].n) /\ c.R # {})
          /\ LET r == [run[q] EXCEPT !.control = {c.R}]
             IN IF ~Applicable(run[q].n, c.host) \/ c.out = "" THEN Files(q, r, StandIn)
                ELSE Goes(q, [r EXCEPT !.pc = "store", !.out = c.out, !.asked = c.asks, !.sound = c.sound])
    BY <1>13 DEF Verify
  <2> DEFINE r == [run[q] EXCEPT !.control = {c.R}]
             s == [r EXCEPT !.pc = "store", !.out = c.out, !.asked = c.asks, !.sound = c.sound]
  <2>2. IsRun(r)
    BY <1>1, SMTT(30) DEF IsRun
  <2>3. s.sound = c.sound
    BY <2>2 DEF IsRun
  <2>4. Files(q, r, StandIn) \/ (run' = [run EXCEPT ![q] = s] /\ c.out # "")
    BY <2>1 DEF Goes
  <2>5. c.asks => ~c.system
    BY <2>1 DEF TryDirect
  <2>6. c.out # "" => c.sound
    BY <2>5, ChecksAreSound
  <2> HIDE DEF r, s
  <2> QED BY <1>4, <1>5, <2>2, <2>3, <2>4, <2>6
<1> QED
  BY <1>7, <1>8, <1>9, <1>10, <1>11, <1>12, <1>13 DEF Next

\* A set of numbers has a least one, so a set of rows has an earliest.
LEMMA LeastNumber ==
  ASSUME NEW T, T \subseteq Nat, T # {}
  PROVE  \E x \in T : \A y \in T : x <= y
<1>1. PICK R : R = OpToRel(<, Nat)
  OBVIOUS
<1>2. IsWellFoundedOn(R, Nat)
  BY <1>1, NatLessThanWellFounded
<1>3. PICK x \in T : \A y \in T : <<y, x>> \notin R
  BY <1>2, WFMin
<1>4. ASSUME NEW y \in T PROVE x <= y
  <2>1. x \in Nat /\ y \in Nat
    OBVIOUS
  <2>2. y < x => <<y, x>> \in R
    BY <1>1, <2>1 DEF OpToRel
  <2>3. ~(y < x)
    BY <1>3, <2>2
  <2> QED BY <2>1, <2>3
<1> QED BY <1>4

LEMMA Earliest ==
  ASSUME IInv, NEW S, S \subseteq Ids, S # {}
  PROVE  \E i \in S : \A j \in S : Before(i, j)
<1> DEFINE Ats == {rows[i].at : i \in S}
<1>1. now \in Nat /\ \A i \in S : rows[i].at \in Nat /\ i \in Nat
  BY Times DEF IInv, RowsOK, Ids
<1>2. PICK t \in Ats : \A u \in Ats : t <= u
  <2>1. Ats \subseteq Nat /\ Ats # {}
    BY <1>1
  <2> HIDE DEF Ats
  <2> QED BY <2>1, LeastNumber
<1> DEFINE Leads == {i \in S : rows[i].at = t}
<1>3. PICK i \in Leads : \A j \in Leads : i <= j
  <2>1. Leads \subseteq Nat /\ Leads # {}
    BY <1>1
  <2> HIDE DEF Leads
  <2> QED BY <2>1, LeastNumber
<1>4. ASSUME NEW j \in S PROVE Before(i, j)
  <2>1. t <= rows[j].at
    BY <1>2
  <2> QED BY <1>1, <1>3, <2>1 DEF Before
<1> QED BY <1>4

\* A row that is too old for the cleanup is too old for every notice kept, and
\* what is left is read as before.
LEMMA PruneKeeps ==
  ASSUME IInv, Prune, NEW n \in Notices, NEW recv \in Retained
  PROVE  StoredOutcome(n, recv, now)' = StoredOutcome(n, recv, now)
<1>1. /\ now \in Nat /\ now' = now /\ ReuseWindow \in Nat /\ MailKeep \in Nat
      /\ \A i \in Ids : rows[i].at \in 0..now
      /\ recv \in 0..now /\ recv + MailKeep >= now
  BY Times DEF Prune, IInv, RowsOK, Retained
<1>2. \A i \in Ids : rows'[i] = IF Outlived(i) THEN NoRow ELSE rows[i]
  BY DEF Prune
<1>3. ASSUME NEW i \in Ids, rows[i].at >= ReuseFrom(recv) PROVE ~Outlived(i)
  BY <1>1, <1>3 DEF Outlived, ReuseFrom
<1>4. ASSUME NEW b PROVE Usable(ReuseFrom(recv), now, b)' = Usable(ReuseFrom(recv), now, b)
  BY <1>1, <1>2, <1>3 DEF Usable, In
<1>5. ASSUME NEW S, S \subseteq Ids, S # {}, \A i \in S : rows'[i] = rows[i]
      PROVE  FindDNSCheck(S)' = FindDNSCheck(S)
  <2> DEFINE Leads(i) == \A j \in S : Before(i, j)
             Next1(i) == \A j \in S : rows'[i].at < rows'[j].at \/ (rows'[i].at = rows'[j].at /\ i <= j)
             e == CHOOSE i \in S : Leads(i)
  <2>1. \A i \in S : Leads(i) <=> Next1(i)
    BY <1>5 DEF Before
  <2>2. FindDNSCheck(S) = rows[e].outcome
    BY DEF FindDNSCheck
  <2>3. FindDNSCheck(S)' = rows'[CHOOSE i \in S : Next1(i)].outcome
    BY DEF FindDNSCheck, Before
  <2>4. e \in S
    BY <1>5, Earliest
  <2> HIDE DEF Leads, Next1
  <2>5. (CHOOSE i \in S : Next1(i)) = e
    BY <2>1 DEF e
  <2> QED
    BY <1>5, <2>2, <2>3, <2>4, <2>5
<1>6. ASSUME NEW b, Usable(ReuseFrom(recv), now, b) # {}
      PROVE  FindDNSCheck(Usable(ReuseFrom(recv), now, b))' = FindDNSCheck(Usable(ReuseFrom(recv), now, b))
  <2>1. PICK S : S = Usable(ReuseFrom(recv), now, b)
    OBVIOUS
  <2>2. S = Usable(ReuseFrom(recv), now, b)'
    BY <1>4, <2>1
  <2>3. S \subseteq Ids /\ \A i \in S : rows'[i] = rows[i]
    BY <1>2, <1>3, <2>1 DEF Usable, In
  <2>4. FindDNSCheck(S)' = FindDNSCheck(S)
    BY <1>5, <1>6, <2>1, <2>3
  <2>5. FindDNSCheck(Usable(ReuseFrom(recv), now, b))' = FindDNSCheck(S)'
    BY <2>2 DEF FindDNSCheck
  <2> QED
    BY <2>1, <2>4, <2>5 DEF FindDNSCheck
<1>7. /\ Usable(ReuseFrom(recv), now, Direct[n])' = Usable(ReuseFrom(recv), now, Direct[n])
      /\ Usable(ReuseFrom(recv), now, FALSE)' = Usable(ReuseFrom(recv), now, FALSE)
  BY <1>4
<1>8. /\ Usable(ReuseFrom(recv), now, Direct[n]) # {} =>
           FindDNSCheck(Usable(ReuseFrom(recv), now, Direct[n]))' = FindDNSCheck(Usable(ReuseFrom(recv), now, Direct[n]))
      /\ Usable(ReuseFrom(recv), now, FALSE) # {} =>
           FindDNSCheck(Usable(ReuseFrom(recv), now, FALSE))' = FindDNSCheck(Usable(ReuseFrom(recv), now, FALSE))
  BY <1>6
<1> QED
  BY <1>7, <1>8 DEF StoredOutcome

\* What a run is about to store about a name is true, for whatever the DNS
\* holds, any number of resolvers and servers, and whatever is lost or lied:
\* silence never decides, errors make it "broken" at worst, and a resolver that
\* says anything decides nothing against an honest one or the authoritative
\* servers (check, resolveName, exchange, vote).
THEOREM VerdictsAreTrue == Spec => []VerdictIsTrue
<1>1. Init => VerdictIsTrue
  <2>1. NoRun.pc = "off"
    BY DEF NoRun
  <2> QED BY <2>1 DEF Init, VerdictIsTrue
<1> QED
  BY <1>1, SoundStep, Start, Step, PTL DEF Spec

\* What the cleanup takes, no notice that is kept would have been filed by, for
\* any periods (pruneDNSChecks, ReuseRange).
THEOREM PruneIsHarmless == Spec => PruneKeepsOutcomes
<1> DEFINE A == Prune => \A n \in Notices, recv \in Retained : StoredOutcome(n, recv, now)' = StoredOutcome(n, recv, now)
<1>1. IInv /\ [Next]_vars => [A]_vars
  BY PruneKeeps
<1> QED
  BY <1>1, Start, Step, PTL DEF Spec, PruneKeepsOutcomes

-----------------------------------------------------------------------------
(* The stored lookups of the sending sources.                                 *)

Lists == {"", "empty", "full", "wide"}
CacheSteps == {"off", "list", "sources", "delete", "read", "lookup", "kept", "store", "again"}
CacheStates ==
  [pc : CacheSteps, name : Names, kinds : SUBSET Kinds, gone : SUBSET Kinds, todo : SUBSET Kinds,
   got : {"", "full", "empty"}, force : BOOLEAN, refused : BOOLEAN, wide : {FALSE}]

\* Types; only the SPF row of an older version is too wide.
SourceTypes ==
  /\ period \in Nat /\ refs \subseteq Kinds /\ torn \in BOOLEAN
  /\ lookups \in [Kinds -> [list : Lists, at : Nat]] /\ cache \in [Caches -> CacheStates]
  /\ \A k \in Kinds : (lookups[k].list = "wide" => k = "spf") /\ (lookups[k].list = "" => lookups[k] = NoLookup)

Storing(p) == cache[p].pc = "store"
Pruned(p)  == cache[p].pc \in {"read", "lookup", "kept", "store", "again"}

\* A run that stores has something to store, and kinds to store it for.
Formed(p) ==
  /\ cache[p].pc # "off" => cache[p].kinds # {}
  /\ cache[p].pc = "kept" => cache[p].got = "empty" /\ cache[p].todo = cache[p].kinds
  /\ Storing(p) => cache[p].todo # {} /\ cache[p].todo \subseteq cache[p].kinds /\ cache[p].got # ""

\* While nothing is torn the references stand as long as a run is at work, and
\* a run that looks up a name has pruned what nothing refers to.
CacheOk(p) ==
  /\ Formed(p)
  /\ cache[p].pc # "off" => cache[p].kinds = KindsOf[cache[p].name] \intersect refs
  /\ cache[p].pc \in {"sources", "delete"} => Stored(Kinds) \ refs \subseteq cache[p].gone
  /\ cache[p].pc = "delete" => cache[p].gone \intersect refs = {}
  /\ Pruned(p) => Stored(Kinds) \subseteq refs
  /\ cache[p].pc \in {"list", "sources", "delete", "read", "lookup"} => ~cache[p].force
  /\ Storing(p) =>
       /\ cache[p].force => cache[p].kinds = {"spf"}
       /\ cache[p].got = "full" => \A k \in cache[p].kinds \ cache[p].todo : lookups[k].list = "full"

\* A run is about to fill k, having filled another kind of the name.
Fills(q, n, k) ==
  /\ Storing(q) /\ cache[q].name = n /\ cache[q].got = "full"
  /\ k \in cache[q].todo /\ cache[q].todo # cache[q].kinds
Empties(q, n, k) == Storing(q) /\ cache[q].name = n /\ cache[q].got = "empty" /\ k \in cache[q].todo

\* A full row beside one that is empty, or about to be, is the work of a run
\* that will fill that one too.
NameOk(n) ==
  \A j, k \in KindsOf[n] :
    /\ lookups[j].list = "full"
    /\ lookups[k].list = "empty" \/ (lookups[k].list = "" /\ \E p \in Caches : Empties(p, n, k))
    => \E q \in Caches : Fills(q, n, k)

CachesInv == \A p \in Caches : CacheOk(p)
NamesInv  == \A n \in Names : NameOk(n)
SourceInv == SourceTypes /\ (\A p \in Caches : Formed(p)) /\ (~torn => CachesInv /\ NamesInv)

-----------------------------------------------------------------------------
(* The rows of a name.                                                       *)

LEMMA KindsAre ==
  ASSUME NEW n \in Names, NEW k \in KindsOf[n]
  PROVE  k \in Kinds
BY DEF Kinds

\* Of the rows of one name there is a latest.
LEMMA LatestIs ==
  ASSUME SourcesAssumption, SourceTypes, NEW n \in Names, NEW S, S \subseteq KindsOf[n], S # {}
  PROVE  Latest(S) \in S
<1> DEFINE Wins(k) == \A j \in S \ {k} :
             lookups[k].at > lookups[j].at \/ (lookups[k].at = lookups[j].at /\ k = FirstKind)
<1>1. PICK k \in KindsOf[n] : KindsOf[n] \subseteq {FirstKind, k}
  BY DEF SourcesAssumption
<1>2. \A x \in S : lookups[x].at \in Nat
  BY KindsAre DEF SourceTypes
<1>3. \E x \in S : Wins(x)
  <2>1. CASE FirstKind \in S /\ k \in S /\ FirstKind # k
    <3>1. CASE lookups[FirstKind].at >= lookups[k].at
      BY <1>1, <1>2, <2>1, <3>1
    <3>2. CASE ~(lookups[FirstKind].at >= lookups[k].at)
      <4>1. lookups[k].at > lookups[FirstKind].at
        BY <1>2, <2>1, <3>2
      <4> QED BY <1>1, <2>1, <4>1
    <3> QED BY <3>1, <3>2
  <2>2. CASE ~(FirstKind \in S /\ k \in S /\ FirstKind # k)
    BY <1>1, <2>2
  <2> QED BY <2>1, <2>2
<1> HIDE DEF Wins
<1>4. Latest(S) = CHOOSE x \in S : Wins(x)
  BY DEF Latest, Wins
<1> QED BY <1>3, <1>4

\* What is kept is the list of a row, and there is one unless nothing is listed.
LEMMA KeptIs ==
  ASSUME SourcesAssumption, SourceTypes, NEW n \in Names, NEW kinds, kinds \subseteq KindsOf[n]
  PROVE  /\ KeptRow(kinds) \in {"", "full", "wide"}
         /\ KeptRow(kinds) = "" => \A k \in kinds : lookups[k].list \in {"", "empty"}
         /\ KeptRow(kinds) = "wide" => kinds = {"spf"} /\ KindsOf[n] = {"spf"}
<1> DEFINE S == {k \in Stored(kinds) : lookups[k].list # "empty"}
<1>1. \A k \in kinds : /\ lookups[k].list \in Lists /\ (lookups[k].list = "wide" => k = "spf")
                       /\ (lookups[k].list = "" <=> lookups[k] = NoLookup)
  <2> SUFFICES ASSUME NEW k \in kinds
               PROVE  /\ lookups[k].list \in Lists /\ (lookups[k].list = "wide" => k = "spf")
                      /\ (lookups[k].list = "" <=> lookups[k] = NoLookup)
    OBVIOUS
  <2>1. k \in Kinds
    BY KindsAre
  <2>2. NoLookup.list = ""
    BY DEF NoLookup
  <2> QED BY <2>1, <2>2 DEF SourceTypes
<1>2. KeptRow(kinds) = IF S = {} THEN "" ELSE lookups[Latest(S)].list
  BY DEF KeptRow
<1>3. CASE S = {}
  <2>1. \A k \in kinds : lookups[k] = NoLookup \/ lookups[k].list = "empty"
    BY <1>3 DEF Stored
  <2> QED BY <1>1, <1>2, <1>3, <2>1
<1>4. CASE S # {}
  <2>1. Latest(S) \in S /\ Latest(S) \in kinds
    <3>1. S \subseteq KindsOf[n] /\ S \subseteq kinds
      BY DEF Stored
    <3> QED BY <1>4, <3>1, LatestIs
  <2>2. lookups[Latest(S)].list \in {"full", "wide"}
    BY <1>1, <2>1 DEF Stored, Lists
  <2>3. lookups[Latest(S)].list = "wide" => kinds = {"spf"} /\ KindsOf[n] = {"spf"}
    <3>1. SUFFICES ASSUME lookups[Latest(S)].list = "wide" PROVE kinds = {"spf"} /\ KindsOf[n] = {"spf"}
      OBVIOUS
    <3>2. "spf" \in kinds
      BY <1>1, <2>1, <3>1
    <3>3. KindsOf[n] = {"spf"}
      BY <3>2 DEF SourcesAssumption
    <3> QED BY <3>2, <3>3
  <2> QED BY <1>2, <1>4, <2>2, <2>3
<1> QED BY <1>3, <1>4

\* A row that is read is that of a kind, or there is none.
LEMMA StoredIs ==
  ASSUME SourcesAssumption, SourceTypes, NEW n \in Names, NEW kinds, kinds \subseteq KindsOf[n],
         StoredRow(kinds, FALSE) = "empty"
  PROVE  \E k \in kinds : lookups[k].list = "empty"
<1> DEFINE S == {k \in Stored(kinds) : FALSE => lookups[k].at = period}
<1>1. StoredRow(kinds, FALSE) = IF S = {} THEN "" ELSE lookups[Latest(S)].list
  BY DEF StoredRow
<1>2. S # {}
  BY <1>1
<1>3. S \subseteq KindsOf[n] /\ S \subseteq kinds
  BY DEF Stored
<1>4. Latest(S) \in S
  BY <1>2, <1>3, LatestIs
<1> QED BY <1>1, <1>2, <1>3, <1>4

\* The rows of a name without storing runs are of one mind.
LEMMA SourcesHaveStayed ==
  ASSUME SourcesAssumption, SourceInv
  PROVE  SourcesStay
<1>1. \A p \in Caches : ~cache[p].wide
  BY DEF SourceInv, SourceTypes, CacheStates
<1>2. ASSUME ~torn, NEW n \in Names, \A p \in Caches : cache[p].name = n => cache[p].pc # "store",
             StoredRow(KindsOf[n] \intersect refs, FALSE) = "empty"
      PROVE  KeptRow(KindsOf[n] \intersect refs) = ""
  <2>1. SourceTypes /\ NameOk(n)
    BY <1>2 DEF SourceInv, NamesInv
  <2>2. PICK k \in KindsOf[n] \intersect refs : lookups[k].list = "empty"
    <3>1. KindsOf[n] \intersect refs \subseteq KindsOf[n]
      OBVIOUS
    <3> QED BY <1>2, <2>1, <3>1, StoredIs
  <2>3. \A j \in KindsOf[n] : lookups[j].list # "full"
    BY <1>2, <2>1, <2>2 DEF NameOk, Fills, Storing
  <2>4. \A j \in KindsOf[n] : lookups[j].list # "wide"
    <3>1. SUFFICES ASSUME NEW j \in KindsOf[n], lookups[j].list = "wide" PROVE FALSE
      OBVIOUS
    <3>2. j = "spf"
      BY <2>1, <3>1, KindsAre DEF SourceTypes
    <3>3. KindsOf[n] = {"spf"}
      BY <3>2 DEF SourcesAssumption
    <3> QED BY <2>2, <3>1, <3>2, <3>3
  <2>5. KeptRow(KindsOf[n] \intersect refs) \notin {"full", "wide"}
    <3> DEFINE K == KindsOf[n] \intersect refs
               S == {j \in Stored(K) : lookups[j].list # "empty"}
    <3>1. KeptRow(K) = IF S = {} THEN "" ELSE lookups[Latest(S)].list
      BY DEF KeptRow
    <3>2. S \subseteq KindsOf[n]
      BY DEF Stored
    <3>3. S # {} => Latest(S) \in KindsOf[n]
      BY <2>1, <3>2, LatestIs
    <3> QED BY <2>3, <2>4, <3>1, <3>3
  <2>6. KindsOf[n] \intersect refs \subseteq KindsOf[n]
    OBVIOUS
  <2> QED BY <2>1, <2>5, <2>6, KeptIs
<1> QED BY <1>1, <1>2 DEF SourcesStay

-----------------------------------------------------------------------------
(* The steps.                                                                *)

LEMMA IdleIs ==
  ASSUME SourcesAssumption
  PROVE  Idle \in CacheStates /\ Idle.pc = "off" /\ \A w \in {FALSE} : [Idle EXCEPT !.wide = w] \in CacheStates
<1>1. (CHOOSE n \in Names : TRUE) \in Names
  BY DEF SourcesAssumption
<1> HIDE DEF SourcesAssumption
<1> QED BY <1>1 DEF Idle, CacheStates, CacheSteps

\* A run that has its result is off; the result is never too wide.
LEMMA UsesIs ==
  ASSUME SourcesAssumption, SourceTypes, NEW p \in Caches, NEW list, list # "wide", Uses(p, list)
  PROVE  /\ cache' \in [Caches -> CacheStates] /\ cache'[p].pc = "off"
         /\ \A q \in Caches \ {p} : cache'[q] = cache[q]
<1> DEFINE r == [Idle EXCEPT !.wide = (list = "wide")]
<1>1. r = [Idle EXCEPT !.wide = FALSE]
  OBVIOUS
<1>2. r \in CacheStates /\ r.pc = "off"
  BY <1>1, IdleIs DEF Idle
<1>3. cache' = [cache EXCEPT ![p] = r]
  BY DEF Uses, CacheGoes
<1> HIDE DEF r
<1> QED BY <1>2, <1>3 DEF SourceTypes

\* What a run does that does not end.
LEMMA GoesIs ==
  ASSUME SourceTypes, NEW p \in Caches, NEW r \in CacheStates, CacheGoes(p, r)
  PROVE  /\ cache' \in [Caches -> CacheStates] /\ cache'[p] = r
         /\ \A q \in Caches \ {p} : cache'[q] = cache[q]
BY DEF CacheGoes, SourceTypes

RunStep(p) ==
  \/ \E n \in Names : NewCache(p, n)
  \/ Discard(p) \/ PruneList(p) \/ PruneSources(p) \/ PruneDelete(p) \/ PruneFails(p) \/ Resolve(p)
  \/ \E got \in {"full", "empty"} : Complete(p, got)
  \/ Incomplete(p) \/ Keep(p) \/ StoreLookup(p) \/ StoreLookupFails(p) \/ Again(p)

\* A store is for one kind; then the run goes on with the next, looks again or
\* is over.
LEMMA ProceedIs ==
  ASSUME SourcesAssumption, SourceTypes, NEW p \in Caches, Storing(p),
         NEW k \in cache[p].todo, NEW refused \in BOOLEAN, Proceed(p, k, refused)
  PROVE  /\ cache' \in [Caches -> CacheStates] /\ \A q \in Caches \ {p} : cache'[q] = cache[q]
         /\ \/ /\ cache[p].todo # {k} /\ cache'[p].pc = "store" /\ cache'[p].name = cache[p].name
               /\ cache'[p].kinds = cache[p].kinds /\ cache'[p].got = cache[p].got
               /\ cache'[p].force = cache[p].force /\ cache'[p].todo = cache[p].todo \ {k}
            \/ /\ cache[p].todo = {k} /\ cache'[p].pc = "again" /\ cache'[p].name = cache[p].name
               /\ cache'[p].kinds = cache[p].kinds
            \/ cache[p].todo = {k} /\ cache'[p].pc = "off"
<1>0. cache[p] \in CacheStates
  BY DEF SourceTypes
<1>1. CASE cache[p].todo # {k}
  <2> DEFINE r == [cache[p] EXCEPT !.todo = @ \ {k}, !.refused = refused]
  <2>1. r \in CacheStates /\ r.pc = "store" /\ r.name = cache[p].name /\ r.kinds = cache[p].kinds
        /\ r.got = cache[p].got /\ r.force = cache[p].force /\ r.todo = cache[p].todo \ {k}
    BY <1>0 DEF CacheStates, CacheSteps, Storing
  <2>2. CacheGoes(p, r)
    BY <1>1 DEF Proceed
  <2> HIDE DEF r
  <2> QED BY <1>1, <2>1, <2>2, GoesIs
<1>2. CASE cache[p].todo = {k} /\ refused /\ cache[p].got = "empty"
  <2> DEFINE r == [cache[p] EXCEPT !.pc = "again", !.todo = {}]
  <2>1. r \in CacheStates /\ r.pc = "again" /\ r.name = cache[p].name /\ r.kinds = cache[p].kinds
    BY <1>0 DEF CacheStates, CacheSteps, Storing
  <2>2. CacheGoes(p, r)
    BY <1>2 DEF Proceed
  <2> HIDE DEF r
  <2> QED BY <1>2, <2>1, <2>2, GoesIs
<1>3. CASE cache[p].todo = {k} /\ ~(refused /\ cache[p].got = "empty")
  <2>1. cache[p].got # "wide" /\ Uses(p, cache[p].got)
    BY <1>0, <1>3 DEF CacheStates, Proceed
  <2> QED BY <1>3, <2>1, UsesIs
<1> QED BY <1>1, <1>2, <1>3

LEMMA FirstOfIs ==
  ASSUME NEW kinds, kinds # {}
  PROVE  FirstOf(kinds) \in kinds
BY DEF FirstOf

\* What a step of a run does to the table of lookups: nothing, or it deletes
\* what nothing refers to, or stores a kind; and what becomes of the run.
Quiet(p) ==
  /\ lookups' = lookups /\ ~Storing(p) /\ cache'[p].pc # "store"
  /\ \/ cache'[p].pc = "off"
     \/ /\ cache[p].pc = "off" /\ cache'[p].pc = "list" /\ cache'[p].kinds # {} /\ ~cache'[p].force
        /\ cache'[p].kinds = KindsOf[cache'[p].name] \intersect refs
     \/ /\ cache'[p].name = cache[p].name /\ cache'[p].kinds = cache[p].kinds /\ cache'[p].force = cache[p].force
        /\ \/ cache[p].pc = "list" /\ cache'[p].pc = "sources" /\ cache'[p].gone = Stored(Kinds)
           \/ cache[p].pc = "sources" /\ cache'[p].pc = "delete" /\ cache'[p].gone = cache[p].gone \ refs
           \/ cache[p].pc = "delete" /\ cache[p].gone = {} /\ cache'[p].pc = "read"
           \/ cache[p].pc \in {"list", "sources"} /\ cache'[p].pc = "read" /\ Stored(Kinds) \subseteq refs
           \/ cache[p].pc = "read" /\ cache'[p].pc = "lookup"
           \/ /\ cache[p].pc = "lookup" /\ cache'[p].pc = "kept"
              /\ cache'[p].got = "empty" /\ cache'[p].todo = cache[p].kinds

Others(p) == cache' \in [Caches -> CacheStates] /\ \A q \in Caches \ {p} : cache'[q] = cache[q]

\* A row that was read is kept: nothing is stored.
KeepsRow(p) ==
  \E read \in SUBSET cache[p].kinds :
    UsableSPF(KeptRow(read)) /\ Uses(p, KeptRow(read)) /\ torn' = torn

LEMMA QuietSteps ==
  ASSUME SourcesAssumption, SourceTypes, NEW p \in Caches,
         \/ PruneList(p) \/ Resolve(p) \/ Complete(p, "empty") \/ Incomplete(p) \/ Again(p)
         \/ Discard(p) /\ ~Storing(p)
         \/ PruneDelete(p) /\ cache[p].gone = {}
         \/ Keep(p) /\ KeepsRow(p)
  PROVE  Quiet(p) /\ Others(p)
<1>0. cache[p] \in CacheStates
  BY DEF SourceTypes
<1>1. ASSUME NEW list, list # "wide", Uses(p, list), lookups' = lookups, ~Storing(p)
      PROVE  Quiet(p) /\ Others(p)
  BY <1>1, UsesIs DEF Quiet, Others
<1>3. CASE PruneList(p)
  <2> DEFINE r == [cache[p] EXCEPT !.pc = "sources", !.gone = Stored(Kinds)]
  <2>1. Stored(Kinds) \subseteq Kinds
    BY DEF Stored
  <2>2. r \in CacheStates /\ r.pc = "sources" /\ r.gone = Stored(Kinds) /\ r.name = cache[p].name
        /\ r.kinds = cache[p].kinds /\ r.force = cache[p].force
    BY <1>0, <2>1 DEF CacheStates, CacheSteps
  <2>3. CacheGoes(p, r) /\ lookups' = lookups /\ cache[p].pc = "list"
    BY <1>3 DEF PruneList
  <2> HIDE DEF r
  <2> QED BY <2>2, <2>3, GoesIs DEF Quiet, Others, Storing
<1>5. CASE Resolve(p)
  <2> DEFINE r == [cache[p] EXCEPT !.pc = "lookup"]
  <2>1. r \in CacheStates /\ r.pc = "lookup" /\ r.name = cache[p].name /\ r.kinds = cache[p].kinds /\ r.force = cache[p].force
    BY <1>0 DEF CacheStates, CacheSteps
  <2>2. lookups' = lookups /\ cache[p].pc = "read"
    BY <1>5 DEF Resolve
  <2>3. PICK read \in SUBSET cache[p].kinds :
             \/ UsableSPF(StoredRow(read, TRUE)) /\ Uses(p, StoredRow(read, TRUE))
             \/ CacheGoes(p, r)
    BY <1>5 DEF Resolve
  <2> HIDE DEF r
  <2>4. CASE CacheGoes(p, r)
    BY <2>1, <2>2, <2>4, GoesIs DEF Quiet, Others, Storing
  <2> QED BY <1>1, <2>2, <2>3, <2>4 DEF UsableSPF, Storing
<1>6. CASE Complete(p, "empty")
  <2> DEFINE r == [cache[p] EXCEPT !.pc = "kept", !.got = "empty", !.todo = cache[p].kinds]
  <2>1. r \in CacheStates /\ r.pc = "kept" /\ r.name = cache[p].name /\ r.kinds = cache[p].kinds /\ r.force = cache[p].force
        /\ r.got = "empty" /\ r.todo = cache[p].kinds
    BY <1>0 DEF CacheStates, CacheSteps
  <2>2. CacheGoes(p, r) /\ lookups' = lookups /\ cache[p].pc = "lookup"
    BY <1>6 DEF Complete
  <2> HIDE DEF r
  <2> QED BY <2>1, <2>2, GoesIs DEF Quiet, Others, Storing
<1>7. CASE Incomplete(p)
  <2>0. PICK read \in SUBSET cache[p].kinds :
             Uses(p, IF UsableSPF(StoredRow(read, FALSE)) THEN StoredRow(read, FALSE) ELSE "incomplete")
    BY <1>7 DEF Incomplete
  <2> DEFINE list == IF UsableSPF(StoredRow(read, FALSE)) THEN StoredRow(read, FALSE) ELSE "incomplete"
  <2>1. list # "wide" /\ Uses(p, list) /\ lookups' = lookups /\ ~Storing(p)
    BY <1>7, <2>0 DEF Incomplete, UsableSPF, Storing
  <2> HIDE DEF list
  <2> QED BY <1>1, <2>1
<1>8. CASE Again(p)
  <2>0. PICK read \in SUBSET cache[p].kinds : Uses(p, IF UsableSPF(KeptRow(read)) THEN KeptRow(read) ELSE cache[p].got)
    BY <1>8 DEF Again
  <2> DEFINE kept == KeptRow(read)
             list == IF UsableSPF(kept) THEN kept ELSE cache[p].got
  <2>1. list # "wide" /\ Uses(p, list) /\ lookups' = lookups /\ ~Storing(p)
    BY <1>0, <1>8, <2>0 DEF Again, UsableSPF, Storing, CacheStates
  <2> HIDE DEF list
  <2> QED BY <1>1, <2>1
<1>9. CASE Discard(p) /\ ~Storing(p)
  <2>1. CacheGoes(p, Idle) /\ lookups' = lookups
    BY <1>9 DEF Discard
  <2> QED BY <1>9, <2>1, IdleIs, GoesIs DEF Quiet, Others
<1>10. CASE PruneDelete(p) /\ cache[p].gone = {}
  <2> DEFINE r == [cache[p] EXCEPT !.pc = "read"]
  <2>1. r \in CacheStates /\ r.pc = "read" /\ r.name = cache[p].name /\ r.kinds = cache[p].kinds /\ r.force = cache[p].force
    BY <1>0 DEF CacheStates, CacheSteps
  <2>2. CacheGoes(p, r) /\ lookups' = lookups /\ cache[p].pc = "delete"
    BY <1>10 DEF PruneDelete
  <2> HIDE DEF r
  <2> QED BY <1>10, <2>1, <2>2, GoesIs DEF Quiet, Others, Storing
<1>11. CASE Keep(p) /\ KeepsRow(p)
  <2>1. PICK read \in SUBSET cache[p].kinds : UsableSPF(KeptRow(read)) /\ Uses(p, KeptRow(read))
    BY <1>11 DEF KeepsRow
  <2>2. lookups' = lookups /\ ~Storing(p)
    BY <1>11 DEF Keep, Storing
  <2> QED BY <1>1, <2>1, <2>2 DEF UsableSPF
<1> QED BY <1>3, <1>5, <1>6, <1>7, <1>8, <1>9, <1>10, <1>11

\* A run that misses a kind, or leaves what nothing refers to, is torn; else it
\* begins and prunes quietly.
LEMMA MissingSteps ==
  ASSUME SourcesAssumption, SourceTypes, NEW p \in Caches, Formed(p),
         (\E n \in Names : NewCache(p, n)) \/ PruneSources(p) \/ PruneFails(p)
  PROVE  /\ Others(p) /\ UNCHANGED <<period, lookups, refs>> /\ torn' \in BOOLEAN /\ Formed(p)'
         /\ ~torn' => ~torn /\ Quiet(p)
<1>0. cache[p] \in CacheStates /\ torn \in BOOLEAN
  BY DEF SourceTypes
<1>1. ASSUME NEW b \in BOOLEAN, torn' = (torn \/ b)
      PROVE  torn' \in BOOLEAN /\ (~torn' => ~torn /\ ~b)
  BY <1>0, <1>1, Zenon
<1>2. ASSUME NEW n \in Names, NewCache(p, n)
      PROVE  /\ Others(p) /\ UNCHANGED <<period, lookups, refs>> /\ torn' \in BOOLEAN /\ Formed(p)'
             /\ ~torn' => ~torn /\ Quiet(p)
  <2>1. PICK missed \in Unread :
          /\ (KindsOf[n] \intersect refs) \ missed # {}
          /\ CacheGoes(p, [Idle EXCEPT !.pc = "list", !.name = n, !.kinds = (KindsOf[n] \intersect refs) \ missed])
          /\ torn' = (torn \/ (KindsOf[n] \intersect refs) \intersect missed # {})
    BY <1>2 DEF NewCache
  <2> DEFINE kinds == (KindsOf[n] \intersect refs) \ missed
             b == (KindsOf[n] \intersect refs) \intersect missed # {}
             r == [Idle EXCEPT !.pc = "list", !.name = n, !.kinds = kinds]
  <2>2. kinds \subseteq Kinds /\ b \in BOOLEAN /\ (~b => kinds = KindsOf[n] \intersect refs)
    BY DEF Kinds
  <2>3. r \in CacheStates /\ r.pc = "list" /\ r.name = n /\ r.kinds = kinds /\ ~r.force
    <3> HIDE DEF kinds
    <3> QED BY <2>2, IdleIs DEF Idle, CacheStates, CacheSteps
  <2>4. CacheGoes(p, r) /\ kinds # {} /\ torn' = (torn \/ b) /\ UNCHANGED <<period, lookups, refs>> /\ cache[p].pc = "off"
    BY <1>2, <2>1 DEF NewCache
  <2> HIDE DEF r, b, kinds
  <2>5. Others(p) /\ cache'[p] = r
    BY <2>3, <2>4, GoesIs DEF Others
  <2>6. Formed(p)'
    BY <2>3, <2>4, <2>5 DEF Formed, Storing
  <2>7. torn' \in BOOLEAN /\ (~torn' => ~torn /\ ~b)
    BY <1>1, <2>2, <2>4
  <2>8. ~b => Quiet(p)
    BY <2>2, <2>3, <2>4, <2>5 DEF Quiet, Storing
  <2> QED BY <2>4, <2>5, <2>6, <2>7, <2>8
<1>3. CASE PruneSources(p)
  <2>1. PICK missed \in Unread :
          /\ CacheGoes(p, [cache[p] EXCEPT !.pc = "delete", !.gone = @ \ (refs \ missed)])
          /\ torn' = (torn \/ cache[p].gone \intersect refs \intersect missed # {})
    BY <1>3 DEF PruneSources
  <2> DEFINE b == cache[p].gone \intersect refs \intersect missed # {}
             gone == cache[p].gone \ (refs \ missed)
             r == [cache[p] EXCEPT !.pc = "delete", !.gone = gone]
  <2>2. gone \subseteq Kinds /\ b \in BOOLEAN /\ (~b => gone = cache[p].gone \ refs)
    BY <1>0 DEF CacheStates
  <2>3. r \in CacheStates /\ r.pc = "delete" /\ r.gone = gone /\ r.name = cache[p].name
        /\ r.kinds = cache[p].kinds /\ r.force = cache[p].force
    <3> HIDE DEF gone
    <3> QED BY <1>0, <2>2 DEF CacheStates, CacheSteps
  <2>4. CacheGoes(p, r) /\ torn' = (torn \/ b) /\ UNCHANGED <<period, lookups, refs>> /\ cache[p].pc = "sources"
    BY <1>3, <2>1 DEF PruneSources
  <2> HIDE DEF r, b, gone
  <2>5. Others(p) /\ cache'[p] = r
    BY <2>3, <2>4, GoesIs DEF Others
  <2>6. Formed(p)'
    BY <2>3, <2>4, <2>5 DEF Formed, Storing
  <2>7. torn' \in BOOLEAN /\ (~torn' => ~torn /\ ~b)
    BY <1>1, <2>2, <2>4
  <2>8. ~b => Quiet(p)
    BY <2>2, <2>3, <2>4, <2>5 DEF Quiet, Storing
  <2> QED BY <2>4, <2>5, <2>6, <2>7, <2>8
<1>4. CASE PruneFails(p) /\ cache[p].pc \in {"list", "sources"}
  <2> DEFINE b == ~(Stored(Kinds) \subseteq refs)
             r == [cache[p] EXCEPT !.pc = "read", !.gone = {}]
  <2>2. b \in BOOLEAN /\ (~b => Stored(Kinds) \subseteq refs)
    OBVIOUS
  <2>3. r \in CacheStates /\ r.pc = "read" /\ r.name = cache[p].name
        /\ r.kinds = cache[p].kinds /\ r.force = cache[p].force
    BY <1>0 DEF CacheStates, CacheSteps
  <2>4. CacheGoes(p, r) /\ torn' = (torn \/ b) /\ UNCHANGED <<period, lookups, refs>>
    BY <1>4 DEF PruneFails
  <2> HIDE DEF r, b
  <2>5. Others(p) /\ cache'[p] = r
    BY <2>3, <2>4, GoesIs DEF Others
  <2>6. Formed(p)'
    BY <1>4, <2>3, <2>4, <2>5 DEF Formed, Storing
  <2>7. torn' \in BOOLEAN /\ (~torn' => ~torn /\ ~b)
    BY <1>1, <2>2, <2>4
  <2>8. ~b => Quiet(p)
    BY <1>4, <2>2, <2>3, <2>4, <2>5 DEF Quiet, Storing
  <2> QED BY <2>4, <2>5, <2>6, <2>7, <2>8
<1>5. CASE PruneFails(p) /\ cache[p].pc = "delete"
  <2>1. PICK k \in cache[p].gone : CacheGoes(p, [cache[p] EXCEPT !.gone = @ \ {k}])
    BY <1>5 DEF PruneFails
  <2> DEFINE r == [cache[p] EXCEPT !.gone = @ \ {k}]
  <2>2. r \in CacheStates /\ r.pc = "delete" /\ r.kinds = cache[p].kinds
    BY <1>0, <1>5 DEF CacheStates, CacheSteps
  <2>3. CacheGoes(p, r) /\ torn' = TRUE /\ UNCHANGED <<period, lookups, refs>>
    BY <1>5, <2>1 DEF PruneFails
  <2> HIDE DEF r
  <2>4. Others(p) /\ cache'[p] = r
    BY <2>2, <2>3, GoesIs DEF Others
  <2>5. Formed(p)'
    BY <1>5, <2>2, <2>4 DEF Formed, Storing
  <2> QED BY <2>3, <2>4, <2>5
<1> QED BY <1>2, <1>3, <1>4, <1>5 DEF PruneFails

\* A quiet step and the sources stand: each run is still all right.
LEMMA QuietKeeps ==
  ASSUME SourcesAssumption, SourceTypes, CachesInv, NamesInv, NEW p \in Caches, Quiet(p), Others(p), refs' = refs
  PROVE  CachesInv' /\ NamesInv'
<1>1. \A q \in Caches \ {p} : CacheOk(q)'
  <2> SUFFICES ASSUME NEW q \in Caches \ {p} PROVE CacheOk(q)'
    OBVIOUS
  <2>1. CacheOk(q) /\ cache'[q] = cache[q] /\ lookups' = lookups /\ Stored(Kinds)' = Stored(Kinds)
    BY DEF CachesInv, Quiet, Others, Stored
  <2> QED BY <2>1 DEF CacheOk, Formed, Storing, Pruned
<1>2. CacheOk(p)'
  <2>0. CacheOk(p) /\ lookups' = lookups /\ Stored(Kinds)' = Stored(Kinds) /\ ~Storing(p)'
    BY DEF CachesInv, Quiet, Stored, Storing
  <2>1. CASE cache'[p].pc = "off" \/ cache'[p].pc = "list"
    BY <2>0, <2>1 DEF Quiet, CacheOk, Formed, Storing, Pruned
  <2>2. CASE cache[p].pc = "list" /\ cache'[p].pc = "sources"
    BY <2>0, <2>2 DEF Quiet, CacheOk, Formed, Storing, Pruned
  <2>3. CASE cache[p].pc = "sources" /\ cache'[p].pc = "delete"
    BY <2>0, <2>3 DEF Quiet, CacheOk, Formed, Storing, Pruned
  <2>4. CASE cache[p].pc = "delete" /\ cache'[p].pc = "read"
    BY <2>0, <2>4 DEF Quiet, CacheOk, Formed, Storing, Pruned
  <2>5. CASE cache[p].pc \in {"read", "lookup"} /\ cache'[p].pc \in {"lookup", "kept"}
    BY <2>0, <2>5 DEF Quiet, CacheOk, Formed, Storing, Pruned
  <2>6. CASE cache[p].pc \in {"list", "sources"} /\ cache'[p].pc = "read" /\ Stored(Kinds) \subseteq refs
    BY <2>0, <2>6 DEF Quiet, CacheOk, Formed, Storing, Pruned
  <2> QED BY <2>1, <2>2, <2>3, <2>4, <2>5, <2>6 DEF Quiet
<1>3. ASSUME NEW n \in Names PROVE NameOk(n)'
  <2>1. \A q \in Caches : \A k : (Empties(q, n, k)' => Empties(q, n, k)) /\ (Fills(q, n, k) => Fills(q, n, k)')
    BY DEF Quiet, Others, Empties, Fills, Storing
  <2>2. lookups' = lookups /\ NameOk(n)
    BY DEF Quiet, NamesInv
  <2> QED BY <2>1, <2>2 DEF NameOk
<1> QED BY <1>1, <1>2, <1>3 DEF CachesInv, NamesInv

\* What nothing refers to is deleted.
LEMMA DeleteIs ==
  ASSUME SourcesAssumption, SourceTypes, NEW p \in Caches, Formed(p), PruneDelete(p), cache[p].gone # {}
  PROVE  \E d \in cache[p].gone :
           /\ Others(p) /\ SourceTypes' /\ Formed(p)'
           /\ cache'[p].pc = "delete" /\ cache'[p].gone = cache[p].gone \ {d} /\ cache'[p].name = cache[p].name
           /\ cache'[p].kinds = cache[p].kinds /\ cache'[p].force = cache[p].force
           /\ d \in Kinds /\ lookups'[d] = NoLookup
           /\ \A k \in Kinds \ {d} : lookups'[k] = lookups[k]
           /\ Stored(Kinds)' = Stored(Kinds) \ {d}
<1>0. cache[p] \in CacheStates /\ cache[p].pc = "delete" /\ UNCHANGED <<period, refs, torn>>
  BY DEF SourceTypes, PruneDelete
<1>1. PICK d \in cache[p].gone : /\ lookups' = [lookups EXCEPT ![d] = NoLookup]
                                 /\ CacheGoes(p, [cache[p] EXCEPT !.gone = @ \ {d}])
  BY DEF PruneDelete
<1>2. d \in Kinds
  BY <1>0 DEF CacheStates
<1>3. Others(p) /\ cache'[p].pc = "delete" /\ cache'[p].gone = cache[p].gone \ {d}
      /\ cache'[p].name = cache[p].name /\ cache'[p].kinds = cache[p].kinds /\ cache'[p].force = cache[p].force
  <2> DEFINE r == [cache[p] EXCEPT !.gone = @ \ {d}]
  <2>1. r \in CacheStates /\ r.pc = "delete" /\ r.gone = cache[p].gone \ {d} /\ r.name = cache[p].name
        /\ r.kinds = cache[p].kinds /\ r.force = cache[p].force
    BY <1>0 DEF CacheStates, CacheSteps
  <2>2. CacheGoes(p, r)
    BY <1>1
  <2> HIDE DEF r
  <2> QED BY <2>1, <2>2, GoesIs DEF Others
<1>4. /\ lookups' \in [Kinds -> [list : Lists, at : Nat]] /\ lookups'[d] = NoLookup
      /\ \A k \in Kinds \ {d} : lookups'[k] = lookups[k]
  <2>1. NoLookup \in [list : Lists, at : Nat]
    BY DEF NoLookup, Lists
  <2> QED BY <1>1, <1>2, <2>1 DEF SourceTypes
<1>5. SourceTypes'
  <2>1. \A k \in Kinds : (lookups'[k].list = "wide" => k = "spf") /\ (lookups'[k].list = "" => lookups'[k] = NoLookup)
    <3>1. NoLookup.list = ""
      BY DEF NoLookup
    <3> QED BY <1>4, <3>1 DEF SourceTypes
  <2>2. NoLookup' = NoLookup
    BY DEF NoLookup
  <2> QED BY <1>0, <1>3, <1>4, <2>1, <2>2 DEF SourceTypes, Others
<1>6. Stored(Kinds)' = Stored(Kinds) \ {d}
  BY <1>4 DEF Stored
<1>7. Formed(p)'
  BY <1>0, <1>3 DEF Formed, Storing
<1> QED BY <1>2, <1>3, <1>4, <1>5, <1>6, <1>7

LEMMA DeleteKeeps ==
  ASSUME SourcesAssumption, SourceTypes, CachesInv, NamesInv, NEW p \in Caches,
         PruneDelete(p), cache[p].gone # {}
  PROVE  CachesInv' /\ NamesInv'
<1>0. cache[p] \in CacheStates /\ CacheOk(p) /\ cache[p].pc = "delete" /\ UNCHANGED <<period, refs, torn>>
  BY DEF SourceTypes, CachesInv, PruneDelete
<1>1. PICK d \in cache[p].gone :
        /\ Others(p)
        /\ cache'[p].pc = "delete" /\ cache'[p].gone = cache[p].gone \ {d} /\ cache'[p].name = cache[p].name
        /\ cache'[p].kinds = cache[p].kinds /\ cache'[p].force = cache[p].force
        /\ d \in Kinds /\ lookups'[d] = NoLookup
        /\ \A k \in Kinds \ {d} : lookups'[k] = lookups[k]
        /\ Stored(Kinds)' = Stored(Kinds) \ {d}
  BY <1>0, DeleteIs DEF CacheOk, Formed
<1>2. d \notin refs
  BY <1>0, <1>1 DEF CacheOk, Formed
<1>7. CachesInv'
  <2>1. ASSUME NEW q \in Caches \ {p} PROVE CacheOk(q)'
    <3>1. CacheOk(q) /\ cache'[q] = cache[q] /\ refs' = refs /\ cache[q] \in CacheStates
      BY <1>0, <1>1 DEF CachesInv, Others, SourceTypes
    <3>2. Storing(q) => \A k \in cache[q].kinds : lookups'[k] = lookups[k]
      <4>1. cache[q].kinds \subseteq Kinds
        BY <3>1 DEF CacheStates
      <4>2. Storing(q) => d \notin cache[q].kinds
        BY <1>2, <3>1 DEF CacheOk, Formed, Storing
      <4> QED BY <1>1, <4>1, <4>2
    <3>3. Formed(q)'
      BY <3>1 DEF CacheOk, Formed, Storing
    <3>4. Stored(Kinds)' \ refs' \subseteq Stored(Kinds) \ refs /\ (Stored(Kinds) \subseteq refs => Stored(Kinds)' \subseteq refs')
      BY <1>1, <3>1
    <3>5. Storing(q) /\ cache[q].got = "full" => \A k \in cache[q].kinds \ cache[q].todo : lookups'[k].list = "full"
      BY <3>1, <3>2 DEF CacheOk
    <3> QED BY <3>1, <3>3, <3>4, <3>5 DEF CacheOk, Storing, Pruned
  <2>2. CacheOk(p)'
    <3>1. Stored(Kinds)' \ refs \subseteq cache'[p].gone
      BY <1>0, <1>1 DEF CacheOk, Formed
    <3> QED BY <1>0, <1>1, <3>1 DEF CacheOk, Formed, Storing, Pruned
  <2> QED BY <2>1, <2>2 DEF CachesInv
<1>8. ASSUME NEW n \in Names PROVE NameOk(n)'
  <2>1. \A q \in Caches : \A k : (Empties(q, n, k)' => Empties(q, n, k)) /\ (Fills(q, n, k) => Fills(q, n, k)')
    BY <1>0, <1>1 DEF Others, Empties, Fills, Storing
  <2>2. NameOk(n) /\ KindsOf[n] \subseteq Kinds
    BY DEF NamesInv, Kinds
  <2>3. \A q \in Caches : ~Empties(q, n, d)
    <3> SUFFICES ASSUME NEW q \in Caches, Empties(q, n, d) PROVE FALSE
      OBVIOUS
    <3>1. CacheOk(q)
      BY DEF CachesInv
    <3> QED BY <1>2, <3>1 DEF CacheOk, Formed, Empties, Storing
  <2>4. NoLookup.list = ""
    BY DEF NoLookup
  <2> QED BY <1>1, <2>1, <2>2, <2>3, <2>4 DEF NameOk
<1> QED BY <1>7, <1>8 DEF NamesInv

\* A complete list is about to be stored.
LEMMA CompleteIs ==
  ASSUME SourceTypes, NEW p \in Caches, Complete(p, "full")
  PROVE  /\ Others(p) /\ cache'[p].pc = "store" /\ cache'[p].got = "full" /\ cache'[p].todo = cache[p].kinds
         /\ cache'[p].name = cache[p].name /\ cache'[p].kinds = cache[p].kinds /\ cache'[p].force = cache[p].force
<1> DEFINE r == [cache[p] EXCEPT !.pc = "store", !.got = "full", !.todo = cache[p].kinds]
<1>1. r \in CacheStates /\ r.pc = "store" /\ r.got = "full" /\ r.todo = cache[p].kinds
      /\ r.name = cache[p].name /\ r.kinds = cache[p].kinds /\ r.force = cache[p].force
  BY DEF CacheStates, CacheSteps, Complete, SourceTypes
<1>2. CacheGoes(p, r)
  BY DEF Complete
<1> HIDE DEF r
<1> QED BY <1>1, <1>2, GoesIs DEF Others

LEMMA CompleteKeeps ==
  ASSUME SourcesAssumption, SourceTypes, CachesInv, NamesInv, NEW p \in Caches, Complete(p, "full")
  PROVE  CachesInv' /\ NamesInv'
<1>0. cache[p] \in CacheStates /\ CacheOk(p) /\ cache[p].pc = "lookup" /\ UNCHANGED <<period, lookups, refs, torn>>
  BY DEF SourceTypes, CachesInv, Complete
<1>1. /\ Others(p) /\ cache'[p].pc = "store" /\ cache'[p].got = "full" /\ cache'[p].todo = cache[p].kinds
      /\ cache'[p].name = cache[p].name /\ cache'[p].kinds = cache[p].kinds /\ cache'[p].force = cache[p].force
  BY CompleteIs
<1>2. Stored(Kinds)' = Stored(Kinds)
  BY <1>0 DEF Stored
<1>3. ASSUME NEW q \in Caches \ {p} PROVE CacheOk(q)'
  <2>1. CacheOk(q) /\ cache'[q] = cache[q]
    BY <1>1 DEF CachesInv, Others
  <2> QED BY <1>0, <1>2, <2>1 DEF CacheOk, Formed, Storing, Pruned
<1>4. CacheOk(p)'
  BY <1>0, <1>1, <1>2 DEF CacheOk, Formed, Storing, Pruned
<1>5. ASSUME NEW n \in Names PROVE NameOk(n)'
  <2>1. \A q \in Caches : \A k : (Empties(q, n, k)' => Empties(q, n, k)) /\ (Fills(q, n, k) => Fills(q, n, k)')
    BY <1>0, <1>1 DEF Others, Empties, Fills, Storing
  <2>2. lookups' = lookups /\ NameOk(n)
    BY <1>0 DEF NamesInv
  <2> QED BY <2>1, <2>2 DEF NameOk
<1> QED BY <1>3, <1>4, <1>5 DEF CachesInv, NamesInv

\* Nothing is about to be stored over rows that list nothing, or over the one
\* that is too wide.
LEMMA KeepIs ==
  ASSUME SourceTypes, NEW p \in Caches, Keep(p), ~KeepsRow(p)
  PROVE  \E read \in SUBSET cache[p].kinds :
           LET kept == KeptRow(read)
           IN /\ Others(p) /\ cache'[p].pc = "store" /\ cache'[p].got = cache[p].got /\ cache'[p].todo = cache[p].todo
              /\ cache'[p].name = cache[p].name /\ cache'[p].kinds = cache[p].kinds
              /\ (cache'[p].force => kept = "wide") /\ ~UsableSPF(kept)
              /\ torn' \in BOOLEAN
              /\ ~torn' => ~torn /\ (Several(cache[p].kinds) => KeptRow(cache[p].kinds) = kept)
<1>1. PICK read \in SUBSET cache[p].kinds :
        /\ ~UsableSPF(KeptRow(read))
        /\ CacheGoes(p, [cache[p] EXCEPT !.pc = "store", !.force = (KeptRow(read) = "wide")])
        /\ torn' = (torn \/ (Several(cache[p].kinds) /\ KeptRow(cache[p].kinds) # KeptRow(read)))
  <2>1. PICK read \in SUBSET cache[p].kinds :
          IF UsableSPF(KeptRow(read)) THEN Uses(p, KeptRow(read)) /\ torn' = torn
          ELSE /\ CacheGoes(p, [cache[p] EXCEPT !.pc = "store", !.force = (KeptRow(read) = "wide")])
               /\ torn' = (torn \/ (Several(cache[p].kinds) /\ KeptRow(cache[p].kinds) # KeptRow(read)))
    BY DEF Keep
  <2> QED BY <2>1 DEF KeepsRow
<1> DEFINE kept == KeptRow(read)
           w == kept = "wide"
           b == Several(cache[p].kinds) /\ KeptRow(cache[p].kinds) # kept
           r == [cache[p] EXCEPT !.pc = "store", !.force = w]
<1>2. w \in BOOLEAN /\ (w => kept = "wide") /\ b \in BOOLEAN
      /\ (~b => (Several(cache[p].kinds) => KeptRow(cache[p].kinds) = kept))
  OBVIOUS
<1>3. cache[p] \in CacheStates /\ torn \in BOOLEAN /\ CacheGoes(p, r) /\ torn' = (torn \/ b) /\ ~UsableSPF(kept)
  BY <1>1 DEF SourceTypes
<1> HIDE DEF w, b
<1>4. r \in CacheStates /\ r.pc = "store" /\ r.got = cache[p].got /\ r.todo = cache[p].todo
      /\ r.name = cache[p].name /\ r.kinds = cache[p].kinds /\ r.force = w
  BY <1>2, <1>3 DEF CacheStates, CacheSteps
<1> HIDE DEF r, kept
<1>5. Others(p) /\ cache'[p] = r
  BY <1>3, <1>4, GoesIs DEF Others
<1>6. torn' \in BOOLEAN /\ (~torn' => ~torn /\ ~b)
  BY <1>2, <1>3, Zenon
<1>7. /\ Others(p) /\ cache'[p].pc = "store" /\ cache'[p].got = cache[p].got /\ cache'[p].todo = cache[p].todo
      /\ cache'[p].name = cache[p].name /\ cache'[p].kinds = cache[p].kinds
      /\ (cache'[p].force => kept = "wide") /\ ~UsableSPF(kept)
      /\ torn' \in BOOLEAN
      /\ ~torn' => ~torn /\ (Several(cache[p].kinds) => KeptRow(cache[p].kinds) = kept)
  BY <1>2, <1>3, <1>4, <1>5, <1>6
<1> QED BY <1>7 DEF kept

LEMMA KeepKeeps ==
  ASSUME SourcesAssumption, SourceTypes, CachesInv, NamesInv, NEW p \in Caches,
         Keep(p), ~KeepsRow(p), ~torn'
  PROVE  CachesInv' /\ NamesInv'
<1>0. cache[p] \in CacheStates /\ CacheOk(p) /\ cache[p].pc = "kept" /\ UNCHANGED <<period, lookups, refs>>
  BY DEF SourceTypes, CachesInv, Keep
<1>a. cache[p].name \in Names /\ cache[p].kinds = KindsOf[cache[p].name] \intersect refs
      /\ cache[p].kinds \subseteq KindsOf[cache[p].name]
  BY <1>0 DEF CacheOk, Formed, CacheStates
<1>c. PICK read \in SUBSET cache[p].kinds :
           /\ Others(p) /\ cache'[p].pc = "store" /\ cache'[p].got = cache[p].got /\ cache'[p].todo = cache[p].todo
           /\ cache'[p].name = cache[p].name /\ cache'[p].kinds = cache[p].kinds
           /\ (cache'[p].force => KeptRow(read) = "wide") /\ ~UsableSPF(KeptRow(read))
           /\ Several(cache[p].kinds) => KeptRow(cache[p].kinds) = KeptRow(read)
  BY KeepIs
<1> DEFINE kept == KeptRow(read)
<1>b. /\ kept \in {"", "wide"}
      /\ kept = "" => ~Several(cache[p].kinds) \/ \A k \in cache[p].kinds : lookups[k].list \in {"", "empty"}
      /\ kept = "wide" => cache[p].kinds = {"spf"} /\ KindsOf[cache[p].name] = {"spf"}
  <2>1. read \subseteq KindsOf[cache[p].name]
    BY <1>a
  <2>2. kept \in {"", "full", "wide"} /\ (kept = "wide" => read = {"spf"} /\ KindsOf[cache[p].name] = {"spf"})
    BY <1>a, <2>1, KeptIs
  <2>3. KeptRow(cache[p].kinds) = "" => \A k \in cache[p].kinds : lookups[k].list \in {"", "empty"}
    BY <1>a, KeptIs
  <2>4. kept = "wide" => cache[p].kinds = {"spf"}
    BY <1>a, <2>2
  <2> HIDE DEF kept
  <2>5. ~UsableSPF(kept) /\ (Several(cache[p].kinds) => KeptRow(cache[p].kinds) = kept)
    BY <1>c DEF kept
  <2> QED BY <2>2, <2>3, <2>4, <2>5 DEF UsableSPF
<1>1. Others(p) /\ cache'[p].pc = "store" /\ cache'[p].got = "empty" /\ cache'[p].todo = cache[p].kinds
      /\ cache'[p].name = cache[p].name /\ cache'[p].kinds = cache[p].kinds
      /\ (cache'[p].force => kept = "wide")
  BY <1>0, <1>c DEF CacheOk, Formed
<1> HIDE DEF kept
<1>2. Stored(Kinds)' = Stored(Kinds)
  BY <1>0 DEF Stored
<1>3. ASSUME NEW q \in Caches \ {p} PROVE CacheOk(q)'
  <2>1. CacheOk(q) /\ cache'[q] = cache[q]
    BY <1>1 DEF CachesInv, Others
  <2> QED BY <1>0, <1>2, <2>1 DEF CacheOk, Formed, Storing, Pruned
<1>4. CacheOk(p)'
  BY <1>0, <1>1, <1>b, <1>2 DEF CacheOk, Formed, Storing, Pruned
<1>5. ASSUME NEW n \in Names PROVE NameOk(n)'
  <2>1. \A q \in Caches : \A k : (Fills(q, n, k) => Fills(q, n, k)') /\ (q # p /\ Empties(q, n, k)' => Empties(q, n, k))
    BY <1>0, <1>1 DEF Others, Empties, Fills, Storing
  <2>2. lookups' = lookups /\ NameOk(n)
    BY <1>0 DEF NamesInv
  <2>3. ASSUME NEW j \in KindsOf[n], NEW k \in KindsOf[n], lookups[j].list = "full", lookups[k].list = "",
               Empties(p, n, k)'
        PROVE  FALSE
    <3>1. n = cache[p].name
      BY <1>1, <2>3 DEF Empties
    <3>2. j \in cache[p].kinds
      <4>1. j \in Stored(Kinds)
        <5>0. NoLookup.list = ""
          BY DEF NoLookup
        <5>1. lookups[j] # NoLookup
          BY <2>3, <5>0
        <5>2. j \in Kinds
          BY KindsAre
        <5> QED BY <5>1, <5>2 DEF Stored
      <4> QED BY <1>0, <1>a, <3>1, <4>1 DEF CacheOk, Formed, Pruned
    <3>3. k \in cache[p].kinds
      BY <1>1, <2>3 DEF Empties
    <3>4. CASE kept = "wide"
      <4>1. j = k
        BY <1>b, <3>2, <3>3, <3>4
      <4> QED BY <2>3, <4>1
    <3>5. CASE kept = ""
      <4>1. ~Several(cache[p].kinds)
        BY <1>b, <2>3, <3>2, <3>5
      <4>2. j = k
        BY <3>2, <3>3, <4>1 DEF Several
      <4> QED BY <2>3, <4>2
    <3> QED BY <1>b, <3>4, <3>5
  <2> QED BY <2>1, <2>2, <2>3 DEF NameOk
<1> QED BY <1>3, <1>4, <1>5 DEF CachesInv, NamesInv

\* A kind of the name is stored, unless a row that lists something is there.
LEMMA StoreIs ==
  ASSUME SourcesAssumption, SourceTypes, NEW p \in Caches, Formed(p), StoreLookup(p)
  PROVE  \E k0 \in cache[p].todo :
           /\ Others(p) /\ SourceTypes' /\ Formed(p)'
           /\ \/ /\ cache[p].todo # {k0} /\ cache'[p].pc = "store" /\ cache'[p].name = cache[p].name
                 /\ cache'[p].kinds = cache[p].kinds /\ cache'[p].got = cache[p].got
                 /\ cache'[p].force = cache[p].force /\ cache'[p].todo = cache[p].todo \ {k0}
              \/ /\ cache[p].todo = {k0} /\ cache'[p].pc = "again" /\ cache'[p].name = cache[p].name
                 /\ cache'[p].kinds = cache[p].kinds
              \/ cache[p].todo = {k0} /\ cache'[p].pc = "off"
           /\ \A k \in Kinds \ {k0} : lookups'[k] = lookups[k]
           /\ Stored(Kinds)' \subseteq Stored(Kinds) \cup {k0}
           /\ \/ /\ lookups'[k0].list = cache[p].got
                 /\ cache[p].force \/ cache[p].got = "full" \/ lookups[k0].list \in {"", "empty"}
              \/ /\ lookups'[k0] = lookups[k0] /\ cache[p].got = "empty"
                 /\ lookups[k0].list \notin {"", "empty"}
<1> DEFINE k0 == FirstOf(cache[p].todo)
<1>0. cache[p] \in CacheStates /\ Storing(p) /\ UNCHANGED <<period, refs, torn>>
  BY DEF SourceTypes, StoreLookup, Storing
<1>b. k0 \in cache[p].todo /\ k0 \in Kinds /\ cache[p].todo \subseteq cache[p].kinds
  BY <1>0, FirstOfIs DEF Formed, CacheStates
<1>c. cache[p].got \in {"full", "empty"}
  BY <1>0 DEF Formed, CacheStates
<1>d. /\ lookups' = IF Writes(k0, cache[p]) THEN [lookups EXCEPT ![k0] = NewRow(cache[p].got)] ELSE lookups
      /\ \E refused \in BOOLEAN : Proceed(p, k0, refused)
  <2>1. cache[p].refused \in BOOLEAN
    BY <1>0 DEF CacheStates
  <2>2. (cache[p].refused \/ ~Writes(k0, cache[p])) \in BOOLEAN
    BY <2>1
  <2> QED BY <2>2 DEF StoreLookup
<1> HIDE DEF k0
<1>1. /\ Others(p)
      /\ \/ /\ cache[p].todo # {k0} /\ cache'[p].pc = "store" /\ cache'[p].name = cache[p].name
            /\ cache'[p].kinds = cache[p].kinds /\ cache'[p].got = cache[p].got
            /\ cache'[p].force = cache[p].force /\ cache'[p].todo = cache[p].todo \ {k0}
         \/ /\ cache[p].todo = {k0} /\ cache'[p].pc = "again" /\ cache'[p].name = cache[p].name
            /\ cache'[p].kinds = cache[p].kinds
         \/ cache[p].todo = {k0} /\ cache'[p].pc = "off"
  BY <1>0, <1>b, <1>d, ProceedIs DEF Others
<1>2. NewRow(cache[p].got) \in [list : {"full", "empty"}, at : Nat] /\ NewRow(cache[p].got).list = cache[p].got
  BY <1>c DEF NewRow, SourceTypes
<1>3. /\ lookups' \in [Kinds -> [list : Lists, at : Nat]]
      /\ \A k \in Kinds \ {k0} : lookups'[k] = lookups[k]
      /\ lookups'[k0] = IF Writes(k0, cache[p]) THEN NewRow(cache[p].got) ELSE lookups[k0]
  <2>1. NewRow(cache[p].got) \in [list : Lists, at : Nat]
    BY <1>2 DEF Lists
  <2> HIDE DEF NewRow
  <2> QED BY <1>b, <1>d, <2>1 DEF SourceTypes
<1>4. \/ lookups'[k0].list = cache[p].got /\ (cache[p].force \/ cache[p].got = "full" \/ lookups[k0].list \in {"", "empty"})
      \/ lookups'[k0] = lookups[k0] /\ cache[p].got = "empty" /\ lookups[k0].list \notin {"", "empty"}
  <2>1. Writes(k0, cache[p]) <=> cache[p].force \/ cache[p].got = "full" \/ lookups[k0].list \in {"", "empty"}
    BY DEF Writes
  <2> QED BY <1>2, <1>3, <2>1, <1>c
<1>5. SourceTypes'
  <2>1. \A k \in Kinds : (lookups'[k].list = "wide" => k = "spf") /\ (lookups'[k].list = "" => lookups'[k] = NoLookup)
    <3>1. CASE Writes(k0, cache[p])
      BY <1>2, <1>3, <3>1 DEF SourceTypes
    <3>2. CASE ~Writes(k0, cache[p])
      BY <1>3, <3>2 DEF SourceTypes
    <3> QED BY <3>1, <3>2
  <2>2. NoLookup' = NoLookup
    BY DEF NoLookup
  <2> QED BY <1>0, <1>1, <1>3, <2>1, <2>2 DEF SourceTypes, Others
<1>6. Stored(Kinds)' \subseteq Stored(Kinds) \cup {k0}
  BY <1>3 DEF Stored, NoLookup
<1>7. Formed(p)'
  BY <1>0, <1>1, <1>b, <1>c DEF Formed, Storing
<1> QED BY <1>b, <1>1, <1>3, <1>4, <1>5, <1>6, <1>7

LEMMA StoreKeeps ==
  ASSUME SourcesAssumption, SourceTypes, CachesInv, NamesInv, NEW p \in Caches, StoreLookup(p)
  PROVE  CachesInv' /\ NamesInv'
<1> DEFINE n0 == cache[p].name
<1>0. cache[p] \in CacheStates /\ CacheOk(p) /\ Storing(p) /\ UNCHANGED <<period, refs, torn>>
  BY DEF SourceTypes, CachesInv, StoreLookup, Storing
<1>1. PICK k0 \in cache[p].todo :
        /\ Others(p)
        /\ \/ /\ cache[p].todo # {k0} /\ cache'[p].pc = "store" /\ cache'[p].name = cache[p].name
              /\ cache'[p].kinds = cache[p].kinds /\ cache'[p].got = cache[p].got
              /\ cache'[p].force = cache[p].force /\ cache'[p].todo = cache[p].todo \ {k0}
           \/ /\ cache[p].todo = {k0} /\ cache'[p].pc = "again" /\ cache'[p].name = cache[p].name
              /\ cache'[p].kinds = cache[p].kinds
           \/ cache[p].todo = {k0} /\ cache'[p].pc = "off"
        /\ \A k \in Kinds \ {k0} : lookups'[k] = lookups[k]
        /\ Stored(Kinds)' \subseteq Stored(Kinds) \cup {k0}
        /\ \/ /\ lookups'[k0].list = cache[p].got
              /\ cache[p].force \/ cache[p].got = "full" \/ lookups[k0].list \in {"", "empty"}
           \/ /\ lookups'[k0] = lookups[k0] /\ cache[p].got = "empty"
              /\ lookups[k0].list \notin {"", "empty"}
  BY <1>0, StoreIs DEF CacheOk, Formed
<1>a. n0 \in Names /\ cache[p].kinds = KindsOf[n0] \intersect refs /\ Stored(Kinds) \subseteq refs
  BY <1>0 DEF CacheOk, Formed, CacheStates, Storing, Pruned
<1>b. k0 \in cache[p].kinds /\ k0 \in KindsOf[n0] /\ k0 \in refs /\ k0 \in Kinds
      /\ cache[p].todo \subseteq cache[p].kinds
  <2>1. cache[p].todo \subseteq cache[p].kinds
    BY <1>0 DEF CacheOk, Formed
  <2> QED BY <1>1, <1>a, <2>1, KindsAre
<1>c. cache[p].got \in {"full", "empty"} /\ (cache[p].force => cache[p].kinds = {"spf"})
  BY <1>0 DEF CacheOk, Formed, CacheStates
<1> HIDE DEF n0
<1>7. CachesInv'
  <2>1. ASSUME NEW q \in Caches \ {p} PROVE CacheOk(q)'
    <3>1. CacheOk(q) /\ cache'[q] = cache[q] /\ cache[q] \in CacheStates /\ refs' = refs
      BY <1>0, <1>1 DEF CachesInv, Others, SourceTypes
    <3>2. Stored(Kinds)' \ refs \subseteq Stored(Kinds) \ refs
      BY <1>b, <1>1
    <3>3. ASSUME Storing(q), cache[q].got = "full", NEW k \in cache[q].kinds \ cache[q].todo
          PROVE  lookups'[k].list = "full"
      <4>1. lookups[k].list = "full" /\ k \in Kinds
        BY <3>1, <3>3 DEF CacheOk, Formed, CacheStates
      <4>2. CASE k # k0
        BY <1>1, <4>1, <4>2
      <4>3. CASE k = k0 /\ cache[p].force
        <5>1. k0 = "spf"
          BY <1>b, <1>c, <4>3
        <5>2. cache[q].name \in Names /\ "spf" \in KindsOf[cache[q].name] /\ cache[q].kinds \subseteq KindsOf[cache[q].name]
          BY <3>1, <3>3, <4>3, <5>1 DEF CacheOk, Formed, CacheStates, Storing
        <5>3. cache[q].kinds \subseteq {"spf"}
          BY <5>2 DEF SourcesAssumption
        <5>4. cache[q].todo # {} /\ cache[q].todo \subseteq cache[q].kinds
          BY <3>1, <3>3 DEF CacheOk, Formed
        <5> QED BY <3>3, <4>3, <5>1, <5>3, <5>4
      <4>4. CASE k = k0 /\ ~cache[p].force
        BY <1>1, <4>1, <4>4
      <4> QED BY <4>2, <4>3, <4>4
    <3> QED BY <3>1, <3>2, <3>3 DEF CacheOk, Formed, Storing, Pruned
  <2>2. CacheOk(p)'
    <3>1. Stored(Kinds)' \subseteq refs
      BY <1>a, <1>b, <1>1
    <3>2. CASE cache'[p].pc = "store"
      <4>1. cache[p].got = "full" => \A k \in cache[p].kinds \ (cache[p].todo \ {k0}) : lookups'[k].list = "full"
        <5> SUFFICES ASSUME cache[p].got = "full", NEW k \in cache[p].kinds \ (cache[p].todo \ {k0})
                     PROVE  lookups'[k].list = "full"
          OBVIOUS
        <5>1. CASE k = k0
          BY <1>1, <5>1
        <5>2. CASE k # k0
          <6>1. k \in Kinds /\ lookups[k].list = "full"
            BY <1>0, <5>2 DEF CacheOk, Formed, CacheStates
          <6> QED BY <1>1, <5>2, <6>1
        <5> QED BY <5>1, <5>2
      <4>2. /\ cache'[p].pc = "store" /\ cache'[p].name = cache[p].name /\ cache'[p].kinds = cache[p].kinds
            /\ cache'[p].got = cache[p].got /\ (cache'[p].force <=> cache[p].force)
            /\ cache'[p].todo = cache[p].todo \ {k0} /\ cache[p].todo # {k0} /\ refs' = refs
        BY <1>0, <1>1, <3>2
      <4>3. Formed(p)'
        <5>1. cache[p].kinds # {} /\ cache[p].todo \ {k0} # {} /\ cache[p].todo \ {k0} \subseteq cache[p].kinds
          BY <1>1, <1>b, <4>2
        <5>2. cache[p].got # ""
          BY <1>c
        <5> QED BY <4>2, <5>1, <5>2 DEF Formed, Storing
      <4>4. cache'[p].kinds = KindsOf[cache'[p].name] \intersect refs'
        BY <1>a, <4>2 DEF n0
      <4>5. Storing(p)' => /\ cache'[p].force => cache'[p].kinds = {"spf"}
                           /\ cache'[p].got = "full" => \A k \in cache'[p].kinds \ cache'[p].todo : lookups'[k].list = "full"
        BY <1>c, <4>1, <4>2
      <4>6. Pruned(p)' => Stored(Kinds)' \subseteq refs'
        BY <3>1, <4>2
      <4> QED BY <4>2, <4>3, <4>4, <4>5, <4>6 DEF CacheOk
    <3>3. CASE cache'[p].pc # "store"
      BY <1>0, <1>1, <1>a, <1>b, <3>1, <3>3 DEF CacheOk, Formed, Storing, Pruned
    <3> QED BY <3>2, <3>3
  <2> QED BY <2>1, <2>2 DEF CachesInv
<1>8. ASSUME NEW n \in Names, NEW j \in KindsOf[n], NEW k \in KindsOf[n], lookups'[j].list = "full",
             lookups'[k].list = "empty" \/ (lookups'[k].list = "" /\ \E q \in Caches : Empties(q, n, k)')
      PROVE  \E q \in Caches : Fills(q, n, k)'
  <2>1. j # k /\ j \in Kinds /\ k \in Kinds /\ NameOk(n)
    BY <1>8, KindsAre DEF NamesInv
  <2>2. \A q \in Caches \ {p} : (Fills(q, n, k) => Fills(q, n, k)') /\ (Empties(q, n, k)' => Empties(q, n, k))
    BY <1>1 DEF Others, Fills, Empties, Storing
  <2>3. Empties(p, n, k)' => Empties(p, n, k) /\ k # k0
    BY <1>0, <1>1 DEF Empties, Storing, n0
  <2>4. CASE k0 \notin KindsOf[n]
    <3>1. lookups'[j] = lookups[j] /\ lookups'[k] = lookups[k] /\ n # n0
      BY <1>1, <1>b, <2>1, <2>4
    <3>2. PICK q \in Caches : Fills(q, n, k)
      BY <1>8, <2>1, <2>2, <2>3, <3>1 DEF NameOk
    <3>3. q # p
      BY <3>1, <3>2 DEF Fills, n0
    <3> QED BY <2>2, <3>2, <3>3
  <2>5. CASE k0 \in KindsOf[n]
    <3>1. n = n0
      BY <1>a, <1>b, <2>5 DEF SourcesAssumption
    <3>2. ~cache[p].force
      BY <1>b, <1>c, <2>1, <2>5 DEF SourcesAssumption
    <3>3. CASE cache[p].got = "full"
      <4>1. lookups'[k0].list = "full" /\ k # k0 /\ lookups'[k] = lookups[k]
        BY <1>1, <1>8, <2>1, <3>3
      <4>2. k \in cache[p].kinds
        <5>1. CASE lookups'[k].list = "empty"
          <6>1. NoLookup.list = ""
            BY DEF NoLookup
          <6>2. k \in Stored(Kinds)
            BY <2>1, <4>1, <5>1, <6>1 DEF Stored
          <6> QED BY <1>a, <3>1, <6>2
        <5>2. ASSUME NEW q \in Caches, Empties(q, n, k)' PROVE k \in cache[p].kinds
          <6>1. Empties(q, n, k)
            BY <2>2, <2>3, <5>2
          <6>2. CacheOk(q)
            BY DEF CachesInv
          <6> QED BY <1>a, <3>1, <6>1, <6>2 DEF Empties, CacheOk, Formed, Storing
        <5> QED BY <1>8, <5>1, <5>2
      <4>3. k \in cache[p].todo
        <5>1. lookups[k].list # "full"
          BY <1>8, <4>1
        <5> QED BY <1>0, <3>3, <4>2, <5>1 DEF CacheOk, Formed
      <4>4. Fills(p, n, k)'
        BY <1>1, <1>b, <3>1, <3>3, <4>1, <4>3 DEF Fills, Storing, n0
      <4> QED BY <4>4
    <3>4. CASE cache[p].got = "empty"
      <4>1. lookups[j].list = "full"
        BY <1>1, <1>8, <2>1, <3>2, <3>4
      <4>2. lookups[k].list = "empty" \/ (lookups[k].list = "" /\ \E q \in Caches : Empties(q, n, k))
        <5>1. CASE k # k0
          BY <1>1, <1>8, <2>1, <2>2, <2>3, <5>1
        <5>2. CASE k = k0
          <6>1. lookups[k].list \in {"", "empty"}
            BY <1>1, <1>8, <3>2, <3>4, <5>2
          <6>2. Empties(p, n, k)
            BY <1>0, <1>b, <3>1, <3>4, <5>2 DEF Empties, n0
          <6> QED BY <6>1, <6>2
        <5> QED BY <5>1, <5>2
      <4>3. PICK q \in Caches : Fills(q, n, k)
        BY <2>1, <4>1, <4>2 DEF NameOk
      <4>4. q # p
        BY <3>4, <4>3 DEF Fills
      <4> QED BY <2>2, <4>3, <4>4
    <3> QED BY <1>c, <3>3, <3>4
  <2> QED BY <2>4, <2>5
<1>9. NamesInv'
  BY <1>8 DEF NamesInv, NameOk
<1> QED BY <1>7, <1>9

\* A run that stops storing before its first kind, or fails on the only one,
\* leaves nothing half done.
LEMMA StopKeeps ==
  ASSUME SourcesAssumption, SourceTypes, CachesInv, NamesInv, NEW p \in Caches, Storing(p),
         Others(p), UNCHANGED <<lookups, refs>>, cache[p].todo = cache[p].kinds,
         \/ cache'[p].pc = "off"
         \/ cache'[p].pc = "again" /\ cache'[p].name = cache[p].name /\ cache'[p].kinds = cache[p].kinds
  PROVE  CachesInv' /\ NamesInv'
<1>1. Stored(Kinds)' = Stored(Kinds)
  BY DEF Stored
<1>2. ASSUME NEW q \in Caches \ {p} PROVE CacheOk(q)'
  <2>1. CacheOk(q) /\ cache'[q] = cache[q]
    BY DEF CachesInv, Others
  <2> QED BY <1>1, <2>1 DEF CacheOk, Formed, Storing, Pruned
<1>3. CacheOk(p)'
  <2>1. CacheOk(p)
    BY DEF CachesInv
  <2> QED BY <1>1, <2>1 DEF CacheOk, Formed, Storing, Pruned
<1>4. ASSUME NEW n \in Names PROVE NameOk(n)'
  <2>1. \A q \in Caches : \A k : (Empties(q, n, k)' => Empties(q, n, k)) /\ (Fills(q, n, k) => Fills(q, n, k)')
    BY DEF Others, Empties, Fills, Storing
  <2>2. NameOk(n)
    BY DEF NamesInv
  <2> QED BY <2>1, <2>2 DEF NameOk
<1> QED BY <1>2, <1>3, <1>4 DEF CachesInv, NamesInv

LEMMA StopIs ==
  ASSUME SourcesAssumption, SourceTypes, ~torn => CachesInv, NEW p \in Caches, Formed(p), Storing(p),
         Discard(p) \/ StoreLookupFails(p)
  PROVE  /\ Others(p) /\ UNCHANGED <<period, lookups, refs>> /\ torn' \in BOOLEAN /\ Formed(p)'
         /\ ~torn' => /\ ~torn /\ cache[p].todo = cache[p].kinds
                      /\ \/ cache'[p].pc = "off"
                         \/ /\ cache'[p].pc = "again" /\ cache'[p].name = cache[p].name
                            /\ cache'[p].kinds = cache[p].kinds
<1>0. (~torn => CacheOk(p)) /\ cache[p] \in CacheStates /\ torn \in BOOLEAN
  BY DEF CachesInv, SourceTypes
<1>1. CASE Discard(p)
  <2> DEFINE b == cache[p].pc = "store" /\ cache[p].todo # cache[p].kinds
  <2>1. torn' = (torn \/ b) /\ CacheGoes(p, Idle) /\ UNCHANGED <<period, lookups, refs>>
    BY <1>1 DEF Discard
  <2>2. b \in BOOLEAN /\ (~b => cache[p].todo = cache[p].kinds)
    BY DEF Storing
  <2> HIDE DEF b
  <2>3. torn' \in BOOLEAN /\ (~torn' => ~torn /\ ~b)
    BY <1>0, <2>1, <2>2
  <2>4. Others(p) /\ cache'[p].pc = "off"
    BY <2>1, IdleIs, GoesIs DEF Others
  <2> QED BY <2>1, <2>2, <2>3, <2>4 DEF Formed, Storing
<1>2. CASE StoreLookupFails(p)
  <2> DEFINE b == Several(cache[p].kinds)
             k == FirstOf(cache[p].todo)
  <2>1. torn' = (torn \/ b) /\ Proceed(p, k, TRUE) /\ UNCHANGED <<period, lookups, refs>>
    BY <1>2 DEF StoreLookupFails
  <2>2. k \in cache[p].todo /\ cache[p].todo \subseteq cache[p].kinds
    BY FirstOfIs DEF Formed
  <2>3. ~b => cache[p].kinds = {k}
    BY <2>2 DEF Several
  <2>4. b \in BOOLEAN
    BY DEF Several
  <2> HIDE DEF b, k
  <2>5. torn' \in BOOLEAN /\ (~torn' => ~torn /\ ~b)
    BY <1>0, <2>1, <2>4
  <2>6. TRUE \in BOOLEAN
    OBVIOUS
  <2>7. Others(p) /\ (cache[p].todo = {k} => \/ cache'[p].pc = "off"
                                            \/ /\ cache'[p].pc = "again" /\ cache'[p].name = cache[p].name
                                               /\ cache'[p].kinds = cache[p].kinds)
    BY <2>1, <2>2, <2>6, ProceedIs DEF Others
  <2>8. ~torn /\ ~b => cache[p].todo = {k}
    BY <2>2, <2>3
  <2>9. Formed(p)'
    <3>1. \/ /\ cache[p].todo # {k} /\ cache'[p].pc = "store" /\ cache'[p].kinds = cache[p].kinds
             /\ cache'[p].got = cache[p].got /\ cache'[p].todo = cache[p].todo \ {k}
          \/ cache'[p].pc = "again" /\ cache'[p].kinds = cache[p].kinds
          \/ cache'[p].pc = "off"
      BY <2>1, <2>2, <2>6, ProceedIs
    <3> QED BY <2>2, <3>1 DEF Formed, Storing
  <2> QED BY <2>1, <2>3, <2>5, <2>7, <2>8, <2>9
<1> QED BY <1>1, <1>2

\* Without the invariant of the runs a step keeps the types.
LEMMA TypesStay ==
  ASSUME SourcesAssumption, SourceTypes, UNCHANGED lookups, cache' \in [Caches -> CacheStates],
         period' \in Nat, refs' \subseteq Kinds, torn' \in BOOLEAN
  PROVE  SourceTypes'
<1>1. NoLookup' = NoLookup
  BY DEF NoLookup
<1> QED BY <1>1 DEF SourceTypes

-----------------------------------------------------------------------------
(* The stored lookups keep the sending sources.                              *)

LEMMA SourcesStart ==
  ASSUME SourcesAssumption, SourcesInit
  PROVE  SourceInv
<1> USE DEF SourcesInit
<1>1. /\ \A k \in Kinds : lookups[k] \in {NoLookup, [list |-> "wide", at |-> 0]} /\ (k # "spf" => lookups[k] = NoLookup)
      /\ lookups \in [Kinds -> [list : Lists, at : Nat]]
  <2>1. NoLookup \in [list : Lists, at : Nat] /\ [list |-> "wide", at |-> 0] \in [list : Lists, at : Nat]
        /\ NoLookup.list = ""
    BY DEF NoLookup, Lists
  <2>2. lookups \in [Kinds -> {NoLookup, [list |-> "wide", at |-> 0]}] /\ \A k \in Kinds : k # "spf" => lookups[k] = NoLookup
    OBVIOUS
  <2> HIDE DEF SourcesInit
  <2>3. \A k \in Kinds : lookups[k] \in {NoLookup, [list |-> "wide", at |-> 0]}
    BY <2>2
  <2> QED BY <2>1, <2>2, <2>3
<1>2. \A k \in Kinds : /\ (lookups[k].list = "wide" => k = "spf") /\ (lookups[k].list = "" => lookups[k] = NoLookup)
                       /\ lookups[k].list # "full"
  <2> DEFINE Wide == [list |-> "wide", at |-> 0]
  <2>1. NoLookup.list = "" /\ Wide.list = "wide"
    BY DEF NoLookup
  <2>2. \A k \in Kinds : lookups[k] \in {NoLookup, Wide} /\ (k # "spf" => lookups[k] = NoLookup)
    BY <1>1
  <2> HIDE DEF Wide, SourcesInit
  <2> QED BY <2>1, <2>2
<1>3. \A p \in Caches : cache[p] = Idle /\ cache[p].pc = "off"
  BY IdleIs
<1>4. SourceTypes
  <2>1. cache \in [Caches -> CacheStates]
    BY IdleIs
  <2> QED BY <1>1, <1>2, <2>1 DEF SourceTypes
<1>5. CachesInv /\ \A p \in Caches : Formed(p)
  BY <1>3 DEF CachesInv, CacheOk, Formed, Storing, Pruned
<1>6. NamesInv
  <2>1. \A k \in Kinds : lookups[k].list # "full"
    BY <1>2
  <2> QED BY <2>1, KindsAre DEF NamesInv, NameOk
<1> QED BY <1>4, <1>5, <1>6 DEF SourceInv

\* A quiet step keeps what a run that stores needs.
LEMMA QuietForms ==
  ASSUME NEW p \in Caches, Quiet(p), Formed(p)
  PROVE  Formed(p)'
BY DEF Quiet, Formed, Storing

LEMMA RunSteps ==
  ASSUME SourcesAssumption, SourceInv, NEW p \in Caches, RunStep(p)
  PROVE  SourceInv'
<1>0. SourceTypes /\ (\A q \in Caches : Formed(q)) /\ (~torn => CachesInv /\ NamesInv) /\ torn \in BOOLEAN
  BY DEF SourceInv, SourceTypes
<1>1. ASSUME Quiet(p), Others(p), UNCHANGED <<period, refs, torn>>
      PROVE  SourceInv'
  <2>1. SourceTypes'
    BY <1>0, <1>1, TypesStay DEF Quiet, Others, SourceTypes
  <2>2. \A q \in Caches : Formed(q)'
    BY <1>0, <1>1, QuietForms DEF Others, Formed, Storing
  <2>3. ~torn => CachesInv' /\ NamesInv'
    BY <1>0, <1>1, QuietKeeps
  <2> QED BY <1>1, <2>1, <2>2, <2>3 DEF SourceInv
<1>2. CASE \/ PruneList(p) \/ Resolve(p) \/ Complete(p, "empty") \/ Incomplete(p) \/ Again(p)
           \/ Discard(p) /\ ~Storing(p)
           \/ PruneDelete(p) /\ cache[p].gone = {}
           \/ Keep(p) /\ KeepsRow(p)
  <2>1. Quiet(p) /\ Others(p)
    BY <1>0, <1>2, QuietSteps
  <2>2. UNCHANGED <<period, refs, torn>>
    <3>1. CASE Discard(p) /\ ~Storing(p)
      <4>1. torn' = (torn \/ FALSE) /\ UNCHANGED <<period, refs>>
        BY <3>1 DEF Discard, Storing
      <4> QED BY <1>0, <4>1
    <3>2. CASE PruneList(p) \/ PruneDelete(p) \/ Complete(p, "empty")
      BY <3>2 DEF PruneList, PruneDelete, Complete
    <3>3. CASE Resolve(p) \/ Incomplete(p) \/ Again(p)
      BY <3>3 DEF Resolve, Incomplete, Again
    <3>4. CASE Keep(p) /\ KeepsRow(p)
      BY <3>4 DEF Keep, KeepsRow
    <3> QED BY <1>2, <3>1, <3>2, <3>3, <3>4
  <2> QED BY <1>1, <2>1, <2>2
<1>3. CASE PruneDelete(p) /\ cache[p].gone # {}
  <2>1. Others(p) /\ SourceTypes' /\ Formed(p)'
    BY <1>0, <1>3, DeleteIs
  <2>2. \A q \in Caches : Formed(q)'
    BY <1>0, <2>1 DEF Others, Formed, Storing
  <2>3. ~torn => CachesInv' /\ NamesInv'
    BY <1>0, <1>3, DeleteKeeps
  <2>4. torn' = torn
    BY <1>3 DEF PruneDelete
  <2> QED BY <2>1, <2>2, <2>3, <2>4 DEF SourceInv
<1>4. CASE Complete(p, "full")
  <2>1. /\ Others(p) /\ cache'[p].pc = "store" /\ cache'[p].got = "full" /\ cache'[p].todo = cache[p].kinds
        /\ cache'[p].kinds = cache[p].kinds
    BY <1>0, <1>4, CompleteIs
  <2>2. UNCHANGED <<period, lookups, refs, torn>> /\ cache[p].pc = "lookup"
    BY <1>4 DEF Complete
  <2>3. \A q \in Caches : Formed(q)'
    BY <1>0, <2>1, <2>2 DEF Others, Formed, Storing
  <2>4. SourceTypes'
    BY <1>0, <2>1, <2>2, TypesStay DEF Others, SourceTypes
  <2>5. ~torn => CachesInv' /\ NamesInv'
    BY <1>0, <1>4, CompleteKeeps
  <2> QED BY <2>2, <2>3, <2>4, <2>5 DEF SourceInv
<1>5. CASE Keep(p) /\ ~KeepsRow(p)
  <2>1. /\ Others(p) /\ cache'[p].pc = "store" /\ cache'[p].got = cache[p].got /\ cache'[p].todo = cache[p].todo
        /\ cache'[p].kinds = cache[p].kinds /\ torn' \in BOOLEAN /\ (~torn' => ~torn)
    BY <1>0, <1>5, KeepIs
  <2>2. UNCHANGED <<period, lookups, refs>> /\ cache[p].pc = "kept"
    BY <1>5 DEF Keep
  <2>3. \A q \in Caches : Formed(q)'
    BY <1>0, <2>1, <2>2 DEF Others, Formed, Storing
  <2>4. SourceTypes'
    BY <1>0, <2>1, <2>2, TypesStay DEF Others, SourceTypes
  <2>5. ~torn' => CachesInv' /\ NamesInv'
    BY <1>0, <1>5, <2>1, KeepKeeps
  <2> QED BY <2>3, <2>4, <2>5 DEF SourceInv
<1>6. CASE StoreLookup(p)
  <2>1. Others(p) /\ SourceTypes' /\ Formed(p)'
    BY <1>0, <1>6, StoreIs
  <2>2. \A q \in Caches : Formed(q)'
    BY <1>0, <2>1 DEF Others, Formed, Storing
  <2>3. ~torn => CachesInv' /\ NamesInv'
    BY <1>0, <1>6, StoreKeeps
  <2>4. torn' = torn
    BY <1>6 DEF StoreLookup
  <2> QED BY <2>1, <2>2, <2>3, <2>4 DEF SourceInv
<1>7. CASE (Discard(p) /\ Storing(p)) \/ StoreLookupFails(p)
  <2>0. Storing(p)
    BY <1>7 DEF StoreLookupFails, Storing
  <2>1. Others(p) /\ UNCHANGED <<period, lookups, refs>> /\ torn' \in BOOLEAN /\ Formed(p)' /\ (~torn' => ~torn)
    BY <1>0, <1>7, <2>0, StopIs
  <2>2. \A q \in Caches : Formed(q)'
    BY <1>0, <2>1 DEF Others, Formed, Storing
  <2>3. SourceTypes'
    BY <1>0, <2>1, TypesStay DEF Others, SourceTypes
  <2>4. ~torn' => CachesInv' /\ NamesInv'
    BY <1>0, <1>7, <2>0, StopIs, StopKeeps
  <2> QED BY <2>2, <2>3, <2>4 DEF SourceInv
<1>8. CASE (\E n \in Names : NewCache(p, n)) \/ PruneSources(p) \/ PruneFails(p)
  <2>1. /\ Others(p) /\ UNCHANGED <<period, lookups, refs>> /\ torn' \in BOOLEAN /\ Formed(p)'
        /\ ~torn' => ~torn /\ Quiet(p)
    BY <1>0, <1>8, MissingSteps
  <2>2. \A q \in Caches : Formed(q)'
    BY <1>0, <2>1 DEF Others, Formed, Storing
  <2>3. SourceTypes'
    BY <1>0, <2>1, TypesStay DEF Others, SourceTypes
  <2>4. ~torn' => CachesInv' /\ NamesInv'
    BY <1>0, <2>1, QuietKeeps
  <2> QED BY <2>2, <2>3, <2>4 DEF SourceInv
<1> QED BY <1>2, <1>3, <1>4, <1>5, <1>6, <1>7, <1>8 DEF RunStep

LEMMA NamesStay ==
  ASSUME NamesInv, UNCHANGED <<lookups, cache>>
  PROVE  NamesInv'
<1> SUFFICES ASSUME NEW n \in Names PROVE NameOk(n)'
  BY DEF NamesInv
<1>1. \A q \in Caches : \A k : (Empties(q, n, k)' => Empties(q, n, k)) /\ (Fills(q, n, k) => Fills(q, n, k)')
  BY DEF Fills, Empties, Storing
<1> QED BY <1>1 DEF NamesInv, NameOk

LEMMA SourcesStep ==
  ASSUME SourcesAssumption, SourceInv, [SourcesNext]_sourcesVars
  PROVE  SourceInv'
<1>0. SourceTypes /\ (\A q \in Caches : Formed(q)) /\ (~torn => CachesInv /\ NamesInv) /\ torn \in BOOLEAN
  BY DEF SourceInv, SourceTypes
<1>1. CASE \E p \in Caches : RunStep(p)
  BY <1>1, RunSteps
<1>2. CASE TimePasses \/ UNCHANGED sourcesVars
  <2>1. UNCHANGED <<lookups, refs, cache, torn>> /\ period' \in Nat
    <3>1. period \in Nat
      BY <1>0 DEF SourceTypes
    <3>2. CASE TimePasses
      BY <3>1, <3>2 DEF TimePasses
    <3>3. CASE UNCHANGED sourcesVars
      BY <3>1, <3>3 DEF sourcesVars
    <3> QED BY <1>2, <3>2, <3>3
  <2>2. SourceTypes'
    BY <1>0, <2>1, TypesStay DEF SourceTypes
  <2>3. (\A q \in Caches : Formed(q)') /\ Stored(Kinds)' = Stored(Kinds)
    BY <1>0, <2>1 DEF Formed, Storing, Stored
  <2>4. ~torn => CachesInv'
    BY <1>0, <2>1, <2>3 DEF CachesInv, CacheOk, Storing, Pruned
  <2>5. ~torn => NamesInv'
    BY <1>0, <2>1, NamesStay
  <2> QED BY <2>1, <2>2, <2>3, <2>4, <2>5 DEF SourceInv
<1>3. CASE Refer
  <2> DEFINE b == \E p \in Caches : cache[p].pc # "off"
  <2>1. torn' = (torn \/ b) /\ UNCHANGED <<period, lookups, cache>> /\ refs' \subseteq Kinds
    BY <1>0, <1>3 DEF Refer, SourceTypes
  <2>2. b \in BOOLEAN /\ (~b => \A p \in Caches : cache'[p].pc = "off")
    BY <2>1
  <2>3. \A q \in Caches : Formed(q)'
    BY <1>0, <2>1 DEF Formed, Storing
  <2> HIDE DEF b
  <2>4. torn' \in BOOLEAN /\ (~torn' => ~torn /\ ~b)
    BY <1>0, <2>1, <2>2
  <2>5. SourceTypes'
    BY <1>0, <2>1, <2>4, TypesStay DEF SourceTypes
  <2>6. ~torn' => CachesInv'
    BY <2>2, <2>3, <2>4 DEF CachesInv, CacheOk, Storing, Pruned
  <2>7. ~torn' => NamesInv'
    BY <1>0, <2>1, <2>4, NamesStay
  <2> QED BY <2>3, <2>5, <2>6, <2>7 DEF SourceInv
<1> QED BY <1>1, <1>2, <1>3 DEF SourcesNext, RunStep

\* An empty answer never takes sending sources away, for any kinds of source,
\* any number of runs that store at once, whatever is pruned in between and
\* whichever reads fail that hide no kind of the name (sourceCache, keptRow,
\* ReplaceSendingSourceLookup).
THEOREM SourcesStayStored == ASSUME SourcesAssumption PROVE SourcesSpec => []SourcesStay
<1>1. SourceInv => SourcesStay
  BY SourcesHaveStayed
<1> QED BY SourcesStart, SourcesStep, <1>1, PTL DEF SourcesSpec

-----------------------------------------------------------------------------
(* Tables of rules.                                                           *)

LEMMA FirstIs ==
  ASSUME NEW table, IsList(table), Hits(table) # {}
  PROVE  \E i \in Hits(table) : First(table) = table[i] /\ \A j \in Hits(table) : i <= j
<1>1. Hits(table) \subseteq Nat
  BY DEF Hits, IsList
<1>2. \E i \in Hits(table) : \A j \in Hits(table) : i <= j
  BY <1>1, LeastNumber
<1> QED BY <1>2 DEF First

\* The first row of a table whose rows come in two parts.
LEMMA FirstOfTwo ==
  ASSUME NEW X, NEW s \in Seq(X), NEW t \in Seq(X)
  PROVE  /\ s \o t \in Seq(X)
         /\ Hits(s \o t) # {} <=> Hits(s) # {} \/ Hits(t) # {}
         /\ Hits(s) # {} => First(s \o t) = First(s)
         /\ Hits(s) = {} /\ Hits(t) # {} => First(s \o t) = First(t)
<1> DEFINE u == s \o t
<1>1. /\ u \in Seq(X) /\ Len(s) \in Nat /\ Len(t) \in Nat /\ Len(u) = Len(s) + Len(t)
      /\ DOMAIN s = 1..Len(s) /\ DOMAIN t = 1..Len(t) /\ DOMAIN u = 1..Len(u)
  OBVIOUS
<1>2. \A i \in 1..Len(s) : u[i] = s[i]
  OBVIOUS
<1>3. \A i \in 1..Len(t) : u[Len(s) + i] = t[i]
  OBVIOUS
<1> HIDE DEF u
<1>4. \A i \in Hits(s) : i \in Hits(u)
  BY <1>1, <1>2 DEF Hits
<1>5. \A i \in Hits(t) : Len(s) + i \in Hits(u)
  BY <1>1, <1>3 DEF Hits
<1>6. ASSUME NEW i \in Hits(u) PROVE \/ i \in Hits(s)
                                     \/ i > Len(s) /\ i - Len(s) \in Hits(t) /\ u[i] = t[i - Len(s)]
  <2>1. i \in 1..Len(u) /\ u[i].when
    BY <1>1 DEF Hits
  <2>2. CASE i <= Len(s)
    BY <1>1, <1>2, <2>1, <2>2 DEF Hits
  <2>3. CASE i > Len(s)
    <3>1. i - Len(s) \in 1..Len(t) /\ u[i] = t[i - Len(s)]
      <4>1. i - Len(s) \in 1..Len(t) /\ Len(s) + (i - Len(s)) = i
        BY <1>1, <2>1, <2>3
      <4> QED BY <1>3, <4>1
    <3> QED BY <1>1, <2>1, <2>3, <3>1 DEF Hits
  <2> QED BY <1>1, <2>1, <2>2, <2>3
<1>7. IsList(s) /\ IsList(t) /\ IsList(u)
  BY <1>1 DEF IsList
<1>8. Hits(u) # {} <=> Hits(s) # {} \/ Hits(t) # {}
  BY <1>4, <1>5, <1>6
<1>9. ASSUME Hits(s) # {} PROVE First(u) = First(s)
  <2>1. PICK i \in Hits(s) : First(s) = s[i] /\ \A j \in Hits(s) : i <= j
    BY <1>7, <1>9, FirstIs
  <2>2. PICK k \in Hits(u) : First(u) = u[k] /\ \A j \in Hits(u) : k <= j
    BY <1>7, <1>8, <1>9, FirstIs
  <2>3. i \in 1..Len(s) /\ k \in 1..Len(u)
    BY <1>1 DEF Hits
  <2>4. k <= i
    BY <1>4, <2>2
  <2>5. k \in Hits(s)
    BY <1>1, <1>6, <2>3, <2>4
  <2>6. k = i
    BY <1>1, <2>1, <2>3, <2>4, <2>5
  <2> QED BY <1>2, <2>1, <2>2, <2>3, <2>6
<1>10. ASSUME Hits(s) = {}, Hits(t) # {} PROVE First(u) = First(t)
  <2>1. PICK i \in Hits(t) : First(t) = t[i] /\ \A j \in Hits(t) : i <= j
    BY <1>7, <1>10, FirstIs
  <2>2. PICK k \in Hits(u) : First(u) = u[k] /\ \A j \in Hits(u) : k <= j
    BY <1>7, <1>8, <1>10, FirstIs
  <2>3. i \in 1..Len(t) /\ k \in 1..Len(u)
    BY <1>1 DEF Hits
  <2>4. k <= Len(s) + i
    BY <1>5, <2>2
  <2>5. k - Len(s) \in Hits(t) /\ u[k] = t[k - Len(s)]
    BY <1>6, <1>10
  <2>6. i <= k - Len(s)
    BY <2>1, <2>5
  <2>7. k - Len(s) = i
    BY <1>1, <2>3, <2>4, <2>6
  <2> QED BY <2>1, <2>2, <2>5, <2>7
<1> QED BY <1>1, <1>8, <1>9, <1>10 DEF u

\* The rules of a mail, and those of a bounce, are tables of five parts.
LEMMA FirstOfFive ==
  ASSUME NEW X, NEW a \in Seq(X), NEW b \in Seq(X), NEW c \in Seq(X), NEW d \in Seq(X), NEW e \in Seq(X),
         Hits(e) # {}
  PROVE  LET f == First(a \o b \o c \o d \o e)
         IN \/ Hits(a) # {} /\ f = First(a)
            \/ Hits(a) = {} /\ \/ Hits(b) # {} /\ f = First(b)
                               \/ Hits(c) # {} /\ f = First(c)
                               \/ Hits(d) # {} /\ f = First(d)
                               \/ f = First(e)
<1> DEFINE ab == a \o b
           abc == ab \o c
           abcd == abc \o d
<1>1. /\ ab \in Seq(X)
      /\ (Hits(ab) # {} <=> Hits(a) # {} \/ Hits(b) # {})
      /\ Hits(a) # {} => First(ab) = First(a)
      /\ Hits(a) = {} /\ Hits(b) # {} => First(ab) = First(b)
  BY FirstOfTwo
<1> HIDE DEF ab
<1>2. /\ abc \in Seq(X)
      /\ (Hits(abc) # {} <=> Hits(ab) # {} \/ Hits(c) # {})
      /\ Hits(ab) # {} => First(abc) = First(ab)
      /\ Hits(ab) = {} /\ Hits(c) # {} => First(abc) = First(c)
  BY <1>1, FirstOfTwo
<1> HIDE DEF abc
<1>3. /\ abcd \in Seq(X)
      /\ (Hits(abcd) # {} <=> Hits(abc) # {} \/ Hits(d) # {})
      /\ Hits(abc) # {} => First(abcd) = First(abc)
      /\ Hits(abc) = {} /\ Hits(d) # {} => First(abcd) = First(d)
  BY <1>2, FirstOfTwo
<1> HIDE DEF abcd
<1>4. /\ Hits(abcd) # {} => First(abcd \o e) = First(abcd)
      /\ Hits(abcd) = {} => First(abcd \o e) = First(e)
  BY <1>3, FirstOfTwo
<1> DEFINE f == First(abcd \o e)
<1> HIDE DEF f
<1>5. \/ Hits(a) # {} /\ f = First(a)
      \/ Hits(a) = {} /\ \/ Hits(b) # {} /\ f = First(b)
                         \/ Hits(c) # {} /\ f = First(c)
                         \/ Hits(d) # {} /\ f = First(d)
                         \/ f = First(e)
  BY <1>1, <1>2, <1>3, <1>4 DEF f
<1> QED BY <1>5 DEF f, abcd, abc, ab

\* When the first part takes nothing, the second decides what it takes.
LEMMA SecondOfFive ==
  ASSUME NEW X, NEW a \in Seq(X), NEW b \in Seq(X), NEW c \in Seq(X), NEW d \in Seq(X), NEW e \in Seq(X),
         Hits(a) = {}, Hits(b) # {}
  PROVE  First(a \o b \o c \o d \o e) = First(b)
<1> DEFINE ab == a \o b
           abc == ab \o c
           abcd == abc \o d
<1>1. /\ ab \in Seq(X)
      /\ (Hits(ab) # {} <=> Hits(a) # {} \/ Hits(b) # {})
      /\ Hits(a) # {} => First(ab) = First(a)
      /\ Hits(a) = {} /\ Hits(b) # {} => First(ab) = First(b)
  BY FirstOfTwo
<1> HIDE DEF ab
<1>2. /\ abc \in Seq(X)
      /\ (Hits(abc) # {} <=> Hits(ab) # {} \/ Hits(c) # {})
      /\ Hits(ab) # {} => First(abc) = First(ab)
      /\ Hits(ab) = {} /\ Hits(c) # {} => First(abc) = First(c)
  BY <1>1, FirstOfTwo
<1> HIDE DEF abc
<1>3. /\ abcd \in Seq(X)
      /\ (Hits(abcd) # {} <=> Hits(abc) # {} \/ Hits(d) # {})
      /\ Hits(abc) # {} => First(abcd) = First(abc)
      /\ Hits(abc) = {} /\ Hits(d) # {} => First(abcd) = First(d)
  BY <1>2, FirstOfTwo
<1> HIDE DEF abcd
<1>4. First(abcd \o e) = First(b)
  BY <1>1, <1>2, <1>3, FirstOfTwo
<1> QED BY <1>4 DEF abcd, abc, ab

-----------------------------------------------------------------------------
(* The classification of a mail.                                              *)

\* The rules of a mail are rows of one table.
LEMMA MailTables ==
  ASSUME NEW pm, NEW body, NEW s
  PROVE  \E X : /\ StructuralRules(pm, body, s) \in Seq(X) /\ CertainRules(pm, body) \in Seq(X)
                /\ JunkRules(pm) \in Seq(X) /\ WeakRules(pm, body) \in Seq(X) /\ <<NoRule>> \in Seq(X)
<1> DEFINE A == StructuralRules(pm, body, s)
           B == CertainRules(pm, body)
           C == JunkRules(pm)
           D == WeakRules(pm, body)
           X == {A[i] : i \in 1..5} \cup {B[i] : i \in 1..3} \cup {C[i] : i \in 1..4} \cup {D[i] : i \in 1..5} \cup {NoRule}
<1>2. A \in Seq({A[i] : i \in 1..5})
  BY DEF StructuralRules
<1>3. B \in Seq({B[i] : i \in 1..3})
  BY DEF CertainRules
<1>4. C \in Seq({C[i] : i \in 1..4})
  BY DEF JunkRules
<1>5. D \in Seq({D[i] : i \in 1..5})
  BY DEF WeakRules
<1>6. <<NoRule>> \in Seq({NoRule})
  OBVIOUS
<1> HIDE DEF A, B, C, D
<1>7. A \in Seq(X) /\ B \in Seq(X) /\ C \in Seq(X) /\ D \in Seq(X) /\ <<NoRule>> \in Seq(X)
  BY <1>2, <1>3, <1>4, <1>5, <1>6
<1> QED BY <1>7 DEF A, B, C, D

\* One pass over the table: only mail that shows no sending source is junk as
\* backscatter, and only that comes before what a report of its own says.
LEMMA PassIs ==
  ASSUME NEW pm, NEW body, NEW s
  PROVE  LET row == Pass(pm, body, s)
         IN /\ row.rule = "backscatter" => IsBackscatter(pm, s)
            /\ Blocks(pm) # <<>> => \/ row.kind = "junk" /\ row # NoRule
                                    \/ row.kind = KindFromDeliveryStatus(pm, body) /\ row # NoRule
<1> DEFINE A == StructuralRules(pm, body, s)
           B == CertainRules(pm, body)
           C == JunkRules(pm)
           D == WeakRules(pm, body)
           E == <<NoRule>>
           row == Pass(pm, body, s)
<1>a. /\ IsList(A) /\ DOMAIN A = 1..5
      /\ A[1] = Row("backscatter", "junk", IsBackscatter(pm, s))
      /\ A[2] = Row("dsn_report", KindFromDeliveryStatus(pm, body), pm.ctype = "dsn" \/ Blocks(pm) # <<>>)
      /\ A[3].rule = "dmarc_report" /\ A[4].rule = "fake_notice_link" /\ A[5].rule = "fake_notice_auth"
  <2> HIDE DEF KindFromDeliveryStatus, IsBackscatter
  <2>1. \A r, k, w : Row(r, k, w).rule = r
    BY DEF Row
  <2> QED BY <2>1 DEF StructuralRules, IsList
<1>1. /\ IsList(A) /\ DOMAIN A = 1..5 /\ A[1].rule = "backscatter" /\ A[1].kind = "junk" /\ (A[1].when => IsBackscatter(pm, s))
      /\ A[2].rule = "dsn_report" /\ A[2].kind = KindFromDeliveryStatus(pm, body)
      /\ Blocks(pm) # <<>> => A[2].when
      /\ A[3].rule = "dmarc_report" /\ A[4].rule = "fake_notice_link" /\ A[5].rule = "fake_notice_auth"
  <2> HIDE DEF A
  <2>1. A[1].when = IsBackscatter(pm, s) /\ A[1].rule = "backscatter" /\ A[1].kind = "junk"
    BY <1>a DEF Row
  <2>2. A[2].rule = "dsn_report" /\ A[2].kind = KindFromDeliveryStatus(pm, body)
    BY <1>a DEF Row
  <2>3. ASSUME Blocks(pm) # <<>> PROVE A[2].when
    <3>1. A[2].when = (pm.ctype = "dsn" \/ Blocks(pm) # <<>>)
      BY <1>a DEF Row
    <3> QED BY <2>3, <3>1
  <2> QED BY <1>a, <2>1, <2>2, <2>3
<1>2. IsList(B) /\ \A i \in Hits(B) : B[i].rule # "backscatter"
  BY DEF CertainRules, Row, IsList, Hits
<1>3. IsList(C) /\ \A i \in Hits(C) : C[i].rule # "backscatter"
  BY DEF JunkRules, Row, IsList, Hits
<1>4. IsList(D) /\ \A i \in Hits(D) : D[i].rule # "backscatter"
  BY DEF WeakRules, Row, IsList, Hits
<1>5. IsList(E) /\ Hits(E) = {1} /\ E[1].rule = "" /\ NoRule.rule = ""
  <2>1. NoRule.rule = "" /\ NoRule.when = TRUE
    BY DEF NoRule, Row
  <2> HIDE DEF NoRule
  <2>2. DOMAIN E = 1..1 /\ Len(E) = 1 /\ E[1] = NoRule
    OBVIOUS
  <2> HIDE DEF E
  <2>3. IsList(E)
    BY <2>2 DEF IsList
  <2>4. Hits(E) = {1}
    <3>1. ASSUME NEW i \in DOMAIN E PROVE i = 1 /\ E[i].when = TRUE
      <4>1. i = 1
        BY <2>2
      <4>2. E[i] = NoRule
        BY <2>2, <4>1
      <4> QED BY <2>1, <4>1, <4>2
    <3>2. \A i \in DOMAIN E : E[i].when
      BY <3>1, Zenon
    <3>3. Hits(E) = DOMAIN E
      BY <3>2, Zenon DEF Hits
    <3> QED BY <2>2, <3>3
  <2> QED BY <2>1, <2>2, <2>3, <2>4
<1>6. row = First(A \o B \o C \o D \o E)
  BY DEF Pass
<1>7. PICK X : A \in Seq(X) /\ B \in Seq(X) /\ C \in Seq(X) /\ D \in Seq(X) /\ E \in Seq(X)
  BY MailTables
<1> HIDE DEF A, B, C, D, E, row
<1>8. \/ Hits(A) # {} /\ row = First(A)
      \/ Hits(A) = {} /\ \/ Hits(B) # {} /\ row = First(B)
                         \/ Hits(C) # {} /\ row = First(C)
                         \/ Hits(D) # {} /\ row = First(D)
                         \/ row = First(E)
  <2>1. Hits(E) # {}
    BY <1>5
  <2> DEFINE f == First(A \o B \o C \o D \o E)
  <2>2. \/ Hits(A) # {} /\ f = First(A)
        \/ Hits(A) = {} /\ \/ Hits(B) # {} /\ f = First(B)
                           \/ Hits(C) # {} /\ f = First(C)
                           \/ Hits(D) # {} /\ f = First(D)
                           \/ f = First(E)
    BY SMTT(30), <1>7, <2>1, FirstOfFive
  <2> QED BY <1>6, <2>2
<1>9. CASE Hits(A) # {} /\ row = First(A)
  <2>1. PICK i \in Hits(A) : row = A[i] /\ \A j \in Hits(A) : i <= j
    BY <1>1, <1>9, FirstIs
  <2>2. i \in 1..5 /\ A[i].when
    BY <1>1 DEF Hits
  <2>3. row.rule = "backscatter" => i = 1
    BY <1>1, <2>1, <2>2
  <2>4. row.rule = "backscatter" => IsBackscatter(pm, s)
    BY <1>1, <2>2, <2>3
  <2>5. Blocks(pm) # <<>> => i <= 2
    BY <1>1, <2>1 DEF Hits
  <2>6. Blocks(pm) # <<>> => row = A[1] \/ row = A[2]
    BY <2>1, <2>2, <2>5
  <2>7. A[1] # NoRule /\ A[2] # NoRule
    BY <1>1, <1>5
  <2> QED BY <1>1, <2>4, <2>6, <2>7 DEF row
<1>10. CASE Hits(A) = {} /\ \/ Hits(B) # {} /\ row = First(B)
                            \/ Hits(C) # {} /\ row = First(C)
                            \/ Hits(D) # {} /\ row = First(D)
                            \/ row = First(E)
  <2>1. Blocks(pm) = <<>>
    BY <1>1, <1>10 DEF Hits
  <2>2. row.rule # "backscatter"
    BY <1>2, <1>3, <1>4, <1>5, <1>10, FirstIs
  <2> QED BY <2>1, <2>2 DEF row
<1> QED BY <1>8, <1>9, <1>10

\* The same of a classification, whichever of the passes decides it.
LEMMA ClassifyIs ==
  ASSUME NEW pm, NEW s
  PROVE  /\ Classify(pm, s).rule = "backscatter" => IsBackscatter(pm, s)
         /\ Blocks(pm) # <<>> => \/ Classify(pm, s).kind = "junk"
                                 \/ \E body : Classify(pm, s).kind = KindFromDeliveryStatus(pm, body)
<1>1. ASSUME NEW body
      PROVE  /\ Pass(pm, body, s).rule = "backscatter" => IsBackscatter(pm, s)
             /\ Blocks(pm) # <<>> => \/ Pass(pm, body, s).kind = "junk"
                                     \/ \E text : Pass(pm, body, s).kind = KindFromDeliveryStatus(pm, text)
  BY PassIs
<1>2. \E body : Classify(pm, s) = Pass(pm, body, s)
  BY DEF Classify
<1> QED BY <1>1, <1>2

\* What a run looked up of the sending sources is true, and whole when it says so.
LEMMA ExtrasAre ==
  ASSUME NEW live, NEW extra \in Extras(live)
  PROVE  extra.found \subseteq Looked(live) /\ (extra.complete => extra.found = Looked(live))
<1>1. CASE extra = [found |-> Looked(live), complete |-> TRUE]
  BY <1>1
<1>2. CASE extra \in [found : SUBSET Looked(live), complete : {FALSE}]
  BY <1>2
<1> QED BY <1>1, <1>2 DEF Extras

\* Once all of it is looked up, what is known is ours.
LEMMA OursAre ==
  ASSUME AreSources(sources), NEW live
  PROVE  /\ Known(WithResolved(sources, Looked(live))) = Ours(live)
         /\ Ours(live) = sources.hosts \cup sources.others \cup sources.addrs \cup Looked(live)
         /\ "" \notin Ours(live)
         /\ HasHosts(WithResolved(sources, Looked(live))) => sources.hosts # {}
<1> DEFINE t == WithResolved(sources, Looked(live))
<1>1. t.hosts = sources.hosts /\ t.others = sources.others /\ t.addrs = sources.addrs /\ t.found = Looked(live)
  BY DEF AreSources, WithResolved
<1> HIDE DEF t
<1>2. Ours(live) = sources.hosts \cup sources.others \cup sources.addrs \cup Looked(live)
  BY DEF Ours, Known, AreSources
<1>3. "" \notin Looked(live)
  <2>1. ASSUME NEW h \in HostNames PROVE "" \notin AddrsOf[h]
    BY FilingAssumption DEF HostNames, AreSources
  <2>2. "" \notin SPF
    BY FilingAssumption
  <2>3. "" \notin UNION {AddrsOf[h] : h \in HostNames}
    BY <2>1
  <2>4. "" \notin (IF live THEN SPF ELSE {})
    BY <2>2
  <2> QED BY <2>3, <2>4 DEF Looked
<1>4. "" \notin Ours(live)
  BY <1>2, <1>3, FilingAssumption DEF AreSources
<1> QED BY <1>1, <1>2, <1>4 DEF Known, HasHosts, t

\* Backscatter shows no sending source, whatever there is to be looked up.
LEMMA BackscatterIs ==
  ASSUME AreSources(sources), NEW pm, IsMail(pm), NEW live, NEW extra \in Extras(live),
         ClassifyWithSources(pm, sources, extra).rule = "backscatter"
  PROVE  /\ pm.reporter \notin Ours(live)
         /\ \A h \in UNION {om.hops : om \in pm.orig} : ReceivedSources(h) \intersect Ours(live) = {}
<1> DEFINE t == WithResolved(sources, Looked(live))
<1>1. Known(t) = Ours(live) /\ "" \notin Ours(live)
  BY OursAre
<1>2. ~IsBackscatter(pm, NoSources)
  BY DEF IsBackscatter, HasHosts, NoSources
<1>3. extra.complete /\ ClassifyWithSources(pm, sources, extra) = Classify(pm, WithResolved(sources, extra.found))
  BY <1>2, ClassifyIs DEF ClassifyWithSources
<1>4. ClassifyWithSources(pm, sources, extra) = Classify(pm, t)
  BY <1>3, ExtrasAre
<1>5. IsBackscatter(pm, t)
  BY <1>4, ClassifyIs
<1> HIDE DEF t
<1>6. ~Empty(t)
  BY <1>5 DEF IsBackscatter, HasHosts, Empty
<1>7. pm.reporter \notin Ours(live)
  <2>1. CASE pm.ds = {}
    BY <1>1, <2>1 DEF IsMail
  <2>2. CASE pm.ds # {}
    <3>1. ~Match(t, pm.reporter)
      BY <1>5, <2>2 DEF IsBackscatter
    <3> QED BY <1>1, <3>1 DEF Match
  <2> QED BY <2>1, <2>2
<1>8. ASSUME NEW om \in pm.orig, NEW h \in om.hops PROVE ReceivedSources(h) \intersect Ours(live) = {}
  <2>1. PICK o \in pm.orig : ~MatchReceived(t, o.hops)
    BY <1>5 DEF IsBackscatter
  <2>2. o = om
    BY DEF IsMail
  <2> QED BY <1>1, <1>6, <2>1, <2>2 DEF MatchReceived
<1> QED BY <1>7, <1>8

-----------------------------------------------------------------------------
(* The bounces of a notice.                                                   *)

\* When one of the first two rows applies, no later one decides.
LEMMA FirstOfTwoRows ==
  ASSUME NEW table, IsList(table), DOMAIN table = 1..4, table[1].when \/ table[2].when
  PROVE  \E k \in {1, 2} : table[k].when /\ First(table) = table[k]
<1>1. (table[1].when => 1 \in Hits(table)) /\ (table[2].when => 2 \in Hits(table))
  BY DEF Hits
<1>2. PICK k \in Hits(table) : First(table) = table[k] /\ \A j \in Hits(table) : k <= j
  BY <1>1, FirstIs
<1>3. k \in 1..4 /\ table[k].when
  BY DEF Hits
<1>4. k = 1 \/ k = 2
  BY <1>1, <1>2, <1>3
<1> QED BY <1>2, <1>3, <1>4

\* A report with a failed or delayed recipient is of the kind of one of them.
LEMMA ReportKind ==
  ASSUME NEW pm, NEW body, NEW i \in DOMAIN Blocks(pm), IsGroupedKind(BlockKind(Blocks(pm)[i]))
  PROVE  /\ IsGroupedKind(KindFromDeliveryStatus(pm, body))
         /\ \E j \in DOMAIN Blocks(pm) : BlockKind(Blocks(pm)[j]) = KindFromDeliveryStatus(pm, body)
<1> DEFINE failed == Row("", "failed", Says(pm, "failed"))
           delayed == Row("", "delayed", Says(pm, "delayed"))
           table == <<failed, delayed, Row("", "other", Says(pm, "success")), Row("", KindFromText(pm.subject, body), TRUE)>>
<1>1. Says(pm, "failed") \/ Says(pm, "delayed")
  BY DEF IsGroupedKind, Says
<1>2. KindFromDeliveryStatus(pm, body) = First(table).kind
  BY DEF KindFromDeliveryStatus
<1>3. (failed.when <=> Says(pm, "failed")) /\ failed.kind = "failed"
  BY DEF Row
<1>4. (delayed.when <=> Says(pm, "delayed")) /\ delayed.kind = "delayed"
  BY DEF Row
<1> HIDE DEF failed, delayed
<1>5. IsList(table) /\ DOMAIN table = 1..4 /\ table[1] = failed /\ table[2] = delayed
  BY DEF IsList
<1> HIDE DEF table
<1>6. PICK k \in {1, 2} : table[k].when /\ First(table) = table[k]
  <2>1. table[1].when \/ table[2].when
    BY <1>1, <1>3, <1>4, <1>5
  <2> QED BY <1>5, <2>1, FirstOfTwoRows
<1>7. \E j \in DOMAIN Blocks(pm) : BlockKind(Blocks(pm)[j]) = First(table).kind
  BY <1>3, <1>4, <1>5, <1>6 DEF Says
<1> QED BY <1>2, <1>3, <1>4, <1>5, <1>6, <1>7 DEF IsGroupedKind

\* A report that tells of a kind has its first bounce in a block of that kind.
LEMMA PickIs ==
  ASSUME NEW blocks, IsList(blocks), NEW kind, \E i \in DOMAIN blocks : BlockKind(blocks[i]) = kind
  PROVE  PickBlock(blocks, kind) \in DOMAIN blocks /\ BlockKind(blocks[PickBlock(blocks, kind)]) = kind
<1> DEFINE like == {i \in DOMAIN blocks : BlockKind(blocks[i]) = kind}
<1>1. like # {} /\ like \subseteq Nat
  BY DEF IsList
<1>2. PickBlock(blocks, kind) = CHOOSE i \in like : \A j \in like : i <= j
  BY <1>1 DEF PickBlock
<1> HIDE DEF like
<1>3. \E i \in like : \A j \in like : i <= j
  BY <1>1, LeastNumber
<1>4. PickBlock(blocks, kind) \in like
  BY <1>2, <1>3
<1> QED BY <1>4 DEF like

\* A notice that is not junk is of a kind that is grouped when a recipient of
\* it is, and every such recipient is among its bounces.
LEMMA BouncesAre ==
  ASSUME NEW pm, IsMail(pm), NEW s, NEW extra, NEW i \in DOMAIN Blocks(pm),
         IsGroupedKind(BlockKind(Blocks(pm)[i])), ~Blocks(pm)[i].excluded,
         ClassifyWithSources(pm, s, extra).kind # "junk"
  PROVE  LET kind == ClassifyWithSources(pm, s, extra).kind
         IN IsGroupedKind(kind) /\ [block |-> i, kind |-> BlockKind(Blocks(pm)[i])] \in ExtractBounces(Blocks(pm), kind)
<1> DEFINE kind == ClassifyWithSources(pm, s, extra).kind
           blocks == Blocks(pm)
<1>1. IsList(blocks)
  <2>1. CASE pm.ds = {}
    BY <2>1 DEF Blocks, IsList
  <2>2. CASE pm.ds # {}
    <3>1. blocks \in pm.ds
      BY <2>2 DEF Blocks
    <3> QED BY <3>1 DEF IsMail
  <2> QED BY <2>1, <2>2
<1>2. blocks # <<>>
  OBVIOUS
<1>3. PICK t : ClassifyWithSources(pm, s, extra) = Classify(pm, t)
  BY DEF ClassifyWithSources
<1>4. PICK body : kind = KindFromDeliveryStatus(pm, body)
  BY <1>2, <1>3, ClassifyIs
<1>5. IsGroupedKind(kind) /\ \E j \in DOMAIN blocks : BlockKind(blocks[j]) = kind
  BY <1>4, ReportKind
<1> HIDE DEF kind, blocks
<1>6. PickBlock(blocks, kind) \in DOMAIN blocks /\ BlockKind(blocks[PickBlock(blocks, kind)]) = kind
  BY <1>1, <1>5, PickIs
<1>7. [block |-> i, kind |-> BlockKind(blocks[i])] \in ExtractBounces(blocks, kind)
  <2>1. CASE i = PickBlock(blocks, kind)
    BY <1>6, <2>1 DEF ExtractBounces
  <2>2. CASE i # PickBlock(blocks, kind)
    BY <2>2 DEF ExtractBounces, blocks
  <2> QED BY <2>1, <2>2
<1> QED BY <1>5, <1>7 DEF kind, blocks

-----------------------------------------------------------------------------
(* The category of a bounce.                                                  *)

\* The rules of a bounce are tables, whatever makes their rows apply.
LEMMA RowsAre ==
  ASSUME NEW b, NEW kind, NEW v
  PROVE  /\ \E r1, r2, r3, r4, r5, r6, r7 : DNSRules(b, kind, v) = <<r1, r2, r3, r4, r5, r6, r7>>
         /\ \E r1, r2, r3, r4, r5, r6, r7, r8 : SendingRules(b, kind) = <<r1, r2, r3, r4, r5, r6, r7, r8>>
         /\ \E r1, r2, r3, r4, r5, r6 : WordingRules(b) = <<r1, r2, r3, r4, r5, r6>>
<1>1. \E r1, r2, r3, r4, r5, r6, r7 : DNSRules(b, kind, v) = <<r1, r2, r3, r4, r5, r6, r7>>
  BY Zenon DEF DNSRules
<1>2. \E r1, r2, r3, r4, r5, r6, r7, r8 : SendingRules(b, kind) = <<r1, r2, r3, r4, r5, r6, r7, r8>>
  BY ZenonT(60) DEF SendingRules
<1>3. \E r1, r2, r3, r4, r5, r6 : WordingRules(b) = <<r1, r2, r3, r4, r5, r6>>
  BY Zenon DEF WordingRules
<1> QED BY <1>1, <1>2, <1>3

\* These tables are parts of one.
LEMMA CategoryTables ==
  ASSUME NEW b, NEW kind, NEW v
  PROVE  \E X : /\ RecipientRules(b) \in Seq(X) /\ DNSRules(b, kind, v) \in Seq(X) /\ DomainRules(b) \in Seq(X)
                /\ SendingRules(b, kind) \in Seq(X) /\ WordingRules(b) \in Seq(X)
<1> DEFINE A == RecipientRules(b)
           B == DNSRules(b, kind, v)
           C == DomainRules(b)
           D == SendingRules(b, kind)
           E == WordingRules(b)
           X == {A[i] : i \in 1..3} \cup {B[i] : i \in 1..7} \cup {C[1]} \cup {D[i] : i \in 1..8} \cup {E[i] : i \in 1..6}
<1>1. A \in Seq({A[i] : i \in 1..3})
  BY DEF RecipientRules
<1>2. B \in Seq({B[i] : i \in 1..7})
  <2>1. PICK r1, r2, r3, r4, r5, r6, r7 : B = <<r1, r2, r3, r4, r5, r6, r7>>
    BY RowsAre
  <2> HIDE DEF B
  <2> QED BY <2>1
<1>3. C \in Seq({C[1]})
  BY DEF DomainRules
<1>4. D \in Seq({D[i] : i \in 1..8})
  <2>1. PICK r1, r2, r3, r4, r5, r6, r7, r8 : D = <<r1, r2, r3, r4, r5, r6, r7, r8>>
    BY RowsAre
  <2> HIDE DEF D
  <2> QED BY <2>1
<1>5. E \in Seq({E[i] : i \in 1..6})
  <2>1. PICK r1, r2, r3, r4, r5, r6 : E = <<r1, r2, r3, r4, r5, r6>>
    BY RowsAre
  <2> HIDE DEF E
  <2> QED BY <2>1
<1> HIDE DEF A, B, C, D, E
<1>6. A \in Seq(X) /\ B \in Seq(X) /\ C \in Seq(X) /\ D \in Seq(X) /\ E \in Seq(X)
  BY <1>1, <1>2, <1>3, <1>4, <1>5
<1> QED BY <1>6 DEF A, B, C, D, E

\* The rules for the recipient, for DNS failures and for the wording, row by row.
LEMMA RecipientRowsAre ==
  ASSUME NEW b
  PROVE  b.status \intersect {"user", "full", "disabled"} = {} => Hits(RecipientRules(b)) = {}
<1> DEFINE A == RecipientRules(b)
<1>1. DOMAIN A = 1..3
  BY DEF RecipientRules
<1>2. (A[1].when <=> "user" \in b.status) /\ (A[2].when <=> "full" \in b.status) /\ (A[3].when <=> "disabled" \in b.status)
  BY DEF RecipientRules, Row
<1> HIDE DEF A
<1>3. ASSUME NEW i \in Hits(A) PROVE "user" \in b.status \/ "full" \in b.status \/ "disabled" \in b.status
  <2>1. i \in 1..3 /\ A[i].when
    BY <1>1, <1>3 DEF Hits
  <2>2. i = 1 \/ i = 2 \/ i = 3
    BY <2>1
  <2> QED BY <1>2, <2>1, <2>2
<1> QED BY <1>3 DEF A

\* A bounce that nothing else takes has the category of the unknown ones.
LEMMA WordingHits == ASSUME NEW b PROVE Hits(WordingRules(b)) # {}
<1> DEFINE E == WordingRules(b)
<1>1. 6 \in DOMAIN E /\ E[6].when
  BY DEF WordingRules, Row
<1> QED BY <1>1 DEF Hits

\* The names of the rules for DNS failures ...
LEMMA DNSRowRules ==
  ASSUME NEW b, NEW kind, NEW v
  PROVE  LET B == DNSRules(b, kind, v)
         IN /\ IsList(B) /\ DOMAIN B = 1..7
            /\ B[1].rule = "dns_verified_not_found" /\ B[2].rule = "dns_verified_name_not_found"
            /\ B[3].rule = "dns_resolver_failure" /\ B[4].rule = "dns_failure_external"
            /\ B[5].rule = "dns_unverified_temporary" /\ B[6].rule = "dns_unverified_not_found"
            /\ B[7].rule = "dns_unverified_name_not_found"
<1> DEFINE B == DNSRules(b, kind, v)
<1>1. IsList(B) /\ DOMAIN B = 1..7
  BY RowsAre DEF IsList
<1>2. /\ B[1].rule = "dns_verified_not_found" /\ B[2].rule = "dns_verified_name_not_found"
      /\ B[3].rule = "dns_resolver_failure" /\ B[4].rule = "dns_failure_external"
      /\ B[5].rule = "dns_unverified_temporary" /\ B[6].rule = "dns_unverified_not_found"
      /\ B[7].rule = "dns_unverified_name_not_found"
  BY DEF DNSRules, Row
<1> QED BY <1>1, <1>2

\* ... and when they apply.
LEMMA DNSRowsApply ==
  ASSUME NEW b, NEW kind, NEW v
  PROVE  LET B   == DNSRules(b, kind, v)
             dns == ParseDNSFailure(b)
         IN /\ B[1].when \/ B[2].when => v.outcome = "not_found"
            /\ (B[3].when <=> dns.found /\ v.outcome = "exists" /\ v.source)
            /\ (B[4].when <=> dns.found /\ (v.outcome = "exists" \/ v.outcome = "broken"))
            /\ dns.found /\ v.outcome = "" /\ kind = "delayed" => B[5].when
            /\ dns.found /\ v.outcome = "" /\ kind = "failed" => B[7].when
<1> DEFINE B == DNSRules(b, kind, v)
           dns == ParseDNSFailure(b)
<1>1. B[1].when \/ B[2].when => v.outcome = "not_found"
  BY DEF DNSRules, Row
<1>2. B[3].when <=> dns.found /\ v.outcome = "exists" /\ v.source
  BY DEF DNSRules, Row
<1>3. B[4].when <=> dns.found /\ (v.outcome = "exists" \/ v.outcome = "broken")
  BY DEF DNSRules, Row
<1>4. dns.found /\ v.outcome = "" /\ kind = "delayed" => B[5].when
  BY DEF DNSRules, Row
<1>5. dns.found /\ v.outcome = "" /\ kind = "failed" => B[7].when
  BY DEF DNSRules, Row
<1> QED BY <1>1, <1>2, <1>3, <1>4, <1>5

\* The first of the rules for DNS failures: a name that exists is blamed on the
\* resolver when the server is a sending source, and else on the outside.
LEMMA DNSRuleIs ==
  ASSUME NEW b, NEW kind, NEW v, Hits(DNSRules(b, kind, v)) # {}
  PROVE  LET row == First(DNSRules(b, kind, v))
         IN /\ row.rule = "dns_resolver_failure" => v.outcome = "exists" /\ v.source
            /\ row.rule = "dns_failure_external" /\ v.outcome = "exists" => ~v.source
<1> DEFINE B == DNSRules(b, kind, v)
           dns == ParseDNSFailure(b)
<1>1. IsList(B) /\ DOMAIN B = 1..7
  BY DNSRowRules
<1>2. /\ B[1].rule = "dns_verified_not_found" /\ B[2].rule = "dns_verified_name_not_found"
      /\ B[3].rule = "dns_resolver_failure" /\ B[4].rule = "dns_failure_external"
      /\ B[5].rule = "dns_unverified_temporary" /\ B[6].rule = "dns_unverified_not_found"
      /\ B[7].rule = "dns_unverified_name_not_found"
  BY DNSRowRules
<1>3. B[3].when <=> dns.found /\ v.outcome = "exists" /\ v.source
  BY DNSRowsApply
<1>4. B[4].when <=> dns.found /\ (v.outcome = "exists" \/ v.outcome = "broken")
  BY DNSRowsApply
<1> HIDE DEF B, dns
<1>5. PICK k \in Hits(B) : First(B) = B[k] /\ \A j \in Hits(B) : k <= j
  BY <1>1, FirstIs DEF B
<1>6. k \in 1..7 /\ B[k].when
  BY <1>1 DEF Hits
<1>7. First(B).rule = "dns_resolver_failure" => k = 3
  BY <1>2, <1>5, <1>6
<1>8. First(B).rule = "dns_failure_external" => k = 4
  BY <1>2, <1>5, <1>6
<1>9. k = 4 => ~B[3].when
  BY <1>1, <1>5 DEF Hits
<1>10. First(B).rule = "dns_resolver_failure" => v.outcome = "exists" /\ v.source
  BY <1>3, <1>6, <1>7
<1>11. First(B).rule = "dns_failure_external" /\ v.outcome = "exists" => ~v.source
  BY <1>3, <1>4, <1>6, <1>8, <1>9
<1> QED BY <1>10, <1>11 DEF B

\* The same of the category of a bounce: no other rule blames anyone.
LEMMA CategoryIs ==
  ASSUME NEW b, NEW kind, NEW v
  PROVE  LET row == CategorizeWith(b, kind, v)
         IN /\ row.rule = "dns_resolver_failure" => v.outcome = "exists" /\ v.source
            /\ row.rule = "dns_failure_external" /\ v.outcome = "exists" => ~v.source
<1> DEFINE A == RecipientRules(b)
           B == DNSRules(b, kind, v)
           C == DomainRules(b)
           D == SendingRules(b, kind)
           E == WordingRules(b)
           Blaming == {"dns_resolver_failure", "dns_failure_external"}
           f == First(A \o B \o C \o D \o E)
<1>1. IsList(A) /\ \A i \in DOMAIN A : A[i].rule \notin Blaming
  BY DEF RecipientRules, Row, IsList
<1>2. IsList(C) /\ \A i \in DOMAIN C : C[i].rule \notin Blaming
  BY DEF DomainRules, Row, IsList
<1>3. IsList(D) /\ \A i \in DOMAIN D : D[i].rule \notin Blaming
  BY DEF SendingRules, Row, IsList
<1>4. IsList(E) /\ \A i \in DOMAIN E : E[i].rule \notin Blaming
  BY DEF WordingRules, Row, IsList
<1>5. Hits(E) # {}
  BY WordingHits
<1>6. CategorizeWith(b, kind, v) = f
  BY DEF CategorizeWith, CategoryRules
<1>7. PICK X : A \in Seq(X) /\ B \in Seq(X) /\ C \in Seq(X) /\ D \in Seq(X) /\ E \in Seq(X)
  BY CategoryTables
<1>8. Hits(B) # {} => /\ First(B).rule = "dns_resolver_failure" => v.outcome = "exists" /\ v.source
                      /\ First(B).rule = "dns_failure_external" /\ v.outcome = "exists" => ~v.source
  BY DNSRuleIs
<1> HIDE DEF A, B, C, D, E
<1>9. \/ Hits(A) # {} /\ f = First(A)
      \/ Hits(A) = {} /\ \/ Hits(B) # {} /\ f = First(B)
                         \/ Hits(C) # {} /\ f = First(C)
                         \/ Hits(D) # {} /\ f = First(D)
                         \/ f = First(E)
  BY SMTT(30), <1>5, <1>7, FirstOfFive
<1> HIDE DEF f
<1>10. ASSUME NEW t, IsList(t), Hits(t) # {}, \A i \in DOMAIN t : t[i].rule \notin Blaming PROVE First(t).rule \notin Blaming
  BY <1>10, FirstIs DEF Hits
<1>11. f.rule \in Blaming => Hits(B) # {} /\ f = First(B)
  BY <1>1, <1>2, <1>3, <1>4, <1>5, <1>9, <1>10
<1> QED BY <1>6, <1>8, <1>11

-----------------------------------------------------------------------------
(* The server that reported a failure.                                        *)

\* What is taken for a sending server is one; what is taken for none is none,
\* unless half of the answer was missing.
LEMMA MatchIs ==
  ASSUME AreSources(sources), NEW live, NEW extra \in Extras(live), NEW mta, NEW reply \in Replies(mta)
  PROVE  LET m    == MatchReporter(sources, extra, mta, DOMAIN AddrsOf, reply)
             ours == Empty(sources) \/ OurServer(mta, live)
         IN (m = "yes" => ours) /\ (m = "no" => ~ours \/ Partial(mta, reply))
<1> DEFINE m    == MatchReporter(sources, extra, mta, DOMAIN AddrsOf, reply)
           A    == IF mta \in DOMAIN AddrsOf THEN reply ELSE {mta}
           near == sources.addrs \cup extra.found
<1>1. extra.found \subseteq Looked(live) /\ (extra.complete => extra.found = Looked(live))
  BY ExtrasAre
<1>2. Ours(live) = sources.hosts \cup sources.others \cup sources.addrs \cup Looked(live)
  BY OursAre
<1>3. mta \in DOMAIN AddrsOf => reply \subseteq AddrsOf[mta]
  BY DEF Replies
<1>4. CASE Empty(sources)
  <2>1. m = "yes"
    BY <1>4 DEF MatchReporter
  <2> QED BY <1>4, <2>1
<1>5. CASE ~Empty(sources) /\ mta = ""
  <2>1. m = "open"
    BY <1>5, FilingAssumption DEF MatchReporter
  <2> QED BY <2>1
<1>6. CASE ~Empty(sources) /\ mta # "" /\ mta \in DOMAIN AddrsOf /\ mta \in sources.hosts \cup sources.others \cup extra.found
  <2>1. m = "yes"
    BY <1>6 DEF MatchReporter
  <2>2. mta \in Ours(live)
    BY <1>1, <1>2, <1>6
  <2> QED BY <2>1, <2>2 DEF OurServer
<1>7. CASE ~Empty(sources) /\ mta # "" /\ ~(mta \in DOMAIN AddrsOf /\ mta \in sources.hosts \cup sources.others \cup extra.found)
  <2>1. m = MatchAddrs(sources, extra, A)
    BY <1>7 DEF MatchReporter
  <2>2. m = "yes" => A \intersect near # {}
    BY <2>1 DEF MatchAddrs
  <2>3. m = "no" => A # {} /\ A \intersect near = {} /\ extra.complete
    BY <2>1 DEF MatchAddrs
  <2>4. m = "yes" => OurServer(mta, live)
    BY <1>1, <1>2, <1>3, <2>2 DEF OurServer
  <2>5. ASSUME m = "no", ~Partial(mta, reply) PROVE ~OurServer(mta, live)
    <3>1. extra.found = Looked(live)
      BY <1>1, <2>3, <2>5
    <3>2. CASE mta \in DOMAIN AddrsOf
      <4>1. reply = AddrsOf[mta]
        BY <2>3, <2>5, <3>2 DEF Partial
      <4>2. AddrsOf[mta] \intersect near = {}
        BY <2>3, <2>5, <3>2, <4>1
      <4>3. AddrsOf[mta] \intersect DOMAIN AddrsOf = {}
        BY <3>2, FilingAssumption
      <4>4. AddrsOf[mta] \intersect Ours(live) = {}
        BY <1>2, <3>1, <4>2, <4>3 DEF AreSources
      <4>5. mta \notin Ours(live)
        BY <1>2, <1>7, <3>1, <3>2 DEF AreSources
      <4> QED BY <4>4, <4>5 DEF OurServer
    <3>3. CASE mta \notin DOMAIN AddrsOf
      <4>1. mta \notin near
        BY <2>3, <2>5, <3>3
      <4>2. mta \notin Ours(live)
        BY <1>2, <3>1, <3>3, <4>1 DEF AreSources
      <4> QED BY <3>3, <4>2 DEF OurServer
    <3> QED BY <3>2, <3>3
  <2> QED BY <1>7, <2>4, <2>5
<1> QED BY <1>4, <1>5, <1>6, <1>7

\* A name counts as verified only when it can be told whose server it was.
LEMMA VerdictOfIs ==
  ASSUME NEW outcome, NEW matched, VerdictOf(outcome, matched).outcome = "exists"
  PROVE  matched # "open" /\ (VerdictOf(outcome, matched).source <=> matched = "yes")
<1>1. CASE outcome = "exists" /\ matched = "open"
  <2>1. VerdictOf(outcome, matched) = NotVerified
    BY <1>1 DEF VerdictOf
  <2>2. NotVerified.outcome = ""
    BY DEF NotVerified
  <2> QED BY <2>1, <2>2
<1>2. CASE ~(outcome = "exists" /\ matched = "open")
  <2>1. VerdictOf(outcome, matched).outcome = outcome
    BY <1>2 DEF VerdictOf
  <2>2. VerdictOf(outcome, matched).source <=> outcome = "exists" /\ matched = "yes"
    BY <1>2 DEF VerdictOf
  <2> QED BY <1>2, <2>1, <2>2
<1> QED BY <1>1, <1>2

\* A verified name is blamed on whom it should be.
LEMMA VerdictIs ==
  ASSUME AreSources(sources), NEW live, NEW extra \in Extras(live), NEW mta, NEW w \in VerdictsOn(mta, extra),
         w.v.outcome = "exists"
  PROVE  LET ours == Empty(sources) \/ OurServer(mta, live)
         IN (w.v.source => ours) /\ (~w.v.source => ~ours \/ w.half)
<1> DEFINE M(reply) == MatchReporter(sources, extra, mta, DOMAIN AddrsOf, reply)
           V(outcome, reply) == VerdictOf(outcome, M(reply))
<1>1. PICK outcome \in Told, reply \in Replies(mta) :
        w = Answer(mta, extra, outcome, reply)
  BY DEF VerdictsOn
<1>2. M(reply) \in {"yes", "no", "open"}
  BY DEF MatchReporter, MatchAddrs
<1>3. (M(reply) = "yes" => Empty(sources) \/ OurServer(mta, live))
      /\ (M(reply) = "no" => ~(Empty(sources) \/ OurServer(mta, live)) \/ Partial(mta, reply))
  BY MatchIs
<1>4. V(outcome, reply).outcome = "exists" => M(reply) # "open" /\ (V(outcome, reply).source <=> M(reply) = "yes")
  BY VerdictOfIs
<1>5. w.v = V(outcome, reply) /\ (w.half <=> V(outcome, reply).outcome = "exists" /\ Partial(mta, reply))
  BY <1>1 DEF Answer
<1> HIDE DEF M, V
<1> QED BY <1>2, <1>3, <1>4, <1>5

\* The entry of a notice is whoever handed it in, if it can be told.
LEMMA EntryIs ==
  ASSUME NEW received, IsList(received), NEW peer, NEW k \in DOMAIN received, EntersAt(received, k, peer)
  PROVE  NoticeEntry(received, Internal) \in {"", peer}
<1> DEFINE stops == {i \in DOMAIN received : ~PassedOver(received[i], Internal)}
           top == CHOOSE i \in stops : \A j \in stops : i <= j
<1>1. Judged(received[k]) => FromAddr(received[k]) = peer
  <2>1. CASE received[k].peer = {}
    BY <2>1 DEF EntersAt, FromAddr
  <2>2. CASE received[k].peer # {}
    <3>1. FromAddr(received[k]) \in received[k].peer
      BY <2>2 DEF FromAddr
    <3> QED BY <2>2, <3>1 DEF EntersAt, Judged
  <2> QED BY <2>1, <2>2
<1>2. k \in stops
  BY <1>1 DEF EntersAt, PassedOver
<1>3. stops \subseteq Nat \ {0}
  <2>1. DOMAIN received = 1..Len(received) /\ Len(received) \in Nat
    BY DEF IsList
  <2>2. DOMAIN received \subseteq Nat \ {0}
    BY <2>1
  <2> QED BY <2>2
<1>4. ASSUME NEW i \in stops PROVE k <= i
  <2>1. i \notin 1..(k - 1)
    BY DEF EntersAt
  <2> HIDE DEF stops
  <2> QED BY <1>2, <1>3, <2>1
<1>5. NoticeEntry(received, Internal) = IF stops = {} \/ ~Judged(received[top]) THEN "" ELSE FromAddr(received[top])
  BY DEF NoticeEntry
<1> HIDE DEF stops
<1>6. top = k
  BY <1>2, <1>3, <1>4
<1> QED BY <1>1, <1>5, <1>6

-----------------------------------------------------------------------------
\* Whatever a run decides of a mail is true of it.
LEMMA PlansAreTrue ==
  ASSUME AreSources(sources), NEW pm, IsMail(pm), NEW live, NEW p \in Plans(pm, live)
  PROVE  TrueOf(pm, p)
<1>1. PICK extra \in Extras(live) : p \in PlansOf(pm, live, View(pm, extra))
  BY DEF Plans
<1> DEFINE view == View(pm, extra)
           cls == ClassifyWithSources(pm, sources, extra)
           E == Extracted(pm, view)
<1>2. /\ view.cls = cls /\ view.sent = AboutSentMail(sources, extra, pm.received, Internal)
      /\ view.verdicts = VerdictsOn(pm.reporter, extra)
  BY DEF View
<1> HIDE DEF view, cls
<1>3. PICK asked \in [{e \in E : Reported(pm, e)} -> VerdictsOn(pm.reporter, extra)] : p = Plan(pm, live, view, asked)
  BY <1>1, <1>2 DEF PlansOf, view
<1>4. /\ p.rule = cls.rule /\ p.kind = cls.kind /\ p.live = live /\ (p.direct => view.sent)
      /\ p.bounces = {Judgement(pm, e, IF e \in DOMAIN asked THEN asked[e] ELSE NotAsked) : e \in E}
  BY <1>2, <1>3 DEF Plan
<1>5. SentMailIsKept(pm, p)
  BY <1>4, BackscatterIs DEF SentMailIsKept, cls
<1>6. BlameIsTrue(pm, p)
  <2> DEFINE ours == Empty(sources) \/ OurServer(pm.reporter, live)
  <2> SUFFICES ASSUME NEW b \in p.bounces
               PROVE  /\ b.rule = "dns_resolver_failure" => ours
                      /\ b.rule = "dns_failure_external" /\ b.outcome = "exists" => ~ours \/ b.half
    BY <1>4 DEF BlameIsTrue
  <2>1. PICK e \in E, w \in {NotAsked} \cup VerdictsOn(pm.reporter, extra) : b = Judgement(pm, e, w)
    BY <1>4
  <2>2. b.rule = CategorizeWith(Bounce(pm, e.block), e.kind, w.v).rule /\ b.outcome = w.v.outcome /\ b.half = w.half
    BY <2>1 DEF Judgement
  <2>3. /\ b.rule = "dns_resolver_failure" => w.v.outcome = "exists" /\ w.v.source
        /\ b.rule = "dns_failure_external" /\ w.v.outcome = "exists" => ~w.v.source
    BY <2>2, CategoryIs
  <2>4. w.v.outcome = "exists" => w \in VerdictsOn(pm.reporter, extra)
    <3>1. NotAsked.v.outcome = ""
      BY DEF NotAsked, NotVerified
    <3> QED BY <3>1
  <2>5. w.v.outcome = "exists" => (w.v.source => ours) /\ (~w.v.source => ~ours \/ w.half)
    BY <2>4, VerdictIs
  <2> QED BY <2>2, <2>3, <2>5
<1>7. EveryRecipientJudged(pm, p)
  <2> SUFFICES ASSUME p.kind # "junk", NEW i \in DOMAIN Blocks(pm),
                      IsGroupedKind(BlockKind(Blocks(pm)[i])), ~Blocks(pm)[i].excluded
               PROVE  \E b \in p.bounces : b.block = i /\ b.kind = BlockKind(Blocks(pm)[i])
    BY DEF EveryRecipientJudged
  <2> DEFINE e == [block |-> i, kind |-> BlockKind(Blocks(pm)[i])]
  <2>1. IsGroupedKind(cls.kind) /\ e \in ExtractBounces(Blocks(pm), cls.kind)
    BY <1>4, BouncesAre DEF cls
  <2>2. e \in E
    BY <1>2, <2>1 DEF Extracted
  <2>3. PICK w : Judgement(pm, e, w) \in p.bounces
    BY <1>4, <2>2
  <2>4. Judgement(pm, e, w).block = i /\ Judgement(pm, e, w).kind = BlockKind(Blocks(pm)[i])
    BY DEF Judgement
  <2> QED BY <2>3, <2>4
<1>8. DirectOnlyForSent(pm, p)
  <2> SUFFICES ASSUME p.direct PROVE pm.peer \in Ours(live)
    BY <1>4 DEF DirectOnlyForSent
  <2>1. AboutSentMail(sources, extra, pm.received, Internal)
    BY <1>2, <1>4
  <2>2. /\ NoticeEntry(pm.received, Internal) # ""
        /\ NoticeEntry(pm.received, Internal) \in sources.addrs \cup extra.found
    BY <2>1 DEF AboutSentMail
  <2>3. NoticeEntry(pm.received, Internal) = pm.peer
    <3>1. pm.received # <<>>
      <4> SUFFICES ASSUME pm.received = <<>> PROVE NoticeEntry(pm.received, Internal) = ""
        BY <2>2
      <4>1. DOMAIN pm.received = {}
        OBVIOUS
      <4> QED BY <4>1 DEF NoticeEntry
    <3> QED BY <2>2, <3>1, EntryIs DEF IsMail, HandedIn
  <2> QED BY <2>2, <2>3, ExtrasAre, OursAre
<1> QED BY <1>5, <1>6, <1>7, <1>8 DEF TrueOf

-----------------------------------------------------------------------------
(* What is left unverified.                                                   *)

\* A DNS failure that was not verified, without a status code of its recipient.
LeftUnverified(said, outcome) ==
  ParseDNSFailure(said).found /\ outcome = "" /\ said.status \intersect {"user", "full", "disabled"} = {}

\* Such a bounce is filed by a rule that says so.
RetriedLater(pm, p) ==
  \A b \in p.bounces : LeftUnverified(Bounce(pm, b.block), b.outcome) => b.rule \in Unverified

\* Its category is one of those for what was left unverified.
LEMMA UnverifiedRules ==
  ASSUME NEW b, NEW kind, IsGroupedKind(kind), NEW v, LeftUnverified(b, v.outcome)
  PROVE  CategorizeWith(b, kind, v).rule \in Unverified
<1> DEFINE A == RecipientRules(b)
           B == DNSRules(b, kind, v)
           C == DomainRules(b)
           D == SendingRules(b, kind)
           E == WordingRules(b)
           f == First(A \o B \o C \o D \o E)
<1>1. Hits(A) = {}
  BY RecipientRowsAre DEF LeftUnverified
<1>2. /\ IsList(B) /\ DOMAIN B = 1..7 /\ B[5].rule = "dns_unverified_temporary"
      /\ B[6].rule = "dns_unverified_not_found" /\ B[7].rule = "dns_unverified_name_not_found"
  BY DNSRowRules
<1>3. ParseDNSFailure(b).found /\ v.outcome = "" /\ (kind = "failed" \/ kind = "delayed")
  BY DEF LeftUnverified, IsGroupedKind
<1>4. ~B[1].when /\ ~B[2].when /\ ~B[3].when /\ ~B[4].when
  BY <1>3, DNSRowsApply
<1>5. B[5].when \/ B[7].when
  BY <1>3, DNSRowsApply
<1>6. Hits(E) # {}
  BY WordingHits
<1>7. CategorizeWith(b, kind, v) = f
  BY DEF CategorizeWith, CategoryRules
<1>8. PICK X : A \in Seq(X) /\ B \in Seq(X) /\ C \in Seq(X) /\ D \in Seq(X) /\ E \in Seq(X)
  BY CategoryTables
<1> HIDE DEF A, B, C, D, E
<1>9. Hits(B) # {}
  BY <1>2, <1>5 DEF Hits
<1>10. PICK k \in Hits(B) : First(B) = B[k]
  BY <1>2, <1>9, FirstIs
<1>11. k \in 5..7
  BY <1>2, <1>4 DEF Hits
<1>12. First(B).rule \in Unverified
  BY <1>2, <1>10, <1>11 DEF Unverified
<1>13. f = First(B)
  BY <1>1, <1>8, <1>9, SecondOfFive
<1> QED BY <1>7, <1>12, <1>13

\* So what a plan leaves unverified is found again.
LEMMA PlansAreRetried ==
  ASSUME NEW pm, NEW live, NEW p \in Plans(pm, live)
  PROVE  RetriedLater(pm, p)
<1>1. PICK extra \in Extras(live) : p \in PlansOf(pm, live, View(pm, extra))
  BY DEF Plans
<1> DEFINE view == View(pm, extra)
<1> HIDE DEF view
<1>2. PICK asked : p = Plan(pm, live, view, asked)
  BY <1>1 DEF PlansOf, view
<1>3. p.bounces = {Judgement(pm, e, IF e \in DOMAIN asked THEN asked[e] ELSE NotAsked) : e \in Extracted(pm, view)}
  BY <1>2 DEF Plan
<1>4. ASSUME NEW e \in Extracted(pm, view) PROVE IsGroupedKind(e.kind)
  BY DEF Extracted, ExtractBounces
<1> SUFFICES ASSUME NEW b \in p.bounces, LeftUnverified(Bounce(pm, b.block), b.outcome)
             PROVE  b.rule \in Unverified
  BY DEF RetriedLater
<1>5. PICK e \in Extracted(pm, view) : \E w : b = Judgement(pm, e, w)
  BY <1>3
<1>6. PICK w : b = Judgement(pm, e, w)
  BY <1>5
<1>7. b.block = e.block /\ b.rule = CategorizeWith(Bounce(pm, e.block), e.kind, w.v).rule /\ b.outcome = w.v.outcome
  BY <1>6 DEF Judgement
<1> QED BY <1>4, <1>7, UnverifiedRules

-----------------------------------------------------------------------------
(* The grouping of a mailbox (NoticeFiling).                                  *)

\* What is filed, and what a run works on, has arrived.
FilingOK ==
  /\ box \in Boxes /\ sources \in Settings /\ have \in Nat /\ have <= Len(box)
  /\ filed = [i \in DOMAIN box |-> filed[i]] /\ \A i \in DOMAIN box \ Mails : filed[i] = {}
  /\ DOMAIN filing = {"on", "live", "full", "todo", "done"}
  /\ filing.todo \subseteq Mails /\ filing.live \in BOOLEAN

\* The counters match whatever is filed, of the mails that have not arrived
\* nothing; groups are empty only after a full run has begun.
CountsOK ==
  /\ \A i \in DOMAIN filed : GroupsOf(filed, i) \subseteq DOMAIN groups
  /\ \A g \in DOMAIN groups :
       IF Members(filed, g) = {} THEN cut ELSE groups[g] = Cardinality(Members(filed, g))

DecisionsOK == \A i \in DOMAIN filed : \A p \in filed[i] : TrueOf(box[i], p) /\ RetriedLater(box[i], p)

\* What was left unverified is still ahead of the run, or it was tried.
RetryOK ==
  filing.on /\ filing.live => \A i \in Mails : Untried(i) => i \in filing.todo \cup filing.done

FilingInv == FilingOK /\ CountsOK /\ DecisionsOK /\ RetryOK

\* The mails of a mailbox are numbered.
LEMMA ArrivedInBox ==
  ASSUME FilingOK
  PROVE  DOMAIN box = 1..Len(box) /\ Len(box) \in Nat /\ DOMAIN filed = DOMAIN box /\ Mails \subseteq DOMAIN filed
<1>1. DOMAIN box = 1..Len(box) /\ Len(box) \in Nat
  BY FilingAssumption DEF FilingOK, IsList
<1>2. DOMAIN filed = DOMAIN box
  BY DEF FilingOK
<1> QED BY <1>1, <1>2 DEF FilingOK, Mails

\* What groupMessageIn does to the counters keeps them true.
LEMMA CountsFollow ==
  ASSUME CountsOK, NEW i \in DOMAIN filed, NEW p,
         filed' = [filed EXCEPT ![i] = {p}], groups' = Regroup(filed', i), cut' = cut
  PROVE  CountsOK'
<1> DEFINE h == [filed EXCEPT ![i] = {p}]
           touched == GroupsOf(filed, i) \cup GroupsOf(h, i)
           gone    == {g \in GroupsOf(filed, i) : Members(h, g) = {}}
           G       == (DOMAIN groups \cup GroupsOf(h, i)) \ gone
<1>1. filed' = h /\ DOMAIN h = DOMAIN filed
  OBVIOUS
<1>2. groups' = [g \in G |-> IF g \in touched THEN Cardinality(Members(h, g)) ELSE groups[g]]
  BY <1>1 DEF Regroup
<1>3. ASSUME NEW j \in DOMAIN filed, j # i PROVE GroupsOf(h, j) = GroupsOf(filed, j)
  BY <1>3 DEF GroupsOf, BouncesOf
<1>4. \A g : g \notin touched => Members(h, g) = Members(filed, g)
  <2>1. \A g : g \notin touched => \A j \in DOMAIN filed : g \in GroupsOf(h, j) <=> g \in GroupsOf(filed, j)
    BY <1>3
  <2> HIDE DEF h
  <2> QED BY <1>1, <2>1 DEF Members
<1>5. \A g : \A j \in DOMAIN filed : g \in GroupsOf(h, j) => Members(h, g) # {}
  BY <1>1 DEF Members
<1> HIDE DEF h
<1>6. \A j \in DOMAIN h : GroupsOf(h, j) \subseteq DOMAIN groups'
  <2> SUFFICES ASSUME NEW j \in DOMAIN h, NEW g \in GroupsOf(h, j) PROVE g \in G
    BY <1>2
  <2>1. Members(h, g) # {}
    BY <1>1, <1>5
  <2>2. g \in DOMAIN groups \cup GroupsOf(h, i)
    BY <1>1, <1>3 DEF CountsOK
  <2> QED BY <2>1, <2>2
<1>7. ASSUME NEW g \in DOMAIN groups'
      PROVE  IF Members(h, g) = {} THEN cut ELSE groups'[g] = Cardinality(Members(h, g))
  <2>0. g \in G
    BY <1>2, <1>7
  <2>1. CASE g \in touched
    <3>1. groups'[g] = Cardinality(Members(h, g))
      BY <1>2, <2>0, <2>1
    <3>2. Members(h, g) # {}
      <4>1. CASE g \in GroupsOf(h, i)
        BY <4>1, <1>5
      <4>2. CASE g \in GroupsOf(filed, i)
        BY <4>2, <2>0
      <4> QED BY <4>1, <4>2, <2>1
    <3> QED BY <3>1, <3>2
  <2>2. CASE g \notin touched
    <3>1. groups'[g] = groups[g] /\ g \in DOMAIN groups
      BY <1>2, <2>0, <2>2
    <3>2. Members(h, g) = Members(filed, g)
      BY <1>4, <2>2
    <3> QED BY <3>1, <3>2 DEF CountsOK
  <2> QED BY <2>1, <2>2
<1> QED BY <1>1, <1>6, <1>7 DEF CountsOK

\* The mailbox starts empty.
LEMMA FilingStart == FilingInit => FilingInv
<1> SUFFICES ASSUME FilingInit PROVE FilingInv
  OBVIOUS
<1>1. FilingOK
  <2>1. Len(box) \in Nat
    BY FilingAssumption DEF FilingInit, IsList
  <2> QED BY <2>1 DEF FilingInit, FilingOK, NotFiling
<1>2. CountsOK
  <2>1. \A i \in DOMAIN filed : GroupsOf(filed, i) = {}
    BY DEF FilingInit, GroupsOf, BouncesOf
  <2>2. DOMAIN groups = {} /\ DOMAIN filed = DOMAIN box
    BY DEF FilingInit
  <2> QED BY <2>1, <2>2 DEF CountsOK
<1>3. DecisionsOK
  BY DEF FilingInit, DecisionsOK
<1>4. RetryOK
  BY DEF FilingInit, RetryOK, NotFiling
<1> QED BY <1>1, <1>2, <1>3, <1>4 DEF FilingInv

\* Every step of a grouping run keeps the invariant.
LEMMA FilingStep == FilingInv /\ [FilingNext]_filingVars => FilingInv'
<1> SUFFICES ASSUME FilingInv, [FilingNext]_filingVars PROVE FilingInv'
  OBVIOUS
<1>1. /\ FilingOK /\ CountsOK /\ DecisionsOK /\ RetryOK
      /\ DOMAIN box = 1..Len(box) /\ Len(box) \in Nat /\ DOMAIN filed = DOMAIN box /\ Mails \subseteq DOMAIN filed
  BY ArrivedInBox DEF FilingInv
<1>2. ASSUME box' = box, sources' = sources, filed' = filed PROVE DecisionsOK'
  <2>1. ASSUME NEW pm, NEW p PROVE TrueOf(pm, p)' <=> TrueOf(pm, p)
    BY <1>2 DEF TrueOf, SentMailIsKept, BlameIsTrue, EveryRecipientJudged, DirectOnlyForSent, Ours, OurServer, Looked, HostNames
  <2>2. ASSUME NEW pm, NEW p PROVE RetriedLater(pm, p)' <=> RetriedLater(pm, p)
    BY DEF RetriedLater
  <2> QED BY <1>1, <1>2, <2>1, <2>2 DEF DecisionsOK
<1>3. CASE Arrive
  <2>1. FilingOK'
    BY <1>1, <1>3 DEF Arrive, FilingOK, Mails
  <2>2. CountsOK'
    BY <1>1, <1>3 DEF Arrive, CountsOK
  <2>3. RetryOK'
    BY <1>3 DEF Arrive, RetryOK
  <2> QED BY <1>2, <1>3, <2>1, <2>2, <2>3 DEF FilingInv, Arrive
<1>4. ASSUME NEW i \in filing.todo, File(i) PROVE FilingInv'
  <2>1. PICK p \in Plans(box[i], filing.live) : filed' = [filed EXCEPT ![i] = {p}] /\ groups' = Regroup(filed', i)
    BY <1>4 DEF File
  <2>2. i \in DOMAIN filed /\ i \in Mails
    BY <1>1 DEF FilingOK
  <2>3. FilingOK'
    BY <1>1, <1>4, <2>1 DEF File, Done, FilingOK, Mails
  <2>4. CountsOK'
    BY <1>1, <1>4, <2>1, <2>2, CountsFollow DEF File
  <2>5. DecisionsOK'
    <3>1. TrueOf(box[i], p) /\ RetriedLater(box[i], p)
      <4>1. AreSources(sources) /\ IsMail(box[i])
        BY <1>1, <2>2, FilingAssumption DEF FilingOK
      <4> QED BY <2>1, <4>1, PlansAreTrue, PlansAreRetried
    <3>2. ASSUME NEW pm, NEW q PROVE TrueOf(pm, q)' <=> TrueOf(pm, q)
      BY <1>4 DEF File, TrueOf, SentMailIsKept, BlameIsTrue, EveryRecipientJudged, DirectOnlyForSent, Ours, OurServer, Looked, HostNames
    <3>3. ASSUME NEW pm, NEW q PROVE RetriedLater(pm, q)' <=> RetriedLater(pm, q)
      BY DEF RetriedLater
    <3>4. box' = box
      BY <1>4 DEF File
    <3> QED BY <1>1, <2>1, <2>2, <3>1, <3>2, <3>3, <3>4 DEF DecisionsOK
  <2>6. RetryOK'
    <3>1. box' = box /\ have' = have /\ filing'.on = filing.on /\ filing'.live = filing.live
      BY <1>1, <1>4 DEF File, Done, FilingOK
    <3>2. ASSUME NEW j \in Mails, j # i PROVE Untried(j)' <=> Untried(j)
      BY <2>1, <3>1, <3>2 DEF Untried, BouncesOf, Bounce, Blocks
    <3>3. /\ i \in filing'.done
          /\ \A j \in filing.todo \cup filing.done : j \in filing'.todo \cup filing'.done
      BY <1>1, <1>4 DEF File, Done, FilingOK
    <3> QED BY <1>1, <3>1, <3>2, <3>3 DEF RetryOK, Mails
  <2> QED BY <2>3, <2>4, <2>5, <2>6 DEF FilingInv
<1>5. ASSUME NEW i \in filing.todo, Skip(i) PROVE FilingInv'
  <2>1. FilingOK'
    BY <1>1, <1>5 DEF Skip, Done, FilingOK, Mails
  <2>2. CountsOK'
    BY <1>1, <1>5 DEF Skip, CountsOK
  <2>3. RetryOK'
    <3>1. /\ box' = box /\ have' = have /\ filed' = filed /\ filing'.on = filing.on /\ filing'.live = filing.live
          /\ \A j \in filing.todo \cup filing.done : j \in filing'.todo \cup filing'.done
      BY <1>1, <1>5 DEF Skip, Done, FilingOK
    <3>2. ASSUME NEW j PROVE Untried(j)' <=> Untried(j)
      BY <3>1 DEF Untried
    <3> QED BY <1>1, <3>1, <3>2 DEF RetryOK, Mails
  <2> QED BY <1>2, <1>5, <2>1, <2>2, <2>3 DEF FilingInv, Skip
<1>6. ASSUME NEW live \in BOOLEAN, NEW full \in BOOLEAN, BeginRun(live, full) PROVE FilingInv'
  <2>1. filed' = [i \in DOMAIN box |-> filed'[i]] /\ DOMAIN filed' = DOMAIN filed
    BY <1>1, <1>6 DEF BeginRun, FilingOK
  <2>2. FilingOK'
    <3>1. \A i \in DOMAIN filed \ Mails : filed'[i] = {}
      BY <1>1, <1>6 DEF BeginRun, FilingOK
    <3>2. Retried(filed', live, full) \subseteq Mails
      BY <2>1, <3>1 DEF Retried, BouncesOf
    <3> QED BY <1>1, <1>6, <2>1, <3>1, <3>2 DEF BeginRun, FilingOK, Mails
  <2>3. CountsOK'
    <3>1. CASE full
      <4>1. \A i \in DOMAIN filed' : GroupsOf(filed', i) = {}
        BY <1>6, <2>1, <3>1 DEF BeginRun, GroupsOf, BouncesOf
      <4>2. \A g : Members(filed', g) = {}
        BY <4>1 DEF Members
      <4>3. cut'
        BY <1>6, <3>1 DEF BeginRun
      <4> QED BY <4>1, <4>2, <4>3 DEF CountsOK
    <3>2. CASE ~full
      <4>1. filed' = filed /\ groups' = groups /\ (cut => cut')
        BY <1>6, <3>2 DEF BeginRun
      <4> QED BY <1>1, <4>1 DEF CountsOK
    <3> QED BY <3>1, <3>2
  <2>4. DecisionsOK'
    <3>1. CASE full
      BY <1>6, <3>1 DEF BeginRun, DecisionsOK
    <3>2. CASE ~full
      BY <1>2, <1>6, <3>2 DEF BeginRun
    <3> QED BY <3>1, <3>2
  <2>5. RetryOK'
    <3> SUFFICES ASSUME filing'.live, NEW j \in Mails', Untried(j)' PROVE j \in filing'.todo
      BY DEF RetryOK
    <3>1. j \in Mails /\ j \in DOMAIN filed /\ live
      BY <1>1, <1>6 DEF BeginRun, Mails
    <3>2. PICK b \in BouncesOf(filed', j) : LeftUnverified(Bounce(box[j], b.block), b.outcome)
      BY <1>6 DEF Untried, LeftUnverified, BeginRun
    <3>3. ~full /\ filed' = filed
      BY <1>6, <3>1, <3>2 DEF BeginRun, BouncesOf
    <3>4. b.rule \in Unverified
      BY <1>1, <3>1, <3>2, <3>3 DEF BouncesOf, DecisionsOK, RetriedLater
    <3>5. j \in Retried(filed', live, full)
      BY <3>1, <3>2, <3>3, <3>4 DEF Retried
    <3> QED BY <1>6, <3>5 DEF BeginRun
  <2> QED BY <2>2, <2>3, <2>4, <2>5 DEF FilingInv
<1>7. CASE FinishRun
  <2>1. FilingOK'
    BY <1>1, <1>7 DEF FinishRun, FilingOK, Mails, NotFiling
  <2>2. CountsOK'
    <3>0. filed' = filed
      BY <1>7 DEF FinishRun
    <3>1. CASE filing.full
      <4>1. groups' = [g \in {g \in DOMAIN groups : Members(filed, g) # {}} |-> groups[g]]
        BY <1>7, <3>1 DEF FinishRun
      <4>2. ASSUME NEW i \in DOMAIN filed, NEW g \in GroupsOf(filed, i) PROVE g \in DOMAIN groups'
        BY <1>1, <4>1, <4>2 DEF CountsOK, Members
      <4> QED BY <1>1, <3>0, <4>1, <4>2 DEF CountsOK
    <3>2. CASE ~filing.full
      <4>1. groups' = groups /\ (cut => cut')
        BY <1>7, <3>2 DEF FinishRun
      <4> QED BY <1>1, <3>0, <4>1 DEF CountsOK
    <3> QED BY <3>1, <3>2
  <2>3. RetryOK'
    BY <1>7 DEF FinishRun, RetryOK, NotFiling
  <2> QED BY <1>2, <1>7, <2>1, <2>2, <2>3 DEF FilingInv, FinishRun
<1>8. CASE StopRun
  <2>1. FilingOK'
    BY <1>1, <1>8 DEF StopRun, FilingOK, Mails, NotFiling
  <2>2. CountsOK'
    BY <1>1, <1>8 DEF StopRun, CountsOK
  <2>3. RetryOK'
    BY <1>8 DEF StopRun, RetryOK, NotFiling
  <2> QED BY <1>2, <1>8, <2>1, <2>2, <2>3 DEF FilingInv, StopRun
<1>9. CASE UNCHANGED filingVars
  <2>1. FilingOK'
    BY <1>1, <1>9 DEF filingVars, FilingOK, Mails
  <2>2. CountsOK'
    BY <1>1, <1>9 DEF filingVars, CountsOK
  <2>3. RetryOK'
    BY <1>1, <1>9 DEF filingVars, RetryOK, Untried, Mails
  <2> QED BY <1>2, <1>9, <2>1, <2>2, <2>3 DEF FilingInv, filingVars
<1> QED BY <1>3, <1>4, <1>5, <1>6, <1>7, <1>8, <1>9 DEF FilingNext

\* What is decided about a notice is true of the mail it is about, for any
\* mails, sending sources and DNS data (classifyWithSources, ExtractBounces,
\* sourceMatcher.match, aboutSentMail).
THEOREM NoticesAreJudged == FilingSpec => []JudgedByTruth
<1>1. FilingInv => JudgedByTruth
  BY ArrivedInBox DEF FilingInv, DecisionsOK, JudgedByTruth
<1> QED BY FilingStart, FilingStep, <1>1, PTL DEF FilingSpec

\* The counters of the groups match what is filed, and no group without mails
\* is left but by a full run that was cut off (groupMessageIn).
THEOREM GroupsAreCounted == FilingSpec => []FiledIsCounted
<1>1. FilingInv => FiledIsCounted
  BY ArrivedInBox DEF FilingInv, CountsOK, FiledIsCounted
<1> QED BY FilingStart, FilingStep, <1>1, PTL DEF FilingSpec

\* What was left unverified is tried again by every run that may ask
\* (ListMessagesByBounceRulePrefix).
THEOREM UnverifiedIsAskedAgain == FilingSpec => UnverifiedIsRetried
<1>1. FilingInv /\ [FilingNext]_filingVars => [FinishRun /\ filing.live => \A i \in Mails : Untried(i) => i \in filing.done]_filingVars
  BY DEF FilingInv, RetryOK, FinishRun
<1> QED BY FilingStart, FilingStep, <1>1, PTL DEF FilingSpec, UnverifiedIsRetried
=============================================================================
