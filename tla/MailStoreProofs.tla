-------------------------- MODULE MailStoreProofs --------------------------
(***************************************************************************)
(* What holds of the mails of a mailbox for any mails, copies of mails,    *)
(* retentions, batch sizes, UIDVALIDITY changes and number of failures:    *)
(* the index tells the truth, nothing is deleted that is not due, and a    *)
(* decision stays with its group.                                          *)
(***************************************************************************)
EXTENDS MailStore, FiniteSetTheorems, TLAPS

-----------------------------------------------------------------------------
(* The invariant, by what it is about.                                      *)

Deleting   == {"batch", "search", "store", "verify", "clear", "expunge", "mark"}
Pruning    == {"expired", "prune", "unrow"}
Fetching   == {"fetch", "insert"}
Rebuilding == {"build", "remove", "rename"}
Pcs        == {"idle"} \cup Deleting \cup Pruning \cup Fetching \cup Rebuilding
Fields     == {"pc", "mails", "found", "todo", "cur", "del", "marks", "keep", "day", "stop"}
Groups     == {"none", "open", "decided"}
Record     == [val : Nat, uid : Nat, cls : BOOLEAN, gone : BOOLEAN]

IsJob(j) ==
  /\ DOMAIN j = Fields
  /\ j.pc \in Pcs /\ j.stop \in BOOLEAN /\ j.keep \in Nat /\ j.day \in Nat
  /\ j.mails \subseteq Mails /\ j.found \subseteq Mails
  /\ j.todo \subseteq Keys /\ j.cur \subseteq Keys /\ j.del \subseteq Keys /\ j.marks \subseteq Keys

TypeInv ==
  /\ server \in [Mails -> {"away", "in", "gone"}] /\ uid \in [Mails -> Nat]
  /\ epoch \in Epochs /\ uidplus \in BOOLEAN /\ now \in Nat /\ eml \subseteq Keys
  /\ rows \in [Keys -> Record] /\ grp \in Groups
  /\ built = [rows |-> built.rows, grp |-> built.grp]
  /\ built.rows \in [Keys -> Record] /\ built.grp \in Groups
  /\ made \in BOOLEAN /\ adrift \in BOOLEAN /\ broken \in BOOLEAN
  /\ IsJob(job) /\ (job.pc = "idle" => job = Idle)

\* The folder: a mail in it has a UID of its own, and UIDs are numbered as
\* they are given.
FolderInv ==
  /\ \A m \in Mails : /\ server[m] = "away" => uid[m] = 0
                      /\ server[m] = "in" => uid[m] # 0
                      /\ uid[m] <= Cardinality({n \in Mails : uid[n] # 0})
  /\ \A m, n \in Mails : uid[m] = uid[n] /\ uid[m] # 0 => m = n
  /\ mine \subseteq flagged /\ covered \subseteq {m \in Mails : InFolder(m)}

\* What the tables of an index are held against: the folder, the files, and
\* what the model remembers.
View == [epoch |-> epoch, uid |-> uid, server |-> server, eml |-> eml, covered |-> covered,
         rescued |-> rescued, adrift |-> adrift]

\* A row of table R names mail m as view v numbers it.
Current(R, k, v) == R[k] # NoRow /\ R[k].val = v.epoch
Of(R, k, m, v)   == Current(R, k, v) /\ R[k].uid = v.uid[m]
Copy(k, m)       == k[1] = m \/ (MsgId[m] # NoId /\ IdOf(k) = MsgId[m])

\* A row that names a mail is of it or of a copy, and of no other; a row marked
\* as deleted tells the truth.
RowOk(R, k, v) ==
  /\ R[k].val <= v.epoch /\ k[2] <= v.epoch
  /\ R[k].val = v.epoch => \E n \in Mails : v.uid[n] # 0 /\ v.uid[n] = R[k].uid /\ Copy(k, n)
  /\ R[k].val = v.epoch /\ R[k].gone =>
       \A m \in Mails : v.server[m] = "in" /\ v.uid[m] = R[k].uid => m \in v.rescued
  /\ k[2] = v.epoch /\ ~v.adrift => R[k].val = v.epoch /\ R[k].uid = v.uid[k[1]]
TableOk(R, v) ==
  /\ \A k \in Keys : R[k] # NoRow => RowOk(R, k, v)
  /\ \A k, l \in Keys : Current(R, k, v) /\ Current(R, l, v) /\ R[k].uid = R[l].uid => k = l

\* The mails that finished fetches found have their row and their file.
CoveredIn(R, v) ==
  ~v.adrift => \A m \in v.covered : \E k \in Keys : k \in v.eml /\ Of(R, k, m, v)

\* The rows with a Message-ID stand for different mails that arrived, by f, and
\* for none of those in hand.
Ided(R) == {k \in Keys : R[k] # NoRow /\ IdOf(k) # NoId}
Stands(R, f, v, hand) ==
  /\ \A k, l \in Ided(R) : f[k] = f[l] => k = l
  /\ \A k \in Ided(R) : /\ MsgId[f[k]] = IdOf(k) /\ v.server[f[k]] # "away" /\ f[k] \notin hand
                        /\ R[k].val = v.epoch => v.uid[f[k]] = R[k].uid
                        /\ R[k].gone => v.server[f[k]] = "gone"
OnceIn(R, v, hand) ==
  ~v.adrift /\ v.rescued = {} => \E f \in [Ided(R) -> Mails] : Stands(R, f, v, hand)

\* The mail a fetch has written to its file and not to the table yet.
InHand == IF job.pc = "insert" THEN {k[1] : k \in job.cur} ELSE {}

TablesInv ==
  /\ TableOk(rows, View) /\ OnceIn(rows, View, InHand) /\ RowHasFile
  /\ job.pc # "rename" => CoveredIn(rows, View)
  /\ job.pc \in Rebuilding =>
       TableOk(built.rows, View) /\ OnceIn(built.rows, View, {}) /\ CoveredIn(built.rows, View)
  /\ job.pc \in {"remove", "rename"} => \A k \in Keys : built.rows[k] # NoRow => k \in eml
  /\ \A k \in eml : k[2] <= epoch

\* A fetch: what it has still to get has no row, what it got has one.
FetchInv ==
  job.pc \in Fetching =>
    /\ job.mails \subseteq job.found
    /\ \A m \in job.found : uid[m] # 0
    /\ \A m \in job.mails : \A k \in Keys : ~Of(rows, k, m, View)
    /\ ~adrift => \A m \in job.found : InFolder(m) =>
         \/ m \in job.mails \/ \E k \in Keys : Of(rows, k, m, View)
         \/ job.pc = "insert" /\ <<m, epoch>> \in job.cur
    /\ job.pc = "insert" =>
         \E m \in Mails : /\ job.cur = {<<m, epoch>>} /\ <<m, epoch>> \in eml
                          /\ uid[m] # 0 /\ m \notin job.mails
                          /\ \A k \in Keys : ~Of(rows, k, m, View)
                          /\ MsgId[m] = NoId \/ Stale(m) = {}

\* A deletion on the server: what it handles is classified and due, what it is
\* to mark is no more in the folder, and its flags are on the mails it deletes.
Due(k) == rows[k].cls /\ k[1] \in Certain /\ job.day > Date[k[1]] + job.keep
Handled == job.todo \cup job.del \cup job.marks
DeleteInv ==
  /\ job.pc \in Deleting =>
       /\ \A k \in Handled : Current(rows, k, View)
       /\ \A k \in job.todo \cup job.del : Due(k)
       /\ \A k \in job.marks : Named(k) \subseteq rescued
       /\ job.pc \in {"batch", "mark"} => job.del = {}
       /\ job.pc = "batch" => job.marks = {}
  /\ job.pc \in {"verify", "expunge"} => Doomed \subseteq flagged \cup rescued
  /\ job.pc = "expunge" /\ ~uidplus => flagged \subseteq Doomed \cup fresh
  /\ ~broken /\ mine # {} => job.pc \in {"verify", "clear", "expunge"} /\ mine \subseteq Doomed

\* What was due on the server when the cleanup began is marked, or in hand.
Served(k) ==
  Current(rows, k, View) /\ Due(k) /\ IdOf(k) # NoId => rows[k].gone \/ (job.pc \in Deleting /\ k \in Handled)
ServedInv ==
  /\ job.pc \in Deleting \cup Pruning /\ job.keep > 0 =>
       /\ job.keep <= MailKeep
       /\ ~job.stop => \A k \in Keys : Served(k)
  /\ job.pc \in {"prune", "unrow"} => \A k \in job.todo : Expired(k)
  /\ job.pc = "unrow" => \A k \in job.cur : /\ Expired(k)
                                            /\ \A m \in covered : ~Of(rows, k, m, View)

\* A decision that counts is in the index, or in what a rebuild carries over.
DecisionInv ==
  /\ job.pc = "rename" => grp = "none"
  /\ made /\ job.pc # "rename" => grp = "decided"
  /\ made /\ job.pc = "build" => built.grp = "decided"
  /\ made /\ job.pc \in {"remove", "rename"} => built.grp \in {"decided", "none"}

StoreInv ==
  TypeInv /\ FolderInv /\ TablesInv /\ FetchInv /\ DeleteInv /\ ServedInv /\ DecisionInv
-----------------------------------------------------------------------------
(* What the operators give.                                                 *)

LEMMA TypesOfConstants ==
  /\ NoRow \in Record /\ Synthetic \in Record
  /\ Empty \in [Keys -> Record] /\ \A k \in Keys : Empty[k] = NoRow
  /\ \A k \in Keys : k[1] \in Mails /\ k[2] \in Epochs /\ k = <<k[1], k[2]>> /\ Date[k[1]] \in Nat
  /\ NoIndex.rows = Empty /\ NoIndex.grp = "none"
  /\ \A e \in Epochs : e \in Nat /\ e # 0
  /\ MailKeep \in Nat /\ MailKeep # 0
<1>1. NoRow \in Record /\ Synthetic \in Record
  BY DEF NoRow, Synthetic, Record
<1>2. \A k \in Keys : k[1] \in Mails /\ k[2] \in Epochs /\ k = <<k[1], k[2]>> /\ Date[k[1]] \in Nat
  BY StoreBoundsAssumption DEF Keys
<1>3. Empty \in [Keys -> Record] /\ \A k \in Keys : Empty[k] = NoRow
  BY <1>1 DEF Empty
<1>4. /\ \A e \in Epochs : e \in Nat /\ e # 0
      /\ MailKeep \in Nat /\ MailKeep # 0
  BY StoreBoundsAssumption DEF Epochs
<1> QED BY <1>1, <1>2, <1>3, <1>4 DEF NoIndex

LEMMA SmallerOf ==
  ASSUME NEW a \in Nat, NEW b \in Nat
  PROVE  Smaller(a, b) \in Nat /\ Smaller(a, b) <= a /\ Smaller(a, b) <= b
BY DEF Smaller

\* The folder goes on from v to w under one UIDVALIDITY: mails arrive with new
\* UIDs and go, and none comes back.
Follows(v, w) ==
  /\ w.epoch = v.epoch /\ (v.adrift => w.adrift) /\ v.rescued \subseteq w.rescued
  /\ \A m \in Mails :
       /\ v.uid[m] # 0 => w.uid[m] = v.uid[m]
       /\ v.server[m] # "away" => w.server[m] # "away"
       /\ v.server[m] = "gone" => w.server[m] = "gone"
       /\ w.server[m] = "in" => \/ v.server[m] = "in" /\ v.uid[m] # 0
                                \/ \A n \in Mails : v.uid[n] # 0 => v.uid[n] # w.uid[m]

\* Every row of S is one of R, with the identity it has there.
Within(S, R) ==
  \A k \in Keys : S[k] # NoRow =>
    R[k] # NoRow /\ S[k].val = R[k].val /\ S[k].uid = R[k].uid /\ (S[k].gone => R[k].gone)

LEMMA TableFollows ==
  ASSUME NEW R, NEW v, NEW w, TableOk(R, v), Follows(v, w)
  PROVE  TableOk(R, w)
<1>1. ASSUME NEW k \in Keys, R[k] # NoRow PROVE RowOk(R, k, w)
  <2>1. RowOk(R, k, v)
    BY <1>1 DEF TableOk
  <2>2. R[k].val = v.epoch => \E n \in Mails : v.uid[n] # 0 /\ v.uid[n] = R[k].uid /\ Copy(k, n) /\ w.uid[n] = v.uid[n]
    BY <2>1 DEF RowOk, Follows
  <2>3. w.epoch = v.epoch
    BY DEF Follows
  <2>4. ASSUME NEW m \in Mails, R[k].val = v.epoch, R[k].gone, w.server[m] = "in", w.uid[m] = R[k].uid
        PROVE  m \in w.rescued
    <3>1. v.server[m] = "in" /\ v.uid[m] # 0
      BY <2>2, <2>4 DEF Follows
    <3>2. w.uid[m] = v.uid[m] /\ v.rescued \subseteq w.rescued
      BY <3>1 DEF Follows
    <3> QED BY <2>1, <2>4, <3>1, <3>2 DEF RowOk
  <2>5. k[2] = v.epoch /\ ~w.adrift => R[k].val = v.epoch /\ R[k].uid = w.uid[k[1]]
    BY <2>1, <2>2, TypesOfConstants DEF RowOk, Follows
  <2> QED BY <2>1, <2>2, <2>3, <2>4, <2>5 DEF RowOk
<1>2. \A k, l \in Keys : Current(R, k, w) /\ Current(R, l, w) /\ R[k].uid = R[l].uid => k = l
  BY DEF TableOk, Current, Follows
<1> QED BY <1>1, <1>2 DEF TableOk

LEMMA OnceFollows ==
  ASSUME NEW R, NEW v, NEW w, NEW hand, TableOk(R, v), Follows(v, w), OnceIn(R, v, hand)
  PROVE  OnceIn(R, w, hand)
<1> SUFFICES ASSUME ~w.adrift, w.rescued = {}
             PROVE  \E f \in [Ided(R) -> Mails] : Stands(R, f, w, hand)
  BY DEF OnceIn
<1>1. PICK f \in [Ided(R) -> Mails] : Stands(R, f, v, hand)
  BY DEF OnceIn, Follows
<1>2. ASSUME NEW k \in Ided(R)
      PROVE  /\ MsgId[f[k]] = IdOf(k) /\ w.server[f[k]] # "away" /\ f[k] \notin hand
             /\ R[k].val = w.epoch => w.uid[f[k]] = R[k].uid
             /\ R[k].gone => w.server[f[k]] = "gone"
  <2>1. k \in Keys /\ R[k] # NoRow /\ f[k] \in Mails
    BY DEF Ided
  <2>2. /\ MsgId[f[k]] = IdOf(k) /\ v.server[f[k]] # "away" /\ f[k] \notin hand
        /\ R[k].val = v.epoch => v.uid[f[k]] = R[k].uid
        /\ R[k].gone => v.server[f[k]] = "gone"
    BY <1>1 DEF Stands
  <2>3. R[k].val = v.epoch => R[k].uid # 0
    BY <2>1 DEF TableOk, RowOk
  <2> QED BY <2>1, <2>2, <2>3 DEF Follows
<1>3. Stands(R, f, w, hand)
  BY <1>1, <1>2 DEF Stands
<1> QED BY <1>3

LEMMA CoveredFollows ==
  ASSUME NEW R, NEW v, NEW w, CoveredIn(R, v), w.epoch = v.epoch, w.eml = v.eml,
         \A m \in w.covered : m \in v.covered /\ w.uid[m] = v.uid[m], v.adrift => w.adrift
  PROVE  CoveredIn(R, w)
BY DEF CoveredIn, Of, Current

\* Under a new UIDVALIDITY no row names a mail.
LEMMA TableRecreated ==
  ASSUME NEW R, NEW v, NEW w, NEW hand, TableOk(R, v), OnceIn(R, v, hand), R \in [Keys -> Record],
         v.epoch \in Nat, w.epoch = v.epoch + 1, w.adrift = v.adrift, w.rescued = v.rescued,
         w.server = v.server
  PROVE  TableOk(R, w) /\ OnceIn(R, w, hand)
<1>1. ASSUME NEW k \in Keys, R[k] # NoRow
      PROVE  R[k].val < w.epoch /\ k[2] < w.epoch
  <2>1. RowOk(R, k, v) /\ R[k].val \in Nat /\ k[2] \in Nat
    BY <1>1, TypesOfConstants DEF TableOk, Record
  <2> QED BY <2>1 DEF RowOk
<1>2. TableOk(R, w)
  <2>1. ASSUME NEW k \in Keys, R[k] # NoRow PROVE RowOk(R, k, w) /\ R[k].val # w.epoch
    <3>1. R[k].val \in Nat /\ k[2] \in Nat /\ w.epoch \in Nat
      BY TypesOfConstants DEF Record
    <3> QED BY <1>1, <2>1, <3>1 DEF RowOk
  <2> QED BY <2>1 DEF TableOk, Current
<1>3. OnceIn(R, w, hand)
  <2> SUFFICES ASSUME ~w.adrift, w.rescued = {}
               PROVE  \E f \in [Ided(R) -> Mails] : Stands(R, f, w, hand)
    BY DEF OnceIn
  <2>1. PICK f \in [Ided(R) -> Mails] : Stands(R, f, v, hand)
    BY DEF OnceIn
  <2>2. \A k \in Ided(R) : R[k].val # w.epoch
    <3> SUFFICES ASSUME NEW k \in Ided(R) PROVE R[k].val # w.epoch
      OBVIOUS
    <3>1. k \in Keys /\ R[k] # NoRow
      BY DEF Ided
    <3>2. R[k].val \in Nat
      BY <3>1 DEF Record
    <3> QED BY <1>1, <3>1, <3>2
  <2>3. Stands(R, f, w, hand)
    BY <2>1, <2>2 DEF Stands
  <2> QED BY <2>3
<1> QED BY <1>2, <1>3

LEMMA TableWithin ==
  ASSUME NEW R, NEW S, NEW v, NEW hand, TableOk(R, v), OnceIn(R, v, hand), Within(S, R)
  PROVE  TableOk(S, v) /\ OnceIn(S, v, hand)
<1>1. TableOk(S, v)
  <2>1. ASSUME NEW k \in Keys, S[k] # NoRow PROVE RowOk(S, k, v)
    <3>1. RowOk(R, k, v)
      BY <2>1 DEF TableOk, Within
    <3>2. S[k].val = R[k].val /\ S[k].uid = R[k].uid /\ (S[k].gone => R[k].gone)
      BY <2>1 DEF Within
    <3> QED BY <3>1, <3>2 DEF RowOk
  <2>2. \A k, l \in Keys : Current(S, k, v) /\ Current(S, l, v) /\ S[k].uid = S[l].uid => k = l
    BY DEF TableOk, Within, Current
  <2> QED BY <2>1, <2>2 DEF TableOk
<1>2. OnceIn(S, v, hand)
  <2> SUFFICES ASSUME ~v.adrift, v.rescued = {}
               PROVE  \E f \in [Ided(S) -> Mails] : Stands(S, f, v, hand)
    BY DEF OnceIn
  <2>1. PICK f \in [Ided(R) -> Mails] : Stands(R, f, v, hand)
    BY DEF OnceIn
  <2>2. Ided(S) \subseteq Ided(R)
    BY DEF Ided, Within
  <2> DEFINE g == [k \in Ided(S) |-> f[k]]
  <2>3. g \in [Ided(S) -> Mails] /\ \A k \in Ided(S) : g[k] = f[k]
    BY <2>2
  <2>4. ASSUME NEW k \in Ided(S)
        PROVE  k \in Ided(R) /\ S[k].val = R[k].val /\ S[k].uid = R[k].uid /\ (S[k].gone => R[k].gone)
    BY <2>2 DEF Ided, Within
  <2> HIDE DEF g
  <2>5. Stands(S, g, v, hand)
    BY <2>1, <2>3, <2>4 DEF Stands
  <2> QED BY <2>3, <2>5
<1> QED BY <1>1, <1>2

LEMMA TableEmpty ==
  ASSUME NEW v, NEW hand
  PROVE  TableOk(Empty, v) /\ OnceIn(Empty, v, hand)
<1>1. Ided(Empty) = {}
  BY TypesOfConstants DEF Ided
<1>2. TableOk(Empty, v)
  BY TypesOfConstants DEF TableOk, Current
<1>3. [k \in {} |-> CHOOSE m \in Mails : TRUE] \in [{} -> Mails]
  OBVIOUS
<1>4. Stands(Empty, [k \in {} |-> CHOOSE m \in Mails : TRUE], v, hand)
  BY <1>1 DEF Stands
<1> QED BY <1>1, <1>2, <1>3, <1>4 DEF OnceIn

\* A mail arrived again under a new UIDVALIDITY: its row takes the new UID.
LEMMA TableReidentified ==
  ASSUME NEW R \in [Keys -> Record], NEW S \in [Keys -> Record], NEW v, NEW m \in Mails, NEW k \in Keys,
         TableOk(R, v), OnceIn(R, v, {}),
         R[k] # NoRow, R[k].val # v.epoch, ~R[k].gone, IdOf(k) = MsgId[m], MsgId[m] # NoId,
         v.epoch # 0, v.server[m] = "in", v.uid[m] # 0, \A l \in Keys : ~Of(R, l, m, v),
         S[k].val = v.epoch, S[k].uid = v.uid[m], S[k].gone = R[k].gone,
         \A l \in Keys : l # k => S[l] = R[l]
  PROVE  TableOk(S, v) /\ OnceIn(S, v, {})
<1>1. S[k] # NoRow /\ ~S[k].gone
  BY DEF NoRow
<1>2. TableOk(S, v)
  <2>1. ASSUME NEW l \in Keys, S[l] # NoRow PROVE RowOk(S, l, v)
    <3>1. CASE l # k
      <4>1. RowOk(R, l, v) /\ S[l] = R[l]
        BY <2>1, <3>1 DEF TableOk
      <4> QED BY <4>1 DEF RowOk
    <3>2. CASE l = k
      <4>1. RowOk(R, k, v)
        BY DEF TableOk
      <4>2. v.epoch \in Nat => S[k].val <= v.epoch
        OBVIOUS
      <4>3. S[k].val \in Nat
        BY DEF Record
      <4>4. S[k].val <= v.epoch
        BY <4>3
      <4>5. Copy(k, m)
        BY DEF Copy
      <4> QED BY <1>1, <3>2, <4>1, <4>4, <4>5 DEF RowOk
    <3> QED BY <3>1, <3>2
  <2>2. ASSUME NEW i \in Keys, NEW j \in Keys, Current(S, i, v), Current(S, j, v), S[i].uid = S[j].uid
        PROVE  i = j
    <3>1. CASE i # k /\ j # k
      BY <2>2, <3>1 DEF TableOk, Current
    <3>2. CASE i = k /\ j # k
      BY <2>2, <3>2 DEF Current, Of
    <3>3. CASE i # k /\ j = k
      BY <2>2, <3>3 DEF Current, Of
    <3> QED BY <3>1, <3>2, <3>3
  <2> QED BY <2>1, <2>2 DEF TableOk
<1>3. OnceIn(S, v, {})
  <2> SUFFICES ASSUME ~v.adrift, v.rescued = {}
               PROVE  \E f \in [Ided(S) -> Mails] : Stands(S, f, v, {})
    BY DEF OnceIn
  <2>1. PICK f \in [Ided(R) -> Mails] : Stands(R, f, v, {})
    BY DEF OnceIn
  <2>2. Ided(S) = Ided(R) /\ k \in Ided(R)
    BY <1>1 DEF Ided
  <2> DEFINE g == [l \in Ided(R) |-> IF l = k THEN m ELSE IF f[l] = m THEN f[k] ELSE f[l]]
  <2>3. /\ g \in [Ided(S) -> Mails] /\ g[k] = m
        /\ \A l \in Ided(R) : l # k => g[l] = IF f[l] = m THEN f[k] ELSE f[l]
    BY <2>2
  <2> HIDE DEF g
  <2>4. \A i, j \in Ided(S) : g[i] = g[j] => i = j
    BY <2>1, <2>2, <2>3 DEF Stands
  <2>5. ASSUME NEW l \in Ided(S)
        PROVE  /\ MsgId[g[l]] = IdOf(l) /\ v.server[g[l]] # "away" /\ g[l] \notin {}
               /\ S[l].val = v.epoch => v.uid[g[l]] = S[l].uid
               /\ S[l].gone => v.server[g[l]] = "gone"
    <3>1. l \in Keys /\ l \in Ided(R) /\ R[l] # NoRow
      BY <2>2 DEF Ided
    <3>2. CASE l = k
      BY <1>1, <2>3, <3>2
    <3>3. CASE l # k /\ f[l] # m
      BY <2>1, <2>3, <3>1, <3>3 DEF Stands
    <3>4. CASE l # k /\ f[l] = m
      <4>1. g[l] = f[k] /\ S[l] = R[l]
        BY <2>3, <3>1, <3>4
      <4>2. R[l].val # v.epoch /\ ~R[l].gone /\ MsgId[m] = IdOf(l)
        BY <2>1, <3>1, <3>4 DEF Stands, Of, Current
      <4>3. MsgId[f[k]] = IdOf(k) /\ v.server[f[k]] # "away"
        BY <2>1, <2>2 DEF Stands
      <4> QED BY <4>1, <4>2, <4>3
    <3> QED BY <3>2, <3>3, <3>4
  <2>6. Stands(S, g, v, {})
    BY <2>4, <2>5 DEF Stands
  <2> QED BY <2>3, <2>6
<1> QED BY <1>2, <1>3

\* A mail that no row stands for gets one.
LEMMA TableInserted ==
  ASSUME NEW R \in [Keys -> Record], NEW S \in [Keys -> Record], NEW v, NEW m \in Mails, NEW k \in Keys,
         TableOk(R, v), OnceIn(R, v, {m}),
         k[1] = m, k[2] = v.epoch, v.epoch \in Nat, v.epoch # 0, R[k] = NoRow, v.server[m] # "away", v.uid[m] # 0,
         \A l \in Keys : ~Of(R, l, m, v),
         S[k].val = v.epoch, S[k].uid = v.uid[m], ~S[k].gone, \A l \in Keys : l # k => S[l] = R[l]
  PROVE  TableOk(S, v) /\ OnceIn(S, v, {})
<1>1. S[k] # NoRow /\ Copy(k, m)
  BY DEF NoRow, Copy
<1>2. TableOk(S, v)
  <2>1. ASSUME NEW l \in Keys, S[l] # NoRow PROVE RowOk(S, l, v)
    <3>1. CASE l # k
      <4>1. RowOk(R, l, v) /\ S[l] = R[l]
        BY <2>1, <3>1 DEF TableOk
      <4> QED BY <4>1 DEF RowOk
    <3>2. CASE l = k
      BY <1>1, <3>2 DEF RowOk
    <3> QED BY <3>1, <3>2
  <2>2. ASSUME NEW i \in Keys, NEW j \in Keys, Current(S, i, v), Current(S, j, v), S[i].uid = S[j].uid
        PROVE  i = j
    <3>1. CASE i # k /\ j # k
      BY <2>2, <3>1 DEF TableOk, Current
    <3>2. CASE i = k /\ j # k
      BY <2>2, <3>2 DEF Current, Of
    <3>3. CASE i # k /\ j = k
      BY <2>2, <3>3 DEF Current, Of
    <3> QED BY <3>1, <3>2, <3>3
  <2> QED BY <2>1, <2>2 DEF TableOk
<1>3. OnceIn(S, v, {})
  <2> SUFFICES ASSUME ~v.adrift, v.rescued = {}
               PROVE  \E f \in [Ided(S) -> Mails] : Stands(S, f, v, {})
    BY DEF OnceIn
  <2>1. PICK f \in [Ided(R) -> Mails] : Stands(R, f, v, {m})
    BY DEF OnceIn
  <2>2. /\ \A l \in Ided(S) : l # k => l \in Ided(R)
        /\ k \notin Ided(R)
        /\ k \in Ided(S) => IdOf(k) # NoId
    BY <1>1 DEF Ided
  <2> DEFINE g == [l \in Ided(S) |-> IF l = k THEN m ELSE f[l]]
  <2>3. /\ g \in [Ided(S) -> Mails]
        /\ k \in Ided(S) => g[k] = m
        /\ \A l \in Ided(S) : l # k => g[l] = f[l]
    BY <2>2
  <2> HIDE DEF g
  <2>4. \A l \in Ided(S) : l # k => f[l] # m
    BY <2>1, <2>2 DEF Stands
  <2>5. \A i, j \in Ided(S) : g[i] = g[j] => i = j
    BY <2>1, <2>2, <2>3, <2>4 DEF Stands
  <2>6. ASSUME NEW l \in Ided(S)
        PROVE  /\ MsgId[g[l]] = IdOf(l) /\ v.server[g[l]] # "away" /\ g[l] \notin {}
               /\ S[l].val = v.epoch => v.uid[g[l]] = S[l].uid
               /\ S[l].gone => v.server[g[l]] = "gone"
    <3>1. l \in Keys
      BY DEF Ided
    <3>2. CASE l = k
      BY <2>3, <3>2 DEF IdOf
    <3>3. CASE l # k
      BY <2>1, <2>2, <2>3, <3>1, <3>3 DEF Stands
    <3> QED BY <3>2, <3>3
  <2>7. Stands(S, g, v, {})
    BY <2>5, <2>6 DEF Stands
  <2> QED BY <2>3, <2>7
<1> QED BY <1>2, <1>3

\* A row is marked whose mail is no more in the folder.
LEMMA TableMarked ==
  ASSUME NEW R \in [Keys -> Record], NEW S \in [Keys -> Record], NEW v, NEW k \in Keys,
         TableOk(R, v), OnceIn(R, v, {}), Current(R, k, v),
         \A m \in Mails : v.server[m] = "in" /\ v.uid[m] = R[k].uid => m \in v.rescued,
         \A m \in Mails : v.server[m] \in {"away", "in", "gone"},
         S[k].val = R[k].val, S[k].uid = R[k].uid, \A l \in Keys : l # k => S[l] = R[l]
  PROVE  TableOk(S, v) /\ OnceIn(S, v, {})
<1>1. S[k] # NoRow => R[k] # NoRow
  BY DEF Current
<1>2. TableOk(S, v)
  <2>1. ASSUME NEW l \in Keys, S[l] # NoRow PROVE RowOk(S, l, v)
    <3>1. RowOk(R, l, v)
      BY <1>1, <2>1 DEF TableOk
    <3>2. CASE l # k
      BY <3>1, <3>2 DEF RowOk
    <3>3. CASE l = k
      BY <3>1, <3>3 DEF RowOk, Current
    <3> QED BY <3>2, <3>3
  <2>2. \A i, j \in Keys : Current(S, i, v) /\ Current(S, j, v) /\ S[i].uid = S[j].uid => i = j
    BY <1>1 DEF TableOk, Current
  <2> QED BY <2>1, <2>2 DEF TableOk
<1>3. OnceIn(S, v, {})
  <2> SUFFICES ASSUME ~v.adrift, v.rescued = {}
               PROVE  \E f \in [Ided(S) -> Mails] : Stands(S, f, v, {})
    BY DEF OnceIn
  <2>1. PICK f \in [Ided(R) -> Mails] : Stands(R, f, v, {})
    BY DEF OnceIn
  <2>2. Ided(S) \subseteq Ided(R)
    BY <1>1 DEF Ided
  <2> DEFINE g == [l \in Ided(S) |-> f[l]]
  <2>3. g \in [Ided(S) -> Mails] /\ \A l \in Ided(S) : g[l] = f[l]
    BY <2>2
  <2> HIDE DEF g
  <2>4. ASSUME NEW l \in Ided(S)
        PROVE  /\ MsgId[g[l]] = IdOf(l) /\ v.server[g[l]] # "away" /\ g[l] \notin {}
               /\ S[l].val = v.epoch => v.uid[g[l]] = S[l].uid
               /\ S[l].gone => v.server[g[l]] = "gone"
    <3>1. /\ l \in Keys /\ l \in Ided(R) /\ f[l] \in Mails /\ g[l] = f[l]
          /\ MsgId[f[l]] = IdOf(l) /\ v.server[f[l]] # "away"
          /\ R[l].val = v.epoch => v.uid[f[l]] = R[l].uid
          /\ R[l].gone => v.server[f[l]] = "gone"
      BY <2>1, <2>2, <2>3 DEF Stands, Ided
    <3>2. CASE l # k
      BY <3>1, <3>2
    <3>3. CASE l = k
      <4>1. v.server[f[k]] # "in"
        BY <3>1, <3>3 DEF Current
      <4> QED BY <3>1, <3>3, <4>1
    <3> QED BY <3>2, <3>3
  <2>5. Stands(S, g, v, {})
    BY <2>1, <2>2, <2>3, <2>4 DEF Stands
  <2> QED BY <2>3, <2>5
<1> QED BY <1>2, <1>3

-----------------------------------------------------------------------------
(* What a step leaves alone.                                                *)

LEMMA ViewFields ==
  /\ View.epoch = epoch /\ View.uid = uid /\ View.server = server /\ View.eml = eml
  /\ View.covered = covered /\ View.rescued = rescued /\ View.adrift = adrift
BY DEF View

LEMMA ViewFieldsPrime ==
  /\ View'.epoch = epoch' /\ View'.uid = uid' /\ View'.server = server' /\ View'.eml = eml'
  /\ View'.covered = covered' /\ View'.rescued = rescued' /\ View'.adrift = adrift'
BY DEF View

LEMMA OnceFewer ==
  ASSUME NEW R, NEW v, NEW hand, NEW less, OnceIn(R, v, hand), less \subseteq hand
  PROVE  OnceIn(R, v, less)
<1>1. ASSUME NEW f, Stands(R, f, v, hand) PROVE Stands(R, f, v, less)
  BY <1>1 DEF Stands
<1> QED BY <1>1 DEF OnceIn

LEMMA FolderFrame ==
  ASSUME FolderInv, UNCHANGED <<server, uid>>, mine' \subseteq flagged',
         covered' \subseteq {m \in Mails : InFolder(m)}
  PROVE  FolderInv'
BY DEF FolderInv, InFolder

LEMMA TablesFrame ==
  ASSUME TablesInv, UNCHANGED <<server, uid, epoch, rows, eml, now, rescued, covered, adrift>>,
         InHand' \subseteq InHand, job.pc # "rename", job'.pc \notin Rebuilding
  PROVE  TablesInv'
<1>1. View' = View
  BY DEF View
<1>2. OnceIn(rows, View, InHand')
  BY OnceFewer DEF TablesInv
<1>3. RowHasFile'
  BY DEF TablesInv, RowHasFile, Stored, Expired
<1> QED BY <1>1, <1>2, <1>3 DEF TablesInv, Rebuilding

LEMMA NotInTheMiddle ==
  ASSUME job'.pc \notin Deleting \cup Pruning \cup Fetching, ~broken' => mine' = {}
  PROVE  FetchInv' /\ DeleteInv' /\ ServedInv'
BY DEF FetchInv, DeleteInv, ServedInv, Deleting, Pruning, Fetching

LEMMA IdleJob ==
  /\ IsJob(Idle) /\ Idle.pc = "idle"
  /\ Idle.mails = {} /\ Idle.found = {} /\ Idle.todo = {} /\ Idle.cur = {} /\ Idle.del = {}
  /\ Idle.marks = {} /\ Idle.keep = 0 /\ Idle.day = 0 /\ ~Idle.stop
BY DEF Idle, IsJob, Fields, Pcs

LEMMA NothingInHand ==
  /\ job.pc # "insert" => InHand = {}
  /\ job'.pc # "insert" => InHand' = {}
BY DEF InHand

LEMMA NoFlagsOfOurs ==
  ASSUME DeleteInv, job.pc \notin {"verify", "clear", "expunge"}
  PROVE  ~broken => mine = {}
BY DEF DeleteInv

-----------------------------------------------------------------------------
(* The steps of a rebuild, of users, and failures.                          *)

LEMMA StoreStarts == Init => StoreInv
<1> SUFFICES ASSUME Init PROVE StoreInv
  OBVIOUS
<1> USE DEF Init
<1>1. TypeInv
  <2>1. 1 \in Epochs
    BY StoreBoundsAssumption DEF Epochs
  <2>2. uidplus \in BOOLEAN
    BY StoreBoundsAssumption
  <2> QED BY <2>1, <2>2, IdleJob, TypesOfConstants DEF TypeInv, NoIndex, Groups
<1>2. FolderInv
  <2>1. {n \in Mails : uid[n] # 0} = {}
    OBVIOUS
  <2>2. Cardinality({n \in Mails : uid[n] # 0}) = 0
    BY <2>1, FS_EmptySet
  <2> QED BY <2>2 DEF FolderInv
<1>3. FetchInv /\ DeleteInv /\ ServedInv
  BY IdleJob DEF FetchInv, DeleteInv, ServedInv, Deleting, Pruning, Fetching
<1>4. TablesInv
  <2>1. job.pc = "idle"
    BY IdleJob
  <2>2. TableOk(rows, View) /\ OnceIn(rows, View, InHand)
    BY TableEmpty
  <2>3. RowHasFile
    BY TypesOfConstants DEF RowHasFile, Stored
  <2>4. CoveredIn(rows, View)
    BY ViewFields DEF CoveredIn
  <2> QED BY <2>1, <2>2, <2>3, <2>4 DEF TablesInv, Rebuilding
<1>5. DecisionInv
  BY IdleJob DEF DecisionInv
<1> QED BY <1>1, <1>2, <1>3, <1>4, <1>5 DEF StoreInv

\* A user decides.
LEMMA DecideStep ==
  ASSUME StoreInv, Decide
  PROVE  StoreInv'
<1> USE DEF StoreInv
<1>1. /\ UNCHANGED <<server, uid, epoch, flagged, uidplus, now, rows, eml, job, built, mine, purged>>
      /\ UNCHANGED <<fresh, rescued, covered, adrift, broken>>
      /\ grp = "open" /\ grp' = "decided" /\ made' = (job.pc \notin {"build", "remove"})
  BY DEF Decide, folder
<1>2. TypeInv'
  BY <1>1 DEF TypeInv, Groups
<1>3. FolderInv'
  BY <1>1 DEF FolderInv, InFolder
<1>4. View' = View /\ InHand' = InHand /\ RowHasFile'
  BY <1>1 DEF View, InHand, TablesInv, RowHasFile, Stored, Expired
<1>5. TablesInv'
  BY <1>1, <1>4 DEF TablesInv
<1>6. FetchInv'
  <2>1. \A m : Stale(m)' = Stale(m)
    BY <1>1 DEF Stale, Stored
  <2> QED BY <1>1, <1>4, <2>1 DEF FetchInv, InFolder
<1>7. Doomed' = Doomed /\ Handled' = Handled /\ \A k : Due(k)' = Due(k) /\ Named(k)' = Named(k)
  BY <1>1 DEF Doomed, Handled, Due, Named, Names, InFolder
<1>8. DeleteInv'
  BY <1>1, <1>4, <1>7 DEF DeleteInv
<1>9. ServedInv'
  BY <1>1, <1>4, <1>7 DEF ServedInv, Served, Expired
<1>10. DecisionInv'
  BY <1>1 DEF DecisionInv
<1> QED BY <1>2, <1>3, <1>5, <1>6, <1>8, <1>9, <1>10

\* The job is lost with its process, or ends with an error.
LEMMA CrashStep ==
  ASSUME StoreInv, Crash
  PROVE  StoreInv'
<1> USE DEF StoreInv
<1>1. /\ UNCHANGED <<server, uid, epoch, flagged, uidplus, now, rows, eml, grp, mine, purged>>
      /\ UNCHANGED <<fresh, rescued, adrift>> /\ job' = Idle /\ built' = NoIndex
      /\ broken' = (broken \/ Doomed \intersect mine # {}) /\ made' = (made /\ job.pc # "rename")
      /\ covered' = IF job.pc = "rename" THEN {} ELSE covered
  BY DEF Crash, folder, index
<1>2. job'.pc = "idle" /\ InHand' = {}
  BY <1>1, IdleJob, NothingInHand
<1>3. TypeInv'
  BY <1>1, <1>2, IdleJob, TypesOfConstants DEF TypeInv, NoIndex, Groups
<1>4. FolderInv'
  BY <1>1, FolderFrame DEF FolderInv
<1>5. TablesInv'
  <2>1. Follows(View, View')
    BY <1>1 DEF Follows, View, FolderInv
  <2>2. TableOk(rows, View') /\ OnceIn(rows, View', InHand)
    BY <2>1, TableFollows, OnceFollows DEF TablesInv
  <2>3. OnceIn(rows, View', {})
    BY <2>2, OnceFewer
  <2>4. CoveredIn(rows, View')
    BY <1>1, ViewFields, ViewFieldsPrime DEF CoveredIn, TablesInv, Of, Current
  <2>5. RowHasFile'
    BY <1>1 DEF TablesInv, RowHasFile, Stored, Expired
  <2> QED BY <1>1, <1>2, <2>2, <2>3, <2>4, <2>5 DEF TablesInv, Rebuilding
<1>6. ~broken' => mine' = {}
  BY <1>1 DEF DeleteInv
<1>7. FetchInv' /\ DeleteInv' /\ ServedInv'
  BY <1>2, <1>6, NotInTheMiddle DEF Deleting, Pruning, Fetching
<1>8. DecisionInv'
  BY <1>1, <1>2 DEF DecisionInv
<1> QED BY <1>3, <1>4, <1>5, <1>7, <1>8

LEMMA RebuildFailsStep ==
  ASSUME StoreInv, RebuildFails
  PROVE  StoreInv'
<1> USE DEF StoreInv
<1>1. /\ UNCHANGED <<server, uid, epoch, flagged, uidplus, now, rows, eml, grp, mine, purged>>
      /\ UNCHANGED <<fresh, rescued, adrift, broken>> /\ job' = Idle /\ built' = NoIndex
      /\ made' = (made /\ job.pc # "rename") /\ job.pc \in {"build", "remove", "rename"}
      /\ covered' = IF job.pc = "rename" THEN {} ELSE covered
  BY DEF RebuildFails, folder, index, Local
<1>2. job'.pc = "idle" /\ InHand' = {} /\ InHand = {}
  BY <1>1, IdleJob, NothingInHand
<1>3. TypeInv'
  BY <1>1, <1>2, IdleJob, TypesOfConstants DEF TypeInv, NoIndex, Groups
<1>4. FolderInv'
  BY <1>1, FolderFrame DEF FolderInv
<1>5. TablesInv'
  <2>1. Follows(View, View')
    BY <1>1 DEF Follows, View, FolderInv
  <2>2. TableOk(rows, View') /\ OnceIn(rows, View', {})
    BY <1>2, <2>1, TableFollows, OnceFollows DEF TablesInv
  <2>3. CoveredIn(rows, View')
    BY <1>1, ViewFields, ViewFieldsPrime DEF CoveredIn, TablesInv, Of, Current
  <2>4. RowHasFile'
    BY <1>1 DEF TablesInv, RowHasFile, Stored, Expired
  <2> QED BY <1>1, <1>2, <2>2, <2>3, <2>4 DEF TablesInv, Rebuilding
<1>6. FetchInv' /\ DeleteInv' /\ ServedInv'
  BY <1>1, <1>2, NotInTheMiddle, NoFlagsOfOurs DEF Deleting, Pruning, Fetching
<1>7. DecisionInv'
  BY <1>1, <1>2 DEF DecisionInv
<1> QED BY <1>3, <1>4, <1>5, <1>6, <1>7

\* The carried rows are those of the index, or none.
LEMMA StartRebuildStep ==
  ASSUME StoreInv, NEW readable \in BOOLEAN, StartRebuild(readable)
  PROVE  StoreInv'
<1> USE DEF StoreInv
<1>1. /\ UNCHANGED <<server, uid, epoch, flagged, uidplus, now, rows, eml, grp, mine, purged>>
      /\ UNCHANGED <<fresh, rescued, adrift, broken>> /\ job.pc = "idle"
      /\ built' = IF readable THEN [rows |-> rows, grp |-> grp] ELSE NoIndex
      /\ made' = (made /\ readable) /\ covered' = IF readable THEN covered ELSE {}
  BY DEF StartRebuild, folder, index, Local
<1>2. job'.pc = "build" /\ IsJob(job')
  BY DEF StartRebuild, TypeInv, IsJob, Fields, Pcs, Rebuilding
<1>3. InHand = {} /\ InHand' = {}
  BY <1>1, <1>2, NothingInHand
<1>4. TypeInv'
  BY <1>1, <1>2, TypesOfConstants DEF TypeInv, NoIndex, Groups
<1>5. FolderInv'
  BY <1>1, FolderFrame DEF FolderInv
<1>6. TablesInv'
  <2>1. Follows(View, View')
    BY <1>1 DEF Follows, View, FolderInv
  <2>2. TableOk(rows, View') /\ OnceIn(rows, View', {})
    BY <1>3, <2>1, TableFollows, OnceFollows DEF TablesInv
  <2>3. CoveredIn(rows, View')
    BY <1>1, ViewFields, ViewFieldsPrime DEF CoveredIn, TablesInv, Of, Current
  <2>4. RowHasFile'
    BY <1>1 DEF TablesInv, RowHasFile, Stored, Expired
  <2>5. TableOk(built'.rows, View') /\ OnceIn(built'.rows, View', {}) /\ CoveredIn(built'.rows, View')
    <3>1. CASE readable
      BY <1>1, <2>2, <2>3, <3>1
    <3>2. CASE ~readable
      <4>1. built'.rows = Empty /\ covered' = {}
        BY <1>1, <3>2, TypesOfConstants
      <4> QED BY <4>1, TableEmpty, ViewFieldsPrime DEF CoveredIn
    <3> QED BY <3>1, <3>2
  <2> QED BY <1>1, <1>2, <1>3, <2>2, <2>3, <2>4, <2>5 DEF TablesInv, Rebuilding
<1>7. FetchInv' /\ DeleteInv' /\ ServedInv'
  BY <1>1, <1>2, NotInTheMiddle, NoFlagsOfOurs DEF Deleting, Pruning, Fetching
<1>8. DecisionInv'
  BY <1>1, <1>2 DEF DecisionInv
<1> QED BY <1>4, <1>5, <1>6, <1>7, <1>8

LEMMA RebuiltRows ==
  ASSUME NEW R \in [Keys -> Record], NEW k \in Keys
  PROVE  /\ Rebuilt(R)[k] = IF k \notin eml THEN NoRow ELSE IF R[k] # NoRow THEN [R[k] EXCEPT !.cls = TRUE] ELSE Synthetic
         /\ Rebuilt(R)[k] \in Record
<1>1. R[k] \in Record
  OBVIOUS
<1>2. [R[k] EXCEPT !.cls = TRUE] \in Record
  BY <1>1 DEF Record
<1> QED BY <1>2, TypesOfConstants DEF Rebuilt

\* The new index has the carried rows, and a synthetic one for a file that the
\* previous index did not know.
LEMMA BuildStep ==
  ASSUME StoreInv, Build
  PROVE  StoreInv'
<1> USE DEF StoreInv
<1> DEFINE B == built.rows
           R == Rebuilt(B)
<1>1. /\ UNCHANGED <<server, uid, epoch, flagged, uidplus, now, rows, eml, grp, mine, purged>>
      /\ UNCHANGED <<fresh, rescued, broken, covered, made>> /\ job.pc = "build"
      /\ built' = [rows |-> R, grp |-> Restored(R, built.grp)]
      /\ adrift' = (adrift \/ \E k \in eml : B[k] = NoRow)
  BY DEF Build, folder, index, Local
<1>2. job'.pc = "remove" /\ IsJob(job')
  BY DEF Build, TypeInv, IsJob, Fields, Pcs, Rebuilding
<1>3. InHand = {} /\ InHand' = {}
  BY <1>1, <1>2, NothingInHand
<1>4. B \in [Keys -> Record] /\ built.grp \in Groups
  BY DEF TypeInv
<1>5. /\ R \in [Keys -> Record] /\ Restored(R, built.grp) \in Groups
      /\ built.grp = "decided" => Restored(R, built.grp) \in {"none", "decided"}
  <2>1. R \in [Keys -> Record]
    BY <1>4, RebuiltRows DEF Rebuilt
  <2> HIDE DEF R
  <2> QED BY <1>4, <2>1 DEF Restored, Groups
<1>6. ASSUME NEW k \in Keys
      PROVE  /\ k \notin eml => R[k] = NoRow
             /\ k \in eml /\ B[k] = NoRow => R[k] = Synthetic
             /\ k \in eml /\ B[k] # NoRow => /\ R[k].val = B[k].val /\ R[k].uid = B[k].uid
                                             /\ R[k].gone = B[k].gone /\ R[k].cls
  <2>1. R[k] = IF k \notin eml THEN NoRow ELSE IF B[k] # NoRow THEN [B[k] EXCEPT !.cls = TRUE] ELSE Synthetic
    BY <1>4, RebuiltRows
  <2>2. B[k] \in Record
    BY <1>4
  <2> HIDE DEF B, R
  <2> QED BY <2>1, <2>2 DEF Record
<1> HIDE DEF R
<1>7. TypeInv'
  BY <1>1, <1>2, <1>5 DEF TypeInv
<1>8. FolderInv'
  BY <1>1, FolderFrame DEF FolderInv
<1>9. TablesInv'
  <2>1. Follows(View, View')
    BY <1>1 DEF Follows, View, FolderInv
  <2>2. /\ TableOk(rows, View') /\ OnceIn(rows, View', {})
        /\ TableOk(B, View') /\ OnceIn(B, View', {})
    BY <1>1, <1>3, <2>1, TableFollows, OnceFollows DEF TablesInv, Rebuilding
  <2>3. CoveredIn(rows, View') /\ CoveredIn(B, View')
    <3>1. CoveredIn(rows, View) /\ CoveredIn(B, View)
      BY <1>1 DEF TablesInv, Rebuilding
    <3>2. /\ View'.epoch = View.epoch /\ View'.uid = View.uid /\ View'.eml = View.eml
          /\ View'.covered = View.covered /\ (View.adrift => View'.adrift)
      BY <1>1, ViewFields, ViewFieldsPrime
    <3> QED BY <3>1, <3>2, CoveredFollows
  <2>4. RowHasFile'
    BY <1>1 DEF TablesInv, RowHasFile, Stored, Expired
  <2>5. TableOk(R, View') /\ OnceIn(R, View', {}) /\ CoveredIn(R, View')
    <3>1. CASE adrift'
      <4>1. OnceIn(R, View', {}) /\ CoveredIn(R, View')
        BY <3>1, ViewFieldsPrime DEF OnceIn, CoveredIn
      <4>2. ASSUME NEW k \in Keys, R[k] # NoRow PROVE RowOk(R, k, View')
        <5>1. CASE B[k] # NoRow
          <6>1. RowOk(B, k, View')
            BY <2>2, <5>1 DEF TableOk
          <6> QED BY <1>6, <4>2, <5>1, <6>1 DEF RowOk
        <5>2. CASE B[k] = NoRow
          <6>1. R[k] = Synthetic /\ k \in eml
            BY <1>6, <4>2, <5>2
          <6>2. R[k].val = 0 /\ k[2] <= epoch /\ epoch # 0 /\ epoch \in Nat
            BY <6>1, TypesOfConstants DEF Synthetic, TablesInv, TypeInv
          <6> QED BY <1>1, <3>1, <6>2, ViewFieldsPrime DEF RowOk
        <5> QED BY <5>1, <5>2
      <4>3. ASSUME NEW k \in Keys, Current(R, k, View')
            PROVE  Current(B, k, View') /\ B[k].uid = R[k].uid
        <5>1. R[k].val = epoch /\ epoch # 0 /\ k \in eml
          BY <1>1, <1>6, <4>3, ViewFieldsPrime, TypesOfConstants DEF Current, TypeInv
        <5>2. R[k] # Synthetic
          BY <5>1 DEF Synthetic
        <5> QED BY <1>6, <4>3, <5>1, <5>2 DEF Current
      <4> QED BY <2>2, <4>1, <4>2, <4>3 DEF TableOk
    <3>2. CASE ~adrift'
      <4>1. \A k \in eml : B[k] # NoRow
        BY <1>1, <3>2
      <4>2. Within(R, B)
        BY <1>6, <4>1 DEF Within
      <4>3. CoveredIn(R, View')
        <5>1. ASSUME NEW m \in Mails, NEW k \in Keys, k \in eml, Of(B, k, m, View')
              PROVE  Of(R, k, m, View')
          BY <1>6, <4>1, <5>1 DEF Of, Current, NoRow
        <5> QED BY <1>1, <2>3, <5>1, ViewFieldsPrime DEF CoveredIn, FolderInv
      <4> QED BY <2>2, <4>2, <4>3, TableWithin
    <3> QED BY <3>1, <3>2
  <2>6. \A k \in Keys : R[k] # NoRow => k \in eml
    BY <1>6
  <2> QED BY <1>1, <1>2, <1>3, <2>2, <2>3, <2>4, <2>5, <2>6 DEF TablesInv, Rebuilding
<1>10. FetchInv' /\ DeleteInv' /\ ServedInv'
  BY <1>1, <1>2, NotInTheMiddle, NoFlagsOfOurs DEF Deleting, Pruning, Fetching
<1>11. DecisionInv'
  BY <1>1, <1>2, <1>5 DEF DecisionInv
<1> QED BY <1>7, <1>8, <1>9, <1>10, <1>11

LEMMA RemoveOldStep ==
  ASSUME StoreInv, RemoveOld
  PROVE  StoreInv'
<1> USE DEF StoreInv
<1>1. /\ UNCHANGED <<server, uid, epoch, flagged, uidplus, now, built, eml, mine, purged>>
      /\ UNCHANGED <<fresh, rescued, broken, covered, made, adrift>> /\ job.pc = "remove"
      /\ rows' = Empty /\ grp' = "none"
  BY DEF RemoveOld, folder, Local
<1>2. job'.pc = "rename" /\ IsJob(job')
  BY DEF RemoveOld, TypeInv, IsJob, Fields, Pcs, Rebuilding
<1>3. TypeInv'
  BY <1>1, <1>2, TypesOfConstants DEF TypeInv, Groups
<1>4. FolderInv'
  BY <1>1, FolderFrame DEF FolderInv
<1>5. TablesInv'
  <2>1. View' = View
    BY <1>1 DEF View
  <2>2. TableOk(rows', View') /\ OnceIn(rows', View', InHand')
    BY <1>1, TableEmpty
  <2>3. RowHasFile'
    BY <1>1, TypesOfConstants DEF RowHasFile, Stored
  <2> QED BY <1>1, <1>2, <2>1, <2>2, <2>3 DEF TablesInv, Rebuilding
<1>6. FetchInv' /\ DeleteInv' /\ ServedInv'
  BY <1>1, <1>2, NotInTheMiddle, NoFlagsOfOurs DEF Deleting, Pruning, Fetching
<1>7. DecisionInv'
  BY <1>1, <1>2 DEF DecisionInv
<1> QED BY <1>3, <1>4, <1>5, <1>6, <1>7

LEMMA RenameNewStep ==
  ASSUME StoreInv, RenameNew
  PROVE  StoreInv'
<1> USE DEF StoreInv
<1>1. /\ UNCHANGED <<server, uid, epoch, flagged, uidplus, now, eml, mine, purged>>
      /\ UNCHANGED <<fresh, rescued, broken, covered, adrift>> /\ job.pc = "rename"
      /\ rows' = built.rows /\ grp' = built.grp /\ built' = NoIndex /\ job' = Idle
      /\ made' = (made /\ built.grp # "none")
  BY DEF RenameNew, folder, Local
<1>2. job'.pc = "idle" /\ InHand' = {}
  BY <1>1, IdleJob, NothingInHand
<1>3. TypeInv'
  BY <1>1, <1>2, IdleJob, TypesOfConstants DEF TypeInv, NoIndex, Groups
<1>4. FolderInv'
  BY <1>1, FolderFrame DEF FolderInv
<1>5. TablesInv'
  <2>1. View' = View
    BY <1>1 DEF View
  <2>2. RowHasFile'
    BY <1>1 DEF RowHasFile, Stored, TablesInv
  <2> QED BY <1>1, <1>2, <2>1, <2>2 DEF TablesInv, Rebuilding
<1>6. FetchInv' /\ DeleteInv' /\ ServedInv'
  BY <1>1, <1>2, NotInTheMiddle, NoFlagsOfOurs DEF Deleting, Pruning, Fetching
<1>7. DecisionInv'
  BY <1>1, <1>2 DEF DecisionInv
<1> QED BY <1>3, <1>4, <1>5, <1>6, <1>7

\* One mail is classified.
LEMMA ClassifyStep ==
  ASSUME StoreInv, NEW k \in Keys, Classify(k)
  PROVE  StoreInv'
<1> USE DEF StoreInv
<1>1. /\ UNCHANGED <<server, uid, epoch, flagged, uidplus, now, eml, built, mine, purged, job>>
      /\ UNCHANGED <<fresh, rescued, broken, covered, adrift, made>> /\ job.pc = "idle"
      /\ k \in Stored /\ rows' = [rows EXCEPT ![k].cls = TRUE]
      /\ grp' = IF k[1] \in Certain /\ grp = "none" THEN "open" ELSE grp
  BY DEF Classify, folder, Quiet
<1>2. /\ rows' \in [Keys -> Record] /\ \A l \in Keys : l # k => rows'[l] = rows[l]
      /\ rows'[k].val = rows[k].val /\ rows'[k].uid = rows[k].uid /\ rows'[k].gone = rows[k].gone
      /\ rows'[k].cls
  BY <1>1 DEF TypeInv, Record
<1>3. rows[k] # NoRow /\ rows'[k] # NoRow
  BY <1>1, <1>2 DEF Stored, NoRow
<1>4. InHand = {} /\ InHand' = {}
  BY <1>1, NothingInHand
<1>5. TypeInv'
  BY <1>1, <1>2 DEF TypeInv, Groups
<1>6. FolderInv'
  BY <1>1, FolderFrame DEF FolderInv
<1>7. TablesInv'
  <2>1. View' = View
    BY <1>1 DEF View
  <2>2. Within(rows', rows)
    BY <1>2, <1>3 DEF Within
  <2>3. TableOk(rows', View) /\ OnceIn(rows', View, {})
    BY <1>4, <2>2, TableWithin DEF TablesInv
  <2>4. \A l \in Keys, m \in Mails : Of(rows, l, m, View) => Of(rows', l, m, View)
    BY <1>2, <1>3 DEF Of, Current
  <2>5. CoveredIn(rows', View)
    BY <1>1, <2>4, ViewFields DEF CoveredIn, TablesInv, FolderInv
  <2>6. RowHasFile'
    BY <1>1, <1>2, <1>3 DEF RowHasFile, Stored, TablesInv, Expired
  <2> QED BY <1>1, <1>4, <2>1, <2>3, <2>5, <2>6 DEF TablesInv, Rebuilding
<1>8. FetchInv' /\ DeleteInv' /\ ServedInv'
  BY <1>1, NotInTheMiddle, NoFlagsOfOurs DEF Deleting, Pruning, Fetching
<1>9. DecisionInv'
  BY <1>1 DEF DecisionInv
<1> QED BY <1>5, <1>6, <1>7, <1>8, <1>9

-----------------------------------------------------------------------------
(* The steps of the folder and its other clients.                           *)

LEMMA NamedShrinks ==
  ASSUME StoreInv, Follows(View, View'), UNCHANGED <<rows, epoch>>, NEW k \in Keys, Current(rows, k, View)
  PROVE  /\ Named(k)' \subseteq Named(k)
         /\ \A m \in Named(k) : server'[m] = "in" => m \in Named(k)'
<1>1. RowOk(rows, k, View) /\ rows[k].val = epoch
  BY ViewFields DEF StoreInv, TablesInv, TableOk, Current
<1>2. PICK n \in Mails : uid[n] # 0 /\ uid[n] = rows[k].uid
  BY <1>1, ViewFields DEF RowOk
<1>3. ASSUME NEW m \in Mails, m \in Named(k)' PROVE m \in Named(k)
  <2>1. server'[m] = "in" /\ rows[k].uid = uid'[m]
    BY <1>3 DEF Named, InFolder, Names
  <2>2. server[m] = "in" /\ uid[m] # 0
    BY <1>2, <2>1, ViewFields, ViewFieldsPrime DEF Follows
  <2>3. uid'[m] = uid[m]
    BY <2>2, ViewFields, ViewFieldsPrime DEF Follows
  <2> QED BY <1>1, <2>1, <2>2, <2>3 DEF Named, InFolder, Names
<1>4. ASSUME NEW m \in Named(k), server'[m] = "in" PROVE m \in Named(k)'
  <2>1. m \in Mails /\ uid[m] # 0 /\ rows[k].uid = uid[m]
    BY DEF Named, Names
  <2>2. uid'[m] = uid[m]
    BY <2>1, ViewFields, ViewFieldsPrime DEF Follows
  <2> QED BY <1>1, <1>4, <2>1, <2>2 DEF Named, InFolder, Names
<1>5. Named(k)' \subseteq Mails
  BY DEF Named
<1> QED BY <1>3, <1>4, <1>5

\* A step outside of the job keeps what the job relies on.
LEMMA OutsideFrame ==
  ASSUME StoreInv, TypeInv', FolderInv', Follows(View, View'),
         UNCHANGED <<rows, eml, job, built, epoch, grp, made, adrift, broken, uidplus>>,
         now' >= now, covered' \subseteq covered,
         job.pc \in {"verify", "expunge"} => Doomed' \subseteq flagged' \cup rescued',
         job.pc = "expunge" /\ ~uidplus => flagged' \subseteq Doomed' \cup fresh',
         ~broken /\ mine' # {} => mine # {} /\ mine' \subseteq Doomed'
  PROVE  StoreInv'
<1> USE DEF StoreInv
<1>1. now \in Nat /\ now' \in Nat
  BY DEF TypeInv
<1>2. \A k \in Keys : Expired(k) => Expired(k)'
  BY <1>1, TypesOfConstants DEF Expired
<1>3. InHand' = InHand
  BY DEF InHand
<1>4. \A m \in covered' : m \in covered /\ uid'[m] = uid[m] /\ m \in Mails
  BY ViewFields, ViewFieldsPrime DEF FolderInv, InFolder, Follows
<1>5. \A R : CoveredIn(R, View) => CoveredIn(R, View')
  BY <1>4, CoveredFollows, ViewFields, ViewFieldsPrime
<1>6. TablesInv'
  <2>1. TableOk(rows, View') /\ OnceIn(rows, View', InHand)
    BY TableFollows, OnceFollows DEF TablesInv
  <2>2. job.pc \in Rebuilding => TableOk(built.rows, View') /\ OnceIn(built.rows, View', {})
    BY TableFollows, OnceFollows DEF TablesInv
  <2>3. RowHasFile'
    BY <1>2 DEF TablesInv, RowHasFile, Stored
  <2> QED BY <1>3, <1>5, <2>1, <2>2, <2>3 DEF TablesInv
<1>7. \A k \in Keys : Current(rows, k, View)' <=> Current(rows, k, View)
  BY ViewFields, ViewFieldsPrime DEF Current
<1>8. \A k \in Keys, m \in Mails : uid[m] # 0 => (Of(rows, k, m, View)' <=> Of(rows, k, m, View))
  BY <1>7, ViewFields, ViewFieldsPrime DEF Of, Follows
<1>9. FetchInv'
  <2> SUFFICES ASSUME job.pc \in Fetching PROVE FetchInv'
    BY DEF FetchInv
  <2>1. \A m : Stale(m)' = Stale(m)
    BY DEF Stale, Stored
  <2>2. \A m \in job.found : m \in Mails /\ uid[m] # 0 /\ uid'[m] # 0
    BY ViewFields, ViewFieldsPrime DEF FetchInv, Follows, TypeInv, IsJob
  <2>3. \A m \in job.found : InFolder(m)' => InFolder(m)
    BY <2>2, ViewFields, ViewFieldsPrime DEF Follows, InFolder
  <2>4. job.pc = "insert" => \A m \in Mails : uid[m] # 0 => uid'[m] # 0
    BY ViewFields, ViewFieldsPrime DEF Follows
  <2>5. job.mails \subseteq job.found
    BY DEF FetchInv
  <2>6. \A m \in job.mails : \A k \in Keys : ~Of(rows, k, m, View)'
    BY <1>8, <2>2, <2>5 DEF FetchInv
  <2>7. ~adrift' => \A m \in job.found : InFolder(m)' =>
         \/ m \in job.mails \/ \E k \in Keys : Of(rows, k, m, View)'
         \/ job.pc = "insert" /\ <<m, epoch>> \in job.cur
    BY <1>8, <2>2, <2>3 DEF FetchInv
  <2>8. job.pc = "insert" =>
         \E m \in Mails : /\ job.cur = {<<m, epoch>>} /\ <<m, epoch>> \in eml
                          /\ uid'[m] # 0 /\ m \notin job.mails
                          /\ \A k \in Keys : ~Of(rows, k, m, View)'
                          /\ MsgId[m] = NoId \/ Stale(m)' = {}
    BY <1>8, <2>1, <2>4 DEF FetchInv
  <2> QED BY <2>2, <2>5, <2>6, <2>7, <2>8 DEF FetchInv
<1>10. Handled' = Handled /\ \A k : Due(k)' = Due(k)
  BY DEF Handled, Due
<1>11. DeleteInv'
  <2>1. job.pc \in Deleting => \A k \in job.marks : Named(k)' \subseteq rescued'
    <3> SUFFICES ASSUME job.pc \in Deleting, NEW k \in job.marks PROVE Named(k)' \subseteq rescued'
      OBVIOUS
    <3>1. k \in Keys /\ Current(rows, k, View) /\ Named(k) \subseteq rescued
      BY DEF DeleteInv, Handled, TypeInv, IsJob
    <3> QED BY <3>1, NamedShrinks, ViewFields, ViewFieldsPrime DEF Follows
  <2>2. job.pc \in Deleting => \A k \in Handled : k \in Keys
    BY DEF Handled, TypeInv, IsJob
  <2>3. ~broken' /\ mine' # {} => job'.pc \in {"verify", "clear", "expunge"} /\ mine' \subseteq Doomed'
    BY DEF DeleteInv
  <2> QED BY <1>7, <1>10, <2>1, <2>2, <2>3 DEF DeleteInv
<1>12. ServedInv'
  <2>1. \A k \in Keys : Served(k) => Served(k)'
    BY <1>7, <1>10 DEF Served
  <2>2. job.pc \in {"prune", "unrow"} => \A k \in job.todo : Expired(k)'
    BY <1>2 DEF ServedInv, TypeInv, IsJob
  <2>3. job.pc = "unrow" => \A k \in job.cur : Expired(k)' /\ \A m \in covered' : ~Of(rows, k, m, View)'
    <3>1. \A m \in covered' : uid[m] # 0
      BY <1>4 DEF FolderInv, InFolder
    <3> QED BY <1>2, <1>4, <1>8, <3>1 DEF ServedInv, TypeInv, IsJob
  <2> QED BY <2>1, <2>2, <2>3 DEF ServedInv
<1>13. DecisionInv'
  BY DEF DecisionInv
<1> QED BY <1>6, <1>9, <1>11, <1>12, <1>13

LEMMA TickStep ==
  ASSUME StoreInv, Tick
  PROVE  StoreInv'
<1>1. /\ UNCHANGED <<rows, eml, job, built, epoch, grp, made, adrift, broken, uidplus>>
      /\ UNCHANGED <<server, uid, flagged, mine, fresh, rescued, covered>> /\ now' = now + 1
  BY DEF Tick, folder, Outside
<1>2. TypeInv' /\ now' >= now
  BY <1>1 DEF StoreInv, TypeInv
<1>3. FolderInv'
  BY <1>1, FolderFrame DEF StoreInv, FolderInv
<1>4. Follows(View, View')
  BY <1>1 DEF Follows, View, StoreInv, FolderInv
<1>5. Doomed' = Doomed
  BY <1>1 DEF Doomed, Named, Names, InFolder
<1> QED BY <1>1, <1>2, <1>3, <1>4, <1>5, OutsideFrame DEF StoreInv, DeleteInv

LEMMA OtherFlagsStep ==
  ASSUME StoreInv, NEW m \in Mails, OtherFlags(m)
  PROVE  StoreInv'
<1>1. /\ UNCHANGED <<rows, eml, job, built, epoch, grp, made, adrift, broken, uidplus>>
      /\ UNCHANGED <<server, uid, mine, rescued, covered, now>>
      /\ flagged' = flagged \cup {m} /\ fresh' = fresh \cup {m}
  BY DEF OtherFlags, Outside
<1>2. TypeInv' /\ now' >= now
  BY <1>1 DEF StoreInv, TypeInv
<1>3. FolderInv'
  BY <1>1, FolderFrame DEF StoreInv, FolderInv
<1>4. Follows(View, View')
  BY <1>1 DEF Follows, View, StoreInv, FolderInv
<1>5. Doomed' = Doomed
  BY <1>1 DEF Doomed, Named, Names, InFolder
<1> QED BY <1>1, <1>2, <1>3, <1>4, <1>5, OutsideFrame DEF StoreInv, DeleteInv

LEMMA OtherUnflagsStep ==
  ASSUME StoreInv, NEW m \in Mails, OtherUnflags(m)
  PROVE  StoreInv'
<1>1. /\ UNCHANGED <<rows, eml, job, built, epoch, grp, made, adrift, broken, uidplus>>
      /\ UNCHANGED <<server, uid, covered, now>>
      /\ flagged' = flagged \ {m} /\ fresh' = fresh \ {m} /\ mine' = mine \ {m}
      /\ rescued' = IF job.pc \in {"verify", "expunge"} /\ \E k \in job.del : Names(k, m)
                      THEN rescued \union {m} ELSE rescued
  BY DEF OtherUnflags, Outside
<1>2. TypeInv' /\ now' >= now
  BY <1>1 DEF StoreInv, TypeInv
<1>3. FolderInv'
  BY <1>1, FolderFrame DEF StoreInv, FolderInv
<1>4. Follows(View, View')
  BY <1>1 DEF Follows, View, StoreInv, FolderInv
<1>5. Doomed' = Doomed
  BY <1>1 DEF Doomed, Named, Names, InFolder
<1>6. job.pc \in {"verify", "expunge"} /\ m \in Doomed => m \in rescued'
  BY <1>1 DEF Doomed, Named
<1> QED BY <1>1, <1>2, <1>3, <1>4, <1>5, <1>6, OutsideFrame DEF StoreInv, DeleteInv

LEMMA OtherExpungesStep ==
  ASSUME StoreInv, OtherExpunges
  PROVE  StoreInv'
<1>1. /\ UNCHANGED <<rows, eml, job, built, epoch, grp, made, adrift, broken, uidplus>>
      /\ UNCHANGED <<uid, rescued, now>>
      /\ server' = [m \in Mails |-> IF m \in flagged THEN "gone" ELSE server[m]]
      /\ flagged' = {} /\ fresh' = {} /\ mine' = {} /\ covered' = covered \ flagged
  BY DEF OtherExpunges, Outside
<1>2. TypeInv' /\ now' >= now
  BY <1>1 DEF StoreInv, TypeInv
<1>3. FolderInv'
  BY <1>1 DEF StoreInv, FolderInv, InFolder
<1>4. Follows(View, View')
  BY <1>1 DEF Follows, View, StoreInv, FolderInv
<1>5. Doomed' \subseteq Doomed \ flagged
  BY <1>1 DEF Doomed, Named, Names, InFolder
<1> QED BY <1>1, <1>2, <1>3, <1>4, <1>5, OutsideFrame DEF StoreInv, DeleteInv

LEMMA UidsAreFinite == TypeInv => Cardinality({n \in Mails : uid[n] # 0}) \in Nat
<1>1. IsFiniteSet({n \in Mails : uid[n] # 0})
  BY StoreBoundsAssumption, FS_Subset
<1> QED BY <1>1, FS_CardinalityType

\* A mail arrives with a UID no mail had.
LEMMA ArriveStep ==
  ASSUME StoreInv, NEW m \in Mails, Arrive(m)
  PROVE  StoreInv'
<1> USE DEF StoreInv
<1> DEFINE S == {n \in Mails : uid[n] # 0}
           c == Cardinality(S)
<1>1. /\ UNCHANGED <<rows, eml, job, built, epoch, grp, made, adrift, broken, uidplus>>
      /\ UNCHANGED <<flagged, mine, fresh, rescued, covered, now>>
      /\ server[m] = "away" /\ server' = [server EXCEPT ![m] = "in"]
      /\ uid' = [uid EXCEPT ![m] = 1 + c]
  BY DEF Arrive, Outside
<1>2. c \in Nat /\ uid[m] = 0 /\ \A n \in Mails : uid[n] \in Nat /\ uid[n] <= c
  BY <1>1, UidsAreFinite DEF FolderInv, TypeInv
<1> HIDE DEF c
<1>3. /\ uid'[m] = 1 + c /\ uid'[m] # 0 /\ server'[m] = "in"
      /\ \A n \in Mails : n # m => uid'[n] = uid[n] /\ server'[n] = server[n]
      /\ \A n \in Mails : uid[n] # uid'[m]
  BY <1>1, <1>2 DEF TypeInv
<1>4. TypeInv' /\ now' >= now
  BY <1>1, <1>2 DEF TypeInv
<1>5. FolderInv'
  <2>1. {n \in Mails : uid'[n] # 0} = S \cup {m}
    BY <1>3
  <2>2. Cardinality(S \cup {m}) = c + 1
    <3>1. IsFiniteSet(S) /\ m \notin S
      BY <1>2, StoreBoundsAssumption, FS_Subset
    <3> QED BY <3>1, FS_AddElement DEF c
  <2>3. \A n \in Mails : uid'[n] <= c + 1
    BY <1>2, <1>3
  <2>4. \A n, o \in Mails : uid'[n] = uid'[o] /\ uid'[n] # 0 => n = o
    BY <1>3 DEF FolderInv
  <2>5. \A n \in Mails : (server'[n] = "away" => uid'[n] = 0) /\ (server'[n] = "in" => uid'[n] # 0)
    BY <1>3 DEF FolderInv
  <2>6. covered' \subseteq {n \in Mails : InFolder(n)'}
    BY <1>1, <1>3 DEF FolderInv, InFolder
  <2>7. \A n \in Mails : uid'[n] <= Cardinality({o \in Mails : uid'[o] # 0})
    BY <2>1, <2>2, <2>3
  <2>8. mine' \subseteq flagged'
    BY <1>1 DEF FolderInv
  <2> QED BY <2>4, <2>5, <2>6, <2>7, <2>8 DEF FolderInv
<1>6. Follows(View, View')
  BY <1>1, <1>2, <1>3, ViewFields, ViewFieldsPrime DEF Follows, FolderInv
<1>7. job.pc \in Deleting => Doomed' = Doomed
  <2> SUFFICES ASSUME job.pc \in Deleting PROVE Doomed' = Doomed
    OBVIOUS
  <2>1. ASSUME NEW k \in job.del PROVE Named(k)' = Named(k)
    <3>1. k \in Keys /\ Current(rows, k, View)
      BY DEF DeleteInv, Handled, TypeInv, IsJob
    <3>2. \A n \in Named(k) : server'[n] = "in"
      BY <1>1, <1>3 DEF Named, InFolder
    <3> QED BY <1>1, <1>6, <3>1, <3>2, NamedShrinks
  <2> QED BY <1>1, <2>1 DEF Doomed
<1> QED BY <1>1, <1>4, <1>5, <1>6, <1>7, OutsideFrame DEF DeleteInv, Deleting

\* The folder is created anew: no row names a mail any more.
LEMMA RecreateStep ==
  ASSUME StoreInv, Recreate
  PROVE  StoreInv'
<1> USE DEF StoreInv
<1> DEFINE F == {m \in Mails : InFolder(m)}
           n == Cardinality(F)
<1>1. /\ UNCHANGED <<rows, eml, job, built, grp, made, adrift, broken, uidplus, server, now, rescued>>
      /\ job.pc = "idle" /\ epoch < MaxEpoch /\ epoch' = epoch + 1
      /\ uid' \in [Mails -> 0 .. n]
      /\ \A m \in Mails : uid'[m] # 0 <=> InFolder(m)
      /\ \A m, o \in Mails : uid'[m] = uid'[o] /\ uid'[m] # 0 => m = o
      /\ flagged' = {} /\ mine' = {} /\ covered' = {}
  BY DEF Recreate, Outside
<1>2. n \in Nat
  BY StoreBoundsAssumption, FS_Subset, FS_CardinalityType
<1>3. epoch \in Nat /\ epoch' \in Epochs
  BY <1>1, StoreBoundsAssumption DEF TypeInv, Epochs
<1>4. TypeInv'
  BY <1>1, <1>2, <1>3 DEF TypeInv
<1>5. FolderInv'
  <2>1. {m \in Mails : uid'[m] # 0} = F
    BY <1>1
  <2>2. \A m \in Mails : uid'[m] <= n
    BY <1>1, <1>2
  <2>3. \A m \in Mails : uid'[m] <= Cardinality({o \in Mails : uid'[o] # 0})
    BY <2>1, <2>2
  <2> QED BY <1>1, <2>3 DEF FolderInv, InFolder
<1>6. TablesInv'
  <2>1. InHand = {} /\ InHand' = {}
    BY <1>1, NothingInHand
  <2>2. TableOk(rows, View') /\ OnceIn(rows, View', {})
    <3>1. /\ TableOk(rows, View) /\ OnceIn(rows, View, {}) /\ rows \in [Keys -> Record]
          /\ View.epoch \in Nat /\ View'.epoch = View.epoch + 1 /\ View'.adrift = View.adrift
          /\ View'.rescued = View.rescued /\ View'.server = View.server
      BY <1>1, <1>3, <2>1, ViewFields, ViewFieldsPrime DEF TablesInv, TypeInv
    <3> QED BY <3>1, TableRecreated
  <2>3. CoveredIn(rows, View')
    BY <1>1, ViewFieldsPrime DEF CoveredIn
  <2>4. RowHasFile'
    BY <1>1 DEF TablesInv, RowHasFile, Stored, Expired
  <2>5. \A k \in eml' : k[2] <= epoch'
    BY <1>1, <1>3, TypesOfConstants DEF TablesInv, TypeInv
  <2> QED BY <1>1, <2>1, <2>2, <2>3, <2>4, <2>5 DEF TablesInv, Rebuilding
<1>7. FetchInv' /\ DeleteInv' /\ ServedInv'
  BY <1>1, NotInTheMiddle DEF Deleting, Pruning, Fetching
<1>8. DecisionInv'
  BY <1>1 DEF DecisionInv
<1> QED BY <1>4, <1>5, <1>6, <1>7, <1>8

-----------------------------------------------------------------------------
(* The steps of a fetch.                                                    *)

LEMMA NamesIsOf ==
  ASSUME NEW k \in Keys, NEW m \in Mails
  PROVE  k \in Stored /\ Names(k, m) <=> Of(rows, k, m, View) /\ uid[m] # 0
BY ViewFields DEF Stored, Names, Of, Current

LEMMA StartFetchStep ==
  ASSUME StoreInv, NEW allTime \in BOOLEAN, StartFetch(allTime)
  PROVE  StoreInv'
<1> USE DEF StoreInv
<1>1. /\ UNCHANGED <<server, uid, epoch, flagged, uidplus, now, rows, eml, grp, mine, purged>>
      /\ UNCHANGED <<fresh, rescued, broken, covered, adrift, built, made>> /\ job.pc = "idle"
  BY DEF StartFetch, folder, index, Quiet
<1>2. PICK found \in SUBSET {m \in Mails : InFolder(m)} :
        job' = [job EXCEPT !.pc = "fetch", !.found = found, !.mails = {m \in found : ~Indexed(m)}]
  <2> DEFINE found == {m \in Mails : InFolder(m) /\ (allTime \/ InWindow(m))}
  <2>1. job' = [job EXCEPT !.pc = "fetch", !.found = found, !.mails = {m \in found : ~Indexed(m)}]
    BY DEF StartFetch
  <2>2. found \in SUBSET {m \in Mails : InFolder(m)}
    OBVIOUS
  <2> HIDE DEF found
  <2> QED BY <2>1, <2>2
<1>3. /\ job'.pc = "fetch" /\ job'.found = found /\ job'.mails = {m \in found : ~Indexed(m)}
      /\ IsJob(job')
  BY <1>2 DEF TypeInv, IsJob, Fields, Pcs, Fetching
<1>4. InHand = {} /\ InHand' = {}
  BY <1>1, <1>3, NothingInHand
<1>5. View' = View
  BY <1>1 DEF View
<1>6. TypeInv'
  BY <1>1, <1>3 DEF TypeInv
<1>7. FolderInv'
  BY <1>1, FolderFrame DEF FolderInv
<1>8. TablesInv'
  BY <1>1, <1>3, <1>4, TablesFrame DEF Rebuilding
<1>9. FetchInv'
  <2>1. \A m \in found : m \in Mails /\ InFolder(m) /\ uid'[m] # 0
    BY <1>1 DEF FolderInv, InFolder
  <2>2. \A m \in found : Indexed(m) <=> \E k \in Keys : Of(rows, k, m, View)
    BY <1>1, <2>1, NamesIsOf DEF Indexed, Stored
  <2>3. \A m \in job'.mails : \A k \in Keys : ~Of(rows, k, m, View)
    BY <1>3, <2>2
  <2>4. \A m \in job'.found : m \in job'.mails \/ \E k \in Keys : Of(rows, k, m, View)
    BY <1>3, <2>2
  <2> QED BY <1>1, <1>3, <1>5, <2>1, <2>3, <2>4 DEF FetchInv
<1>10. DeleteInv' /\ ServedInv'
  BY <1>1, <1>3, NoFlagsOfOurs DEF DeleteInv, ServedInv, Deleting, Pruning
<1>11. DecisionInv'
  BY <1>1, <1>3 DEF DecisionInv
<1> QED BY <1>6, <1>7, <1>8, <1>9, <1>10, <1>11

\* What a step of a fetch has to show.
LEMMA FetchFrame ==
  ASSUME StoreInv, job.pc \in Fetching, IsJob(job'), job'.pc \in Fetching,
         UNCHANGED <<server, uid, epoch, flagged, uidplus, now, grp, mine, purged>>,
         UNCHANGED <<fresh, rescued, broken, covered, adrift, built, made>>,
         rows' \in [Keys -> Record], TableOk(rows', View'), OnceIn(rows', View', InHand'),
         eml \subseteq eml', eml' \subseteq Keys, \A k \in eml' : k[2] <= epoch,
         \A k \in Keys : rows'[k] # NoRow => rows[k] # NoRow \/ k \in eml',
         \A k \in Keys, m \in Mails : Of(rows, k, m, View) => Of(rows', k, m, View),
         FetchInv'
  PROVE  StoreInv'
<1> USE DEF StoreInv
<1>1. TypeInv'
  BY DEF TypeInv, Fetching
<1>2. FolderInv'
  BY FolderFrame DEF FolderInv
<1>3. \A k \in Keys, m \in Mails : Of(rows, k, m, View) => Of(rows', k, m, View')
  BY ViewFields, ViewFieldsPrime DEF Of, Current
<1>4. CoveredIn(rows', View')
  BY <1>3, ViewFields, ViewFieldsPrime DEF CoveredIn, TablesInv, Fetching, FolderInv
<1>5. RowHasFile'
  BY DEF RowHasFile, Stored, TablesInv, Expired
<1>6. TablesInv'
  BY <1>4, <1>5 DEF TablesInv, Fetching, Rebuilding
<1>7. DeleteInv' /\ ServedInv'
  BY NoFlagsOfOurs DEF DeleteInv, ServedInv, Deleting, Pruning, Fetching
<1>8. DecisionInv'
  BY DEF DecisionInv, Fetching
<1> QED BY <1>1, <1>2, <1>6, <1>7, <1>8

\* The three ways a mail is fetched.
Missed(m) ==
  /\ ~InFolder(m) /\ job' = [job EXCEPT !.mails = @ \ {m}]
  /\ UNCHANGED <<rows, eml>>
Reidentified(m, k) ==
  /\ InFolder(m) /\ MsgId[m] # NoId /\ k \in Preferred(m)
  /\ rows' = [rows EXCEPT ![k].val = epoch, ![k].uid = uid[m]]
  /\ job' = [job EXCEPT !.mails = @ \ {m}]
  /\ UNCHANGED eml
Filed(m) ==
  /\ InFolder(m) /\ (MsgId[m] = NoId \/ Stale(m) = {})
  /\ eml' = eml \cup {<<m, epoch>>}
  /\ job' = [job EXCEPT !.mails = @ \ {m}, !.cur = {<<m, epoch>>}, !.pc = "insert"]
  /\ UNCHANGED rows
Fetch(m) == job.pc = "fetch" /\ m \in job.mails /\ UNCHANGED <<grp, covered, broken>> /\ Quiet

LEMMA FetchEffect ==
  ASSUME NEW m, Fetch(m)
  PROVE  /\ UNCHANGED <<server, uid, epoch, flagged, uidplus, now, grp, mine, purged>>
         /\ UNCHANGED <<fresh, rescued, broken, covered, adrift, built, made>>
         /\ job.pc = "fetch" /\ m \in job.mails
BY DEF Fetch, Quiet, folder

\* The mail was expunged meanwhile.
LEMMA FetchMissedStep ==
  ASSUME StoreInv, NEW m, Fetch(m), Missed(m)
  PROVE  StoreInv'
<1> USE DEF StoreInv
<1>1. /\ UNCHANGED <<server, uid, epoch, flagged, uidplus, now, grp, mine, purged>>
      /\ UNCHANGED <<fresh, rescued, broken, covered, adrift, built, made>>
      /\ job.pc = "fetch" /\ m \in job.mails
  BY FetchEffect
<1>2. job'.pc = "fetch" /\ job'.found = job.found /\ job'.mails = job.mails \ {m} /\ IsJob(job')
  BY <1>1 DEF TypeInv, Missed, IsJob, Fields, Pcs, Fetching
<1>3. ~InFolder(m) /\ UNCHANGED <<rows, eml>>
  BY DEF Missed
<1>4. InHand = {} /\ InHand' = {} /\ View' = View
  BY <1>1, <1>2, <1>3, NothingInHand DEF View
<1>5. FetchInv'
  BY <1>1, <1>2, <1>3, <1>4 DEF FetchInv, InFolder, Fetching
<1>6. TableOk(rows', View') /\ OnceIn(rows', View', InHand') /\ rows' \in [Keys -> Record]
      /\ eml' \subseteq Keys /\ \A k \in eml' : k[2] <= epoch
  BY <1>3, <1>4 DEF TablesInv, TypeInv
<1> QED BY <1>1, <1>2, <1>3, <1>4, <1>5, <1>6, FetchFrame DEF Fetching

\* The row of the mail takes its new UID.
LEMMA ReidentifyStep ==
  ASSUME StoreInv, NEW m, NEW k, Fetch(m), Reidentified(m, k)
  PROVE  StoreInv'
<1> USE DEF StoreInv
<1>1. /\ UNCHANGED <<server, uid, epoch, flagged, uidplus, now, grp, mine, purged>>
      /\ UNCHANGED <<fresh, rescued, broken, covered, adrift, built, made>>
      /\ job.pc = "fetch" /\ m \in job.mails
  BY FetchEffect
<1>2. job'.pc = "fetch" /\ job'.found = job.found /\ job'.mails = job.mails \ {m} /\ IsJob(job')
  BY <1>1 DEF TypeInv, Reidentified, IsJob, Fields, Pcs, Fetching
<1>3. k \in Keys /\ rows[k] # NoRow /\ MsgId[m] = IdOf(k) /\ ~rows[k].gone /\ rows[k].val # epoch
      /\ InFolder(m) /\ MsgId[m] # NoId /\ eml' = eml
  BY DEF Reidentified, Preferred, Stale, Stored
<1>4. InHand = {} /\ InHand' = {} /\ View' = View
  BY <1>1, <1>2, <1>3, NothingInHand DEF View
<1>5. /\ m \in Mails /\ uid[m] # 0 /\ epoch \in Nat /\ epoch # 0 /\ uid[m] \in Nat
      /\ \A l \in Keys : ~Of(rows, l, m, View)
  BY <1>1, TypesOfConstants DEF FetchInv, TypeInv, IsJob, Fetching
<1>6. /\ rows' \in [Keys -> Record] /\ \A l \in Keys : l # k => rows'[l] = rows[l]
      /\ rows'[k].val = epoch /\ rows'[k].uid = uid[m] /\ rows'[k].gone = rows[k].gone
  BY ZenonT(60), <1>3, <1>5 DEF Reidentified, TypeInv, Record
<1>7. rows'[k] # NoRow
  BY <1>5, <1>6 DEF NoRow
<1>8. TableOk(rows', View') /\ OnceIn(rows', View', InHand')
  <2>1. TableOk(rows, View) /\ OnceIn(rows, View, {}) /\ rows \in [Keys -> Record] /\ server[m] = "in"
    BY <1>1, <1>4, <1>3 DEF TablesInv, TypeInv, InFolder
  <2>2. TableOk(rows', View) /\ OnceIn(rows', View, {})
    BY <1>3, <1>5, <1>6, <2>1, TableReidentified, ViewFields
  <2> QED BY <1>4, <2>2
<1>9. \A l \in Keys, o \in Mails : Of(rows, l, o, View) => Of(rows', l, o, View)
  BY <1>3, <1>6, ViewFields DEF Of, Current
<1>10. FetchInv'
  <2>1. \A o \in job'.mails : o \in Mails /\ o # m /\ uid[o] # uid[m] /\ \A l \in Keys : ~Of(rows, l, o, View)
    BY <1>1, <1>2, <1>5 DEF FetchInv, FolderInv, TypeInv, IsJob, Fetching
  <2>2. \A o \in job'.mails : \A l \in Keys : ~Of(rows', l, o, View)
    BY <1>6, <2>1, ViewFields DEF Of, Current
  <2>3. Of(rows', k, m, View)
    BY <1>6, <1>7, ViewFields DEF Of, Current
  <2>4. ~adrift' => \A o \in job'.found : InFolder(o)' => o \in job'.mails \/ \E l \in Keys : Of(rows', l, o, View)
    BY <1>1, <1>2, <1>3, <1>9, <2>3 DEF FetchInv, InFolder, Fetching, TypeInv, IsJob
  <2>5. job'.mails \subseteq job'.found /\ \A o \in job'.found : uid'[o] # 0
    BY <1>1, <1>2 DEF FetchInv, Fetching
  <2> QED BY <1>2, <1>4, <2>2, <2>4, <2>5 DEF FetchInv
<1>11. /\ eml \subseteq eml' /\ eml' \subseteq Keys /\ \A l \in eml' : l[2] <= epoch
       /\ \A l \in Keys : rows'[l] # NoRow => rows[l] # NoRow \/ l \in eml'
  BY <1>3, <1>6 DEF TablesInv, TypeInv
<1> QED BY <1>1, <1>2, <1>6, <1>8, <1>9, <1>10, <1>11, FetchFrame DEF Fetching

\* The mail is written to its file.
LEMMA FetchFileStep ==
  ASSUME StoreInv, NEW m, Fetch(m), Filed(m)
  PROVE  StoreInv'
<1> USE DEF StoreInv
<1>1. /\ UNCHANGED <<server, uid, epoch, flagged, uidplus, now, grp, mine, purged>>
      /\ UNCHANGED <<fresh, rescued, broken, covered, adrift, built, made>>
      /\ job.pc = "fetch" /\ m \in job.mails
  BY FetchEffect
<1>2. /\ m \in Mails /\ uid[m] # 0 /\ epoch \in Nat /\ epoch # 0 /\ <<m, epoch>> \in Keys
      /\ server[m] = "in" /\ \A l \in Keys : ~Of(rows, l, m, View)
  BY <1>1, TypesOfConstants DEF Filed, FetchInv, TypeInv, IsJob, Fetching, Keys, InFolder
<1>3. /\ job'.pc = "insert" /\ job'.found = job.found /\ job'.mails = job.mails \ {m}
      /\ job'.cur = {<<m, epoch>>} /\ IsJob(job')
      /\ rows' = rows /\ eml' = eml \cup {<<m, epoch>>} /\ (MsgId[m] = NoId \/ Stale(m) = {})
  BY <1>1, <1>2 DEF Filed, TypeInv, IsJob, Fields, Pcs, Fetching
<1>4. InHand = {} /\ InHand' = {m}
  <2>1. \A k \in {<<m, epoch>>} : k[1] = m
    OBVIOUS
  <2> QED BY <1>1, <1>3, <2>1, NothingInHand DEF InHand
<1>5. /\ View.epoch = epoch /\ View'.epoch = epoch /\ View.uid = uid /\ View'.uid = uid
      /\ View.server = server /\ View'.server = server
      /\ View'.adrift = View.adrift /\ View'.rescued = View.rescued /\ View'.covered = View.covered
  BY <1>1, ViewFields, ViewFieldsPrime
<1>6. Follows(View, View')
  BY <1>5 DEF Follows, FolderInv
<1>7. TableOk(rows, View') /\ OnceIn(rows, View', {})
  BY <1>4, <1>6, TableFollows, OnceFollows DEF TablesInv
<1>8. OnceIn(rows, View', {m})
  <2> SUFFICES ASSUME ~View'.adrift, View'.rescued = {}
               PROVE  \E f \in [Ided(rows) -> Mails] : Stands(rows, f, View', {m})
    BY DEF OnceIn
  <2>1. PICK f \in [Ided(rows) -> Mails] : Stands(rows, f, View', {})
    BY <1>7 DEF OnceIn
  <2>2. ASSUME NEW k \in Ided(rows) PROVE f[k] # m
    <3>1. k \in Keys /\ rows[k] # NoRow /\ IdOf(k) # NoId
      BY DEF Ided
    <3>2. /\ MsgId[f[k]] = IdOf(k)
          /\ rows[k].val = epoch => uid[f[k]] = rows[k].uid
          /\ rows[k].gone => server[f[k]] = "gone"
      BY <1>5, <2>1 DEF Stands
    <3> SUFFICES ASSUME f[k] = m PROVE FALSE
      OBVIOUS
    <3>3. k \in Stale(m)
      BY <1>2, <1>5, <3>1, <3>2 DEF Stale, Stored, Of, Current
    <3> QED BY <1>3, <3>1, <3>2, <3>3
  <2>3. Stands(rows, f, View', {m})
    BY <2>1, <2>2 DEF Stands
  <2> QED BY <2>3
<1>9. \A l \in Keys, o \in Mails : Of(rows, l, o, View') <=> Of(rows, l, o, View)
  BY <1>5 DEF Of, Current
<1>10. FetchInv'
  <2>1. job.mails \subseteq job.found /\ job.found \subseteq Mails
    BY <1>1 DEF FetchInv, TypeInv, IsJob, Fetching
  <2>2. \A o \in job.mails : \A k \in Keys : ~Of(rows, k, o, View')
    BY <1>1, <1>9, <2>1 DEF FetchInv, Fetching
  <2>3. ASSUME ~adrift', NEW o \in job.found, InFolder(o)', o \notin job'.mails, o # m
        PROVE  \E k \in Keys : Of(rows, k, o, View')
    <3>1. ~adrift /\ InFolder(o) /\ o \notin job.mails /\ o \in Mails
      BY <1>1, <1>3, <2>1, <2>3 DEF InFolder
    <3>2. \E k \in Keys : Of(rows, k, o, View)
      BY <1>1, <3>1 DEF FetchInv, Fetching
    <3> QED BY <1>9, <3>1, <3>2
  <2>4. MsgId[m] = NoId \/ Stale(m)' = {}
    BY <1>1, <1>3 DEF Stale, Stored
  <2>5. <<m, epoch>> \in eml' /\ m \notin job'.mails
    BY <1>3
  <2>6. \A o \in job'.found : uid'[o] # 0
    BY <1>1, <1>3 DEF FetchInv, Fetching
  <2> QED BY <1>1, <1>2, <1>3, <2>1, <2>2, <2>3, <2>4, <2>5, <2>6 DEF FetchInv
<1>11. /\ eml' \subseteq Keys /\ \A l \in eml' : l[2] <= epoch
  BY <1>2, <1>3 DEF TablesInv, TypeInv
<1> QED BY <1>1, <1>3, <1>4, <1>7, <1>8, <1>9, <1>10, <1>11, FetchFrame DEF Fetching, TypeInv

LEMMA FetchMailStep ==
  ASSUME StoreInv, NEW m \in Mails, FetchMail(m)
  PROVE  StoreInv'
<1>1. Fetch(m)
  BY DEF FetchMail, Fetch
<1>2. Missed(m) \/ (\E k : Reidentified(m, k)) \/ Filed(m)
  BY DEF FetchMail, Missed, Reidentified, Filed
<1> QED BY <1>1, <1>2, FetchMissedStep, ReidentifyStep, FetchFileStep

\* The mail is inserted, unless a row has its key already.
LEMMA InsertMailStep ==
  ASSUME StoreInv, InsertMail
  PROVE  StoreInv'
<1> USE DEF StoreInv
<1>1. /\ UNCHANGED <<server, uid, epoch, flagged, uidplus, now, grp, mine, purged, eml>>
      /\ UNCHANGED <<fresh, rescued, broken, covered, adrift, built, made>> /\ job.pc = "insert"
  BY DEF InsertMail, Quiet, folder
<1>2. /\ job'.pc = "fetch" /\ job'.found = job.found /\ job'.mails = job.mails /\ job'.cur = {}
      /\ IsJob(job')
  BY DEF InsertMail, TypeInv, IsJob, Fields, Pcs, Fetching
<1>3. PICK m \in Mails : /\ job.cur = {<<m, epoch>>} /\ <<m, epoch>> \in eml
                         /\ uid[m] # 0 /\ m \notin job.mails
                         /\ \A k \in Keys : ~Of(rows, k, m, View)
  BY <1>1 DEF FetchInv, Fetching
<1> DEFINE k0 == <<m, epoch>>
<1>4. k0 \in Keys /\ k0[1] = m /\ k0[2] = epoch /\ epoch \in Nat /\ epoch # 0 /\ uid[m] \in Nat
  BY <1>3, TypesOfConstants DEF TypeInv, Keys
<1> HIDE DEF k0
<1>5. ~Indexed(m)
  BY <1>3, NamesIsOf DEF Indexed, Stored
<1>6. \/ rows' = rows /\ rows[k0] # NoRow
      \/ /\ rows' = [rows EXCEPT ![k0] = [val |-> epoch, uid |-> uid[m], cls |-> FALSE, gone |-> FALSE]]
         /\ rows[k0] = NoRow
  <2>1. \E k \in {k0} : rows' = IF k \in Stored \/ Indexed(k[1]) THEN rows
               ELSE [rows EXCEPT ![k] = [val |-> epoch, uid |-> uid[k[1]], cls |-> FALSE, gone |-> FALSE]]
    BY <1>3 DEF InsertMail, k0
  <2>2. rows' = IF k0 \in Stored \/ Indexed(m) THEN rows
               ELSE [rows EXCEPT ![k0] = [val |-> epoch, uid |-> uid[m], cls |-> FALSE, gone |-> FALSE]]
    BY <1>4, <2>1
  <2> QED BY <1>4, <1>5, <2>2 DEF Stored
<1>7. InHand = {m} /\ InHand' = {} /\ View' = View
  <2>1. {k[1] : k \in {k0}} = {m}
    BY <1>4
  <2> QED BY <1>1, <1>2, <1>3, <2>1, NothingInHand DEF InHand, View, k0
<1>8. TableOk(rows, View) /\ OnceIn(rows, View, {m}) /\ rows \in [Keys -> Record]
  BY <1>7 DEF TablesInv, TypeInv
<1>9. /\ eml' \subseteq Keys /\ \A k \in eml' : k[2] <= epoch
  BY <1>1 DEF TablesInv, TypeInv
<1>10. \A o \in job.mails : o \in Mails /\ o # m /\ uid[o] # uid[m] /\ \A l \in Keys : ~Of(rows, l, o, View)
  BY <1>1, <1>3 DEF FetchInv, FolderInv, TypeInv, IsJob, Fetching
<1>11. job.mails \subseteq job.found /\ \A o \in job.found : uid[o] # 0 /\ o \in Mails
  BY <1>1 DEF FetchInv, TypeInv, IsJob, Fetching
<1>12. ASSUME ~adrift, NEW o \in job.found, InFolder(o), o \notin job.mails, o # m
       PROVE  \E k \in Keys : Of(rows, k, o, View)
  BY <1>1, <1>3, <1>12 DEF FetchInv, Fetching
<1>13. CASE rows' = rows /\ rows[k0] # NoRow
  <2>1. adrift
    <3>1. RowOk(rows, k0, View)
      BY <1>4, <1>8, <1>13 DEF TableOk
    <3> QED BY <1>3, <1>4, <1>13, <3>1, ViewFields DEF RowOk, Of, Current
  <2>2. TableOk(rows', View') /\ OnceIn(rows', View', InHand')
    BY <1>7, <1>8, <1>13, OnceFewer
  <2>3. FetchInv'
    BY <1>1, <1>2, <1>7, <1>10, <1>11, <1>13, <2>1 DEF FetchInv
  <2> QED BY <1>1, <1>2, <1>8, <1>9, <1>13, <2>2, <2>3, FetchFrame DEF Fetching
<1>14. CASE /\ rows' = [rows EXCEPT ![k0] = [val |-> epoch, uid |-> uid[m], cls |-> FALSE, gone |-> FALSE]]
            /\ rows[k0] = NoRow
  <2>1. /\ rows' \in [Keys -> Record] /\ \A l \in Keys : l # k0 => rows'[l] = rows[l]
        /\ rows'[k0].val = epoch /\ rows'[k0].uid = uid[m] /\ ~rows'[k0].gone
    BY <1>4, <1>8, <1>14 DEF Record
  <2>2. rows'[k0] # NoRow
    BY <1>4, <2>1 DEF NoRow
  <2>3. server[m] # "away"
    BY <1>3 DEF FolderInv
  <2>4. TableOk(rows', View) /\ OnceIn(rows', View, {})
    BY ZenonT(60), <1>3, <1>4, <1>8, <1>14, <2>1, <2>3, TableInserted, ViewFields
  <2>5. TableOk(rows', View') /\ OnceIn(rows', View', InHand')
    BY <1>7, <2>4
  <2>6. \A l \in Keys, o \in Mails : Of(rows, l, o, View) => Of(rows', l, o, View)
    BY <1>14, <2>1 DEF Of, Current
  <2>7. Of(rows', k0, m, View)
    BY <2>1, <2>2, ViewFields DEF Of, Current
  <2>8. \A o \in job.mails : \A l \in Keys : ~Of(rows', l, o, View)
    BY <1>10, <2>1, ViewFields DEF Of, Current
  <2>9. ASSUME ~adrift, NEW o \in job.found, InFolder(o), o \notin job.mails
        PROVE  \E k \in Keys : Of(rows', k, o, View)
    BY <1>4, <1>11, <1>12, <2>6, <2>7, <2>9
  <2>10. FetchInv'
    BY <1>1, <1>2, <1>7, <1>11, <2>8, <2>9 DEF FetchInv, InFolder
  <2>11. \A l \in Keys : rows'[l] # NoRow => rows[l] # NoRow \/ l \in eml'
    BY <1>1, <1>3, <2>1 DEF k0
  <2> QED BY <1>1, <1>2, <1>9, <2>1, <2>5, <2>6, <2>10, <2>11, FetchFrame DEF Fetching
<1> QED BY <1>6, <1>13, <1>14

\* What the fetch found is covered from now on.
LEMMA FinishFetchStep ==
  ASSUME StoreInv, FinishFetch
  PROVE  StoreInv'
<1> USE DEF StoreInv
<1> DEFINE C == {m \in job.found : InFolder(m) /\ \A k \in Stored : Names(k, m) => k \in eml}
<1>1. /\ UNCHANGED <<server, uid, epoch, flagged, uidplus, now, rows, eml, grp, mine, purged>>
      /\ UNCHANGED <<fresh, rescued, adrift, built, made, broken>> /\ job' = Idle
      /\ job.pc = "fetch" /\ job.mails = {} /\ covered' = covered \cup C
  BY DEF FinishFetch, Quiet, folder, index
<1>2. job'.pc = "idle" /\ InHand' = {} /\ InHand = {}
  BY <1>1, IdleJob, NothingInHand
<1>3. TypeInv'
  BY <1>1, <1>2, IdleJob, TypesOfConstants DEF TypeInv, NoIndex, Groups
<1>4. FolderInv'
  <2>1. C \subseteq {m \in Mails : InFolder(m)}
    BY DEF TypeInv, IsJob
  <2> HIDE DEF C
  <2> QED BY <1>1, <2>1, FolderFrame DEF FolderInv
<1>5. TablesInv'
  <2>1. Follows(View, View')
    BY <1>1, ViewFields, ViewFieldsPrime DEF Follows, FolderInv
  <2>2. TableOk(rows, View') /\ OnceIn(rows, View', {})
    BY <1>2, <2>1, TableFollows, OnceFollows DEF TablesInv
  <2>3. CoveredIn(rows, View')
    <3> SUFFICES ASSUME ~adrift, NEW m \in covered'
                 PROVE  \E k \in Keys : k \in eml /\ Of(rows, k, m, View')
      BY <1>1, ViewFieldsPrime DEF CoveredIn
    <3>1. \A k \in Keys : Of(rows, k, m, View) => Of(rows, k, m, View')
      BY <1>1, ViewFields, ViewFieldsPrime DEF Of, Current
    <3>2. CASE m \in covered
      BY <1>1, <3>1, <3>2, ViewFields DEF CoveredIn, TablesInv
    <3>3. CASE m \in C
      <4>1. /\ m \in Mails /\ uid[m] # 0 /\ m \in job.found /\ InFolder(m)
            /\ \A k \in Stored : Names(k, m) => k \in eml
        BY <1>1, <3>3 DEF FetchInv, Fetching, TypeInv, IsJob
      <4>2. PICK k \in Keys : Of(rows, k, m, View)
        BY <1>1, <4>1 DEF FetchInv, Fetching
      <4>3. k \in Stored /\ Names(k, m)
        BY <4>1, <4>2, NamesIsOf
      <4> QED BY <3>1, <4>1, <4>2, <4>3
    <3> QED BY <1>1, <3>2, <3>3
  <2>4. RowHasFile'
    BY <1>1 DEF TablesInv, RowHasFile, Stored, Expired
  <2> QED BY <1>1, <1>2, <2>2, <2>3, <2>4 DEF TablesInv, Rebuilding
<1>6. FetchInv' /\ DeleteInv' /\ ServedInv'
  BY <1>1, <1>2, NotInTheMiddle, NoFlagsOfOurs DEF Deleting, Pruning, Fetching
<1>7. DecisionInv'
  BY <1>1, <1>2 DEF DecisionInv
<1> QED BY <1>3, <1>4, <1>5, <1>6, <1>7

-----------------------------------------------------------------------------
(* The steps of the deletion on the server.                                 *)

\* What a step of the deletion has to show.
LEMMA DeletingFrame ==
  ASSUME StoreInv, job.pc \in {"idle"} \cup Deleting, job'.pc \in Deleting \cup {"expired"}, IsJob(job'),
         UNCHANGED <<epoch, uid, uidplus, now, eml, grp, built, rescued, made, adrift, rows>>,
         broken' \in BOOLEAN, server' \in [Mails -> {"away", "in", "gone"}],
         covered' \subseteq covered, FolderInv', Follows(View, View'), DeleteInv', ServedInv'
  PROVE  StoreInv'
<1> USE DEF StoreInv
<1>1. InHand = {} /\ InHand' = {}
  BY NothingInHand DEF Deleting
<1>2. TypeInv'
  BY DEF TypeInv, Deleting
<1>3. TablesInv'
  <2>1. TableOk(rows, View') /\ OnceIn(rows, View', {})
    BY <1>1, TableFollows, OnceFollows DEF TablesInv
  <2>2. CoveredIn(rows, View')
    <3>1. CoveredIn(rows, View)
      BY DEF TablesInv, Deleting
    <3> QED BY <3>1, CoveredFollows, ViewFields, ViewFieldsPrime
  <2>3. RowHasFile'
    BY DEF TablesInv, RowHasFile, Stored, Expired
  <2> QED BY <1>1, <2>1, <2>2, <2>3 DEF TablesInv, Rebuilding, Deleting
<1>4. FetchInv'
  BY DEF FetchInv, Fetching, Deleting
<1>5. DecisionInv'
  BY DEF DecisionInv, Deleting
<1> QED BY <1>2, <1>3, <1>4, <1>5

LEMMA StillFrame ==
  ASSUME StoreInv, UNCHANGED <<server, uid, epoch, rescued, adrift, covered>>, mine' \subseteq flagged'
  PROVE  /\ Follows(View, View') /\ FolderInv' /\ server' \in [Mails -> {"away", "in", "gone"}]
         /\ \A k \in Keys : Current(rows, k, View') <=> Current(rows, k, View)
BY FolderFrame, ViewFields, ViewFieldsPrime DEF StoreInv, TypeInv, FolderInv, Follows, Current

\* The listing.
LEMMA StartCleanupStep ==
  ASSUME StoreInv, NEW serverKeep \in ServerKeeps, StartCleanup(serverKeep)
  PROVE  StoreInv'
<1> USE DEF StoreInv
<1> DEFINE keep == IF serverKeep = 0 THEN 0 ELSE EffectiveKeep(serverKeep)
           due  == IF keep = 0 THEN {} ELSE Candidates(keep)
           todo == {k \in due : rows[k].val = epoch}
           pc   == IF due = {} THEN "expired" ELSE "batch"
<1>1. /\ UNCHANGED <<server, uid, epoch, flagged, uidplus, now, rows, eml, grp, mine, purged>>
      /\ UNCHANGED <<fresh, rescued, broken, covered, adrift, built, made>> /\ job.pc = "idle"
      /\ job' = [job EXCEPT !.keep = keep, !.day = now, !.pc = pc, !.todo = todo]
  BY DEF StartCleanup, Calm, Still
<1>2. job = Idle /\ ~job.stop /\ job.del = {} /\ job.marks = {} /\ IsJob(job)
  BY <1>1, IdleJob DEF TypeInv
<1>3. keep \in Nat /\ keep <= MailKeep
  <2>1. serverKeep \in Nat
    BY StoreBoundsAssumption
  <2>2. Smaller(serverKeep, MailKeep) \in Nat /\ Smaller(serverKeep, MailKeep) <= MailKeep
    BY <2>1, SmallerOf, TypesOfConstants
  <2> QED BY <2>2, TypesOfConstants DEF EffectiveKeep
<1>4. /\ todo \subseteq due /\ due \subseteq Keys
      /\ \A k \in due : /\ rows[k] # NoRow /\ rows[k].cls /\ k[1] \in Certain /\ ~rows[k].gone
                        /\ rows[k].val # 0 /\ now > Date[k[1]] + keep
      /\ keep > 0 => \A k \in Keys : /\ rows[k] # NoRow /\ rows[k].cls /\ k[1] \in Certain
                                     /\ ~rows[k].gone /\ rows[k].val # 0 /\ now > Date[k[1]] + keep
                                     => k \in due
  BY <1>3 DEF Candidates, Stored
<1>5. \A k \in todo : rows[k].val = epoch
  OBVIOUS
<1>6. \A k \in due : rows[k].val = epoch => k \in todo
  OBVIOUS
<1>7. pc \in {"expired", "batch"} /\ (due # {} => pc = "batch")
  OBVIOUS
<1> HIDE DEF keep, due, todo, pc
<1>8. /\ job'.keep = keep /\ job'.day = now /\ job'.pc = pc /\ job'.todo = todo
      /\ job'.del = {} /\ job'.marks = {} /\ ~job'.stop /\ IsJob(job')
  <2>1. todo \subseteq Keys /\ pc \in Pcs /\ now \in Nat
    BY <1>4, <1>7 DEF TypeInv, Pcs, Deleting, Pruning
  <2> QED BY <1>1, <1>2, <1>3, <2>1 DEF IsJob, Fields
<1>9. /\ Follows(View, View') /\ FolderInv' /\ server' \in [Mails -> {"away", "in", "gone"}]
      /\ \A k \in Keys : Current(rows, k, View') <=> Current(rows, k, View)
  BY <1>1, StillFrame DEF FolderInv
<1>10. Handled' = todo
  BY <1>8 DEF Handled
<1>11. \A k : Due(k)' <=> rows[k].cls /\ k[1] \in Certain /\ now > Date[k[1]] + keep
  BY <1>1, <1>8 DEF Due
<1>12. DeleteInv'
  <2>1. \A k \in todo : k \in Keys /\ Current(rows, k, View)
    BY <1>4, <1>5, ViewFields DEF Current
  <2>2. \A k \in todo : Due(k)'
    BY <1>4, <1>11
  <2>3. ~broken => mine = {}
    BY <1>1, NoFlagsOfOurs
  <2> QED BY <1>1, <1>7, <1>8, <1>9, <1>10, <2>1, <2>2, <2>3 DEF DeleteInv
<1>13. ServedInv'
  <2>1. ASSUME keep > 0, NEW k \in Keys PROVE Served(k)'
    <3>1. SUFFICES ASSUME Current(rows, k, View'), Due(k)', ~rows[k].gone
                   PROVE  pc = "batch" /\ k \in todo
      BY <1>1, <1>8, <1>10 DEF Served, Deleting
    <3>2. rows[k] # NoRow /\ rows[k].val = epoch /\ rows[k].val # 0
      BY <1>1, <3>1, ViewFieldsPrime, TypesOfConstants DEF Current, TypeInv
    <3>3. k \in due
      BY <1>4, <1>11, <2>1, <3>1, <3>2
    <3> QED BY <1>6, <1>7, <3>2, <3>3
  <2> QED BY <1>3, <1>7, <1>8, <2>1 DEF ServedInv
<1> QED BY <1>1, <1>7, <1>8, <1>9, <1>12, <1>13, DeletingFrame DEF Deleting, TypeInv

\* A batch: each of its rows is to be deleted, to be marked, or not one the
\* server can be asked to delete.
LEMMA CheckBatchStep ==
  ASSUME StoreInv, CheckBatch
  PROVE  StoreInv'
<1> USE DEF StoreInv
<1>1. /\ UNCHANGED <<server, uid, epoch, flagged, uidplus, now, rows, eml, grp, mine, purged>>
      /\ UNCHANGED <<fresh, rescued, broken, covered, adrift, built, made>> /\ job.pc = "batch"
  BY DEF CheckBatch, Calm, Still
<1>2. PICK B \in SUBSET job.todo, pc \in {"mark", "store", "search"} :
        LET del == {k \in B : \E m \in Named(k) : MsgId[m] = IdOf(k) /\ IdOf(k) # NoId}
        IN /\ job' = [job EXCEPT !.todo = @ \ B, !.del = del, !.marks = {k \in B : Named(k) = {}}, !.pc = pc]
           /\ pc = "mark" => del = {}
  BY DEF CheckBatch, Batches
<1> DEFINE del   == {k \in B : \E m \in Named(k) : MsgId[m] = IdOf(k) /\ IdOf(k) # NoId}
           marks == {k \in B : Named(k) = {}}
<1>3. del \subseteq B /\ marks \subseteq B /\ \A k \in marks : Named(k) = {}
  OBVIOUS
<1>4. \A k \in B : \A m \in Named(k) : MsgId[m] = IdOf(k) /\ IdOf(k) # NoId => k \in del
  OBVIOUS
<1>5. \A k \in B : Named(k) = {} => k \in marks
  OBVIOUS
<1>6. job' = [job EXCEPT !.todo = @ \ B, !.del = del, !.marks = marks, !.pc = pc] /\ (pc = "mark" => del = {})
  BY <1>2
<1> HIDE DEF del, marks
<1>7. /\ job'.todo = job.todo \ B /\ job'.del = del /\ job'.marks = marks /\ job'.pc = pc
      /\ job'.keep = job.keep /\ job'.day = job.day /\ job'.stop = job.stop /\ IsJob(job')
  <2>1. IsJob(job) /\ B \subseteq Keys
    BY DEF TypeInv, IsJob
  <2> QED BY <1>3, <1>6, <2>1 DEF IsJob, Fields, Pcs, Deleting
<1>8. /\ Follows(View, View') /\ FolderInv' /\ server' \in [Mails -> {"away", "in", "gone"}]
      /\ \A k \in Keys : Current(rows, k, View') <=> Current(rows, k, View)
  BY <1>1, StillFrame DEF FolderInv
<1>9. Handled \subseteq Keys /\ Handled' = (job.todo \ B) \cup del \cup marks /\ Handled' \subseteq job.todo
  BY <1>3, <1>7 DEF Handled, TypeInv, IsJob
<1>10. /\ \A k : Due(k)' = Due(k)
       /\ \A k : Named(k)' = Named(k)
  BY <1>1, <1>7 DEF Due, Named, Names, InFolder
<1>11. /\ job.del = {} /\ job.marks = {} /\ Handled = job.todo
       /\ \A k \in job.todo : Current(rows, k, View) /\ Due(k) /\ k \in Keys
       /\ ~broken => mine = {}
  BY <1>1, <1>9 DEF DeleteInv, Deleting, Handled
<1>12. DeleteInv'
  <2>1. \A k \in Handled' : Current(rows, k, View')
    BY <1>8, <1>9, <1>11
  <2>2. \A k \in job'.todo \cup job'.del : Due(k)'
    BY <1>3, <1>7, <1>10, <1>11
  <2>3. \A k \in job'.marks : Named(k)' \subseteq rescued'
    BY <1>3, <1>7, <1>10
  <2> QED BY <1>1, <1>6, <1>7, <1>11, <2>1, <2>2, <2>3 DEF DeleteInv
<1>13. ServedInv'
  <2>1. ASSUME job.keep > 0, ~job.stop, NEW k \in Keys PROVE Served(k)'
    <3>1. SUFFICES ASSUME Current(rows, k, View), Due(k), ~rows[k].gone, IdOf(k) # NoId
                   PROVE  k \in Handled'
      BY <1>1, <1>7, <1>8, <1>10 DEF Served, Deleting
    <3>2. k \in job.todo
      BY <1>1, <1>11, <2>1, <3>1 DEF ServedInv, Served, Deleting
    <3>3. CASE k \notin B
      BY <1>9, <3>2, <3>3
    <3>4. CASE k \in B /\ Named(k) = {}
      BY <1>5, <1>9, <3>4
    <3>5. CASE k \in B /\ Named(k) # {}
      <4>1. PICK m \in Named(k) : TRUE
        BY <3>5
      <4>2. m \in Mails /\ rows[k].uid = uid[m] /\ uid[m] # 0
        BY DEF Named, Names
      <4>3. PICK n \in Mails : uid[n] # 0 /\ uid[n] = rows[k].uid /\ Copy(k, n)
        BY <3>1, ViewFields DEF TablesInv, TableOk, RowOk, Current
      <4>4. m = n
        BY <4>2, <4>3 DEF FolderInv
      <4>5. MsgId[m] = IdOf(k)
        BY <4>3, <4>4 DEF Copy, IdOf
      <4> QED BY <1>4, <1>9, <3>1, <3>5, <4>5
    <3> QED BY <3>3, <3>4, <3>5
  <2> QED BY <1>1, <1>7, <2>1 DEF ServedInv, Deleting, Pruning
<1> QED BY <1>1, <1>7, <1>8, <1>12, <1>13, DeletingFrame DEF Deleting, TypeInv

LEMMA FinishBatchesStep ==
  ASSUME StoreInv, FinishBatches
  PROVE  StoreInv'
<1> USE DEF StoreInv
<1>1. /\ UNCHANGED <<server, uid, epoch, flagged, uidplus, now, rows, eml, grp, mine, purged>>
      /\ UNCHANGED <<fresh, rescued, broken, covered, adrift, built, made>> /\ job.pc = "batch"
      /\ job.todo = {}
  BY DEF FinishBatches, Calm, Still
<1>2. /\ job'.pc = "expired" /\ job'.keep = job.keep /\ job'.day = job.day /\ job'.stop = job.stop
      /\ IsJob(job')
  BY DEF FinishBatches, TypeInv, IsJob, Fields, Pcs, Pruning
<1>3. /\ Follows(View, View') /\ FolderInv' /\ server' \in [Mails -> {"away", "in", "gone"}]
      /\ \A k \in Keys : Current(rows, k, View') <=> Current(rows, k, View)
  BY <1>1, StillFrame DEF FolderInv
<1>4. Handled = {} /\ (~broken => mine = {})
  BY <1>1 DEF DeleteInv, Deleting, Handled
<1>5. DeleteInv'
  BY <1>1, <1>2, <1>4 DEF DeleteInv, Deleting
<1>6. \A k : Due(k)' = Due(k)
  BY <1>1, <1>2 DEF Due
<1>7. ServedInv'
  BY <1>1, <1>2, <1>3, <1>4, <1>6 DEF ServedInv, Served, Deleting, Pruning
<1> QED BY <1>1, <1>2, <1>3, <1>5, <1>7, DeletingFrame DEF Deleting, TypeInv

LEMMA GivenUpJob ==
  ASSUME TypeInv
  PROVE  /\ GivenUp.pc = "mark" /\ GivenUp.del = {} /\ GivenUp.todo = {} /\ GivenUp.stop
         /\ GivenUp.marks = job.marks /\ GivenUp.keep = job.keep /\ GivenUp.day = job.day
         /\ IsJob(GivenUp)
BY DEF GivenUp, TypeInv, IsJob, Fields, Pcs, Deleting

\* The deletion is given up: what is marked already stays to be marked.
LEMMA GivenUpKeeps ==
  ASSUME StoreInv, job.pc \in Deleting, job' = GivenUp,
         UNCHANGED <<uid, epoch, rows, rescued>>, \A m \in Mails : InFolder(m)' => InFolder(m),
         ~broken' => mine' = {}
  PROVE  DeleteInv' /\ ServedInv'
<1> USE DEF StoreInv
<1>1. /\ job'.pc = "mark" /\ job'.del = {} /\ job'.todo = {} /\ job'.stop
      /\ job'.marks = job.marks /\ job'.keep = job.keep
  BY GivenUpJob
<1>2. \A k \in job.marks : /\ k \in Keys /\ Current(rows, k, View')
                           /\ Named(k)' \subseteq rescued'
  <2> SUFFICES ASSUME NEW k \in job.marks
               PROVE  k \in Keys /\ Current(rows, k, View') /\ Named(k)' \subseteq rescued'
    OBVIOUS
  <2>1. k \in Keys /\ Current(rows, k, View) /\ Named(k) \subseteq rescued
    BY DEF TypeInv, IsJob, DeleteInv, Handled
  <2>2. Named(k)' \subseteq Named(k)
    BY DEF Named, Names
  <2> QED BY <2>1, <2>2, ViewFields, ViewFieldsPrime DEF Current
<1>3. DeleteInv'
  BY <1>1, <1>2 DEF DeleteInv, Handled
<1>4. ServedInv'
  BY <1>1 DEF ServedInv
<1> QED BY <1>3, <1>4

LEMMA MovedJob ==
  ASSUME TypeInv, NEW p \in Pcs, job' = [job EXCEPT !.pc = p]
  PROVE  /\ job'.pc = p /\ job'.todo = job.todo /\ job'.del = job.del /\ job'.marks = job.marks
         /\ job'.cur = job.cur /\ job'.keep = job.keep /\ job'.day = job.day /\ job'.stop = job.stop
         /\ IsJob(job')
BY DEF TypeInv, IsJob, Fields

\* The deletion of the batch goes on.
LEMMA MovedKeeps ==
  ASSUME StoreInv, job.pc \in Deleting, NEW p \in Deleting \ {"batch", "mark"}, job' = [job EXCEPT !.pc = p],
         UNCHANGED <<server, uid, epoch, rows, rescued, uidplus>>,
         p \in {"verify", "expunge"} => Doomed \subseteq flagged' \cup rescued,
         p = "expunge" /\ ~uidplus => flagged' \subseteq Doomed \cup fresh',
         ~broken' /\ mine' # {} => p \in {"verify", "clear", "expunge"} /\ mine' \subseteq Doomed
  PROVE  DeleteInv' /\ ServedInv'
<1> USE DEF StoreInv
<1>1. /\ job'.pc = p /\ job'.todo = job.todo /\ job'.del = job.del /\ job'.marks = job.marks
      /\ job'.cur = job.cur /\ job'.keep = job.keep /\ job'.day = job.day /\ job'.stop = job.stop
  BY MovedJob DEF Pcs
<1>2. /\ Handled' = Handled /\ \A k : Due(k)' = Due(k) /\ Named(k)' = Named(k)
      /\ \A k : Current(rows, k, View)' <=> Current(rows, k, View)
  BY <1>1, ViewFields, ViewFieldsPrime DEF Handled, Due, Named, Names, InFolder, Current
<1>3. Doomed' = Doomed
  BY <1>1, <1>2 DEF Doomed
<1>4. DeleteInv'
  BY <1>1, <1>2, <1>3 DEF DeleteInv
<1>5. ServedInv'
  BY <1>1, <1>2 DEF ServedInv, Served, Deleting, Pruning
<1> QED BY <1>4, <1>5

\* The search before the flags are set.
LEMMA SearchStep ==
  ASSUME StoreInv, Search
  PROVE  StoreInv'
<1> USE DEF StoreInv
<1>1. /\ UNCHANGED <<server, uid, epoch, flagged, uidplus, now, rows, eml, grp, mine, purged>>
      /\ UNCHANGED <<rescued, broken, covered, adrift, built, made>> /\ job.pc = "search"
      /\ job' = [job EXCEPT !.pc = "store"] \/ job' = GivenUp
  BY DEF Search, Still
<1>2. Follows(View, View') /\ FolderInv' /\ server' \in [Mails -> {"away", "in", "gone"}]
  BY <1>1, StillFrame DEF FolderInv
<1>3. ~broken => mine = {}
  BY <1>1, NoFlagsOfOurs
<1>4. DeleteInv' /\ ServedInv' /\ IsJob(job') /\ job'.pc \in Deleting
  <2>1. CASE job' = GivenUp
    BY <1>1, <1>3, <2>1, GivenUpKeeps, GivenUpJob DEF InFolder, Deleting
  <2>2. CASE job' = [job EXCEPT !.pc = "store"]
    BY <1>1, <1>3, <2>2, MovedKeeps, MovedJob DEF Deleting, Pcs
  <2> QED BY <1>1, <2>1, <2>2
<1> QED BY <1>1, <1>2, <1>4, DeletingFrame DEF Deleting, TypeInv

LEMMA StoreFlagsStep ==
  ASSUME StoreInv, StoreFlags
  PROVE  StoreInv'
<1> USE DEF StoreInv
<1>1. /\ UNCHANGED <<server, uid, epoch, uidplus, now, rows, eml, grp, purged>>
      /\ UNCHANGED <<rescued, broken, covered, adrift, built, made>> /\ job.pc = "store"
      /\ flagged' = flagged \cup Doomed /\ mine' = mine \cup Doomed
  BY DEF StoreFlags, Still
<1>2. PICK p \in {"expunge", "verify"} : job' = [job EXCEPT !.pc = p] /\ (p = "expunge" => uidplus)
  BY DEF StoreFlags
<1>3. Follows(View, View') /\ FolderInv' /\ server' \in [Mails -> {"away", "in", "gone"}]
  BY <1>1, StillFrame DEF FolderInv
<1>4. ~broken => mine = {}
  BY <1>1, NoFlagsOfOurs
<1>5. DeleteInv' /\ ServedInv'
  BY <1>1, <1>2, <1>4, MovedKeeps DEF Deleting
<1>6. IsJob(job') /\ job'.pc \in Deleting
  BY <1>2, MovedJob DEF Pcs, Deleting
<1> QED BY <1>1, <1>3, <1>5, <1>6, DeletingFrame DEF Deleting, TypeInv

\* The search after the flags were set.
LEMMA VerifyStep ==
  ASSUME StoreInv, Verify
  PROVE  StoreInv'
<1> USE DEF StoreInv
<1>1. /\ UNCHANGED <<server, uid, epoch, flagged, mine, uidplus, now, rows, eml, grp, purged>>
      /\ UNCHANGED <<rescued, broken, covered, adrift, built, made>> /\ job.pc = "verify"
  BY DEF Verify, Still
<1>2. PICK p \in {"expunge", "clear"} : job' = [job EXCEPT !.pc = p] /\ (p = "expunge" => flagged \subseteq Doomed)
  BY DEF Verify
<1>3. Follows(View, View') /\ FolderInv' /\ server' \in [Mails -> {"away", "in", "gone"}]
  BY <1>1, StillFrame DEF FolderInv
<1>4. /\ Doomed \subseteq flagged \cup rescued
      /\ ~broken /\ mine # {} => mine \subseteq Doomed
  BY <1>1 DEF DeleteInv
<1>5. DeleteInv' /\ ServedInv'
  BY <1>1, <1>2, <1>4, MovedKeeps DEF Deleting
<1>6. IsJob(job') /\ job'.pc \in Deleting
  BY <1>2, MovedJob DEF Pcs, Deleting
<1> QED BY <1>1, <1>3, <1>5, <1>6, DeletingFrame DEF Deleting, TypeInv

LEMMA ClearFlagsStep ==
  ASSUME StoreInv, ClearFlags
  PROVE  StoreInv'
<1> USE DEF StoreInv
<1>1. /\ UNCHANGED <<server, uid, epoch, uidplus, now, rows, eml, grp, purged>>
      /\ UNCHANGED <<rescued, broken, covered, adrift, built, made>> /\ job.pc = "clear"
      /\ flagged' = flagged \ Doomed /\ mine' = mine \ Doomed /\ job' = GivenUp
  BY DEF ClearFlags, Still
<1>2. Follows(View, View') /\ FolderInv' /\ server' \in [Mails -> {"away", "in", "gone"}]
  BY <1>1, StillFrame DEF FolderInv
<1>3. ~broken => mine' = {}
  BY <1>1 DEF DeleteInv
<1>4. DeleteInv' /\ ServedInv' /\ IsJob(job') /\ job'.pc \in Deleting
  BY <1>1, <1>3, GivenUpKeeps, GivenUpJob DEF InFolder, Deleting
<1> QED BY <1>1, <1>2, <1>4, DeletingFrame DEF Deleting, TypeInv

\* The connection breaks.
LEMMA ConnectionLostStep ==
  ASSUME StoreInv, ConnectionLost
  PROVE  StoreInv'
<1> USE DEF StoreInv
<1>1. /\ UNCHANGED <<server, uid, epoch, uidplus, now, rows, eml, grp, purged, flagged, mine>>
      /\ UNCHANGED <<rescued, covered, adrift, built, made>> /\ job.pc \in Deleting
      /\ job' = GivenUp /\ broken' = (broken \/ Doomed \intersect mine # {})
  BY DEF ConnectionLost, Still, Calm, Deleting
<1>2. Follows(View, View') /\ FolderInv' /\ server' \in [Mails -> {"away", "in", "gone"}]
  BY <1>1, StillFrame DEF FolderInv
<1>3. (~broken' => mine' = {}) /\ broken' \in BOOLEAN
  BY <1>1 DEF DeleteInv
<1>4. DeleteInv' /\ ServedInv' /\ IsJob(job') /\ job'.pc \in Deleting
  BY <1>1, <1>3, GivenUpKeeps, GivenUpJob DEF InFolder, Deleting
<1> QED BY <1>1, <1>2, <1>3, <1>4, DeletingFrame

\* The chosen mails go, and those without the flag stay.
LEMMA ExpungeStep ==
  ASSUME StoreInv, Expunge
  PROVE  StoreInv'
<1> USE DEF StoreInv
<1> DEFINE E == IF uidplus THEN flagged \intersect Doomed ELSE flagged
<1>1. /\ UNCHANGED <<uid, epoch, uidplus, now, rows, eml, grp>>
      /\ UNCHANGED <<rescued, broken, adrift, built, made>> /\ job.pc = "expunge"
      /\ server' = [m \in Mails |-> IF m \in E THEN "gone" ELSE server[m]]
      /\ flagged' = flagged \ E /\ mine' = mine \ E /\ covered' = covered \ E
      /\ \/ job' = [job EXCEPT !.pc = "mark", !.marks = @ \cup job.del, !.del = {}]
         \/ job' = GivenUp
  BY DEF Expunge
<1>2. /\ E \subseteq flagged /\ flagged \intersect Doomed \subseteq E
      /\ Doomed \subseteq flagged \cup rescued
      /\ ~broken => mine \subseteq E
  BY <1>1 DEF DeleteInv, FolderInv
<1> HIDE DEF E
<1>3. FolderInv'
  BY <1>1 DEF FolderInv, InFolder
<1>4. Follows(View, View') /\ server' \in [Mails -> {"away", "in", "gone"}]
  BY <1>1, ViewFields, ViewFieldsPrime DEF Follows, FolderInv, TypeInv
<1>5. (\A m \in Mails : InFolder(m)' => InFolder(m) /\ m \notin E) /\ (~broken' => mine' = {})
  BY <1>1, <1>2 DEF InFolder
<1>6. CASE job' = GivenUp
  <2>1. DeleteInv' /\ ServedInv' /\ IsJob(job') /\ job'.pc \in Deleting
    BY <1>1, <1>5, <1>6, GivenUpKeeps, GivenUpJob DEF Deleting
  <2> QED BY <1>1, <1>3, <1>4, <2>1, DeletingFrame DEF Deleting, TypeInv
<1>7. CASE job' = [job EXCEPT !.pc = "mark", !.marks = @ \cup job.del, !.del = {}]
  <2>1. /\ job'.pc = "mark" /\ job'.todo = job.todo /\ job'.del = {} /\ job'.marks = job.marks \cup job.del
        /\ job'.keep = job.keep /\ job'.day = job.day /\ job'.stop = job.stop /\ IsJob(job')
    BY <1>7 DEF TypeInv, IsJob, Fields, Pcs, Deleting
  <2>2. Handled' = Handled
    BY <2>1 DEF Handled
  <2>3. /\ \A k : Due(k)' = Due(k)
        /\ \A k : Current(rows, k, View)' <=> Current(rows, k, View)
    BY <1>1, <2>1, ViewFields, ViewFieldsPrime DEF Due, Current
  <2>4. \A k : Named(k)' \subseteq Named(k) \ E
    BY <1>1, <1>5 DEF Named, Names
  <2>5. \A k \in job'.marks : Named(k)' \subseteq rescued'
    <3> SUFFICES ASSUME NEW k \in job'.marks PROVE Named(k)' \subseteq rescued'
      OBVIOUS
    <3>1. CASE k \in job.marks
      BY <1>1, <2>4, <3>1 DEF DeleteInv, Deleting
    <3>2. CASE k \in job.del
      <4>1. Named(k) \subseteq Doomed
        BY <3>2 DEF Doomed
      <4> QED BY <1>1, <1>2, <2>4, <4>1
    <3> QED BY <2>1, <3>1, <3>2
  <2>6. DeleteInv'
    BY <1>1, <1>5, <2>1, <2>2, <2>3, <2>5 DEF DeleteInv, Deleting
  <2>7. ServedInv'
    BY <1>1, <2>1, <2>2, <2>3 DEF ServedInv, Served, Deleting, Pruning
  <2> QED BY <1>1, <1>3, <1>4, <2>1, <2>6, <2>7, DeletingFrame DEF Deleting, TypeInv
<1> QED BY <1>1, <1>6, <1>7

LEMMA FinishMarksStep ==
  ASSUME StoreInv, FinishMarks
  PROVE  StoreInv'
<1> USE DEF StoreInv
<1>1. /\ UNCHANGED <<server, uid, epoch, flagged, uidplus, now, rows, eml, grp, mine, purged>>
      /\ UNCHANGED <<fresh, rescued, broken, covered, adrift, built, made>> /\ job.pc = "mark"
      /\ job.marks = {}
  BY DEF FinishMarks, Calm, Still
<1>2. PICK p \in {"expired", "batch"} : job' = [job EXCEPT !.pc = p] /\ (job.stop => p = "expired")
                                        /\ (p = "expired" => job.stop)
  BY DEF FinishMarks
<1>3. /\ job'.pc = p /\ job'.todo = job.todo /\ job'.del = job.del /\ job'.marks = job.marks
      /\ job'.cur = job.cur /\ job'.keep = job.keep /\ job'.day = job.day /\ job'.stop = job.stop
      /\ IsJob(job')
  BY <1>2, MovedJob DEF Pcs, Deleting, Pruning
<1>4. Follows(View, View') /\ FolderInv' /\ server' \in [Mails -> {"away", "in", "gone"}]
  BY <1>1, StillFrame DEF FolderInv
<1>5. /\ job.del = {} /\ Handled' = Handled /\ (~broken => mine = {})
      /\ \A k : Due(k)' = Due(k)
      /\ \A k : Current(rows, k, View)' <=> Current(rows, k, View)
  BY <1>1, <1>3, ViewFields, ViewFieldsPrime DEF DeleteInv, Handled, Due, Current, Deleting
<1>6. DeleteInv'
  BY <1>1, <1>3, <1>5 DEF DeleteInv, Deleting
<1>7. ServedInv'
  BY <1>1, <1>2, <1>3, <1>5 DEF ServedInv, Served, Deleting, Pruning
<1> QED BY <1>1, <1>3, <1>4, <1>6, <1>7, DeletingFrame DEF Deleting, TypeInv

\* A row is marked, or its UPDATE fails and the deletion ends.
LEMMA MarkRowStep ==
  ASSUME StoreInv, NEW k \in Keys, MarkRow(k)
  PROVE  StoreInv'
<1> USE DEF StoreInv
<1>1. /\ UNCHANGED <<server, uid, epoch, flagged, uidplus, now, eml, grp, mine, purged>>
      /\ UNCHANGED <<fresh, rescued, broken, covered, adrift, built, made>> /\ job.pc = "mark"
      /\ k \in job.marks
      /\ \/ rows' = [rows EXCEPT ![k].gone = TRUE] /\ job' = [job EXCEPT !.marks = @ \ {k}]
         \/ rows' = rows /\ job' = [job EXCEPT !.marks = {}, !.todo = {}, !.stop = TRUE]
  BY DEF MarkRow, Calm, Still
<1>2. /\ job.del = {} /\ (~broken => mine = {})
      /\ \A l \in Handled : l \in Keys /\ Current(rows, l, View)
      /\ \A l \in job.todo : Due(l)
      /\ \A l \in job.marks : Named(l) \subseteq rescued
  BY <1>1 DEF DeleteInv, Deleting, Handled, TypeInv, IsJob
<1>3. /\ Follows(View, View') /\ FolderInv' /\ server' \in [Mails -> {"away", "in", "gone"}]
      /\ View' = View /\ \A l : Named(l)' = {m \in Mails : InFolder(m) /\ rows'[l].val = epoch /\ rows'[l].uid = uid[m] /\ uid[m] # 0}
  BY <1>1, StillFrame DEF FolderInv, View, Named, Names, InFolder
<1>4. CASE rows' = rows /\ job' = [job EXCEPT !.marks = {}, !.todo = {}, !.stop = TRUE]
  <2>1. /\ job'.pc = "mark" /\ job'.todo = {} /\ job'.del = {} /\ job'.marks = {}
        /\ job'.keep = job.keep /\ job'.day = job.day /\ job'.stop /\ IsJob(job')
    BY <1>1, <1>2, <1>4 DEF TypeInv, IsJob, Fields
  <2>2. DeleteInv'
    BY <1>1, <1>2, <2>1 DEF DeleteInv, Handled
  <2>3. ServedInv'
    BY <1>1, <2>1 DEF ServedInv, Deleting
  <2> QED BY <1>1, <1>3, <1>4, <2>1, <2>2, <2>3, DeletingFrame DEF Deleting, TypeInv
<1>5. CASE rows' = [rows EXCEPT ![k].gone = TRUE] /\ job' = [job EXCEPT !.marks = @ \ {k}]
  <2>1. /\ job'.pc = "mark" /\ job'.todo = job.todo /\ job'.del = {} /\ job'.marks = job.marks \ {k}
        /\ job'.keep = job.keep /\ job'.day = job.day /\ job'.stop = job.stop /\ IsJob(job')
    BY <1>1, <1>2, <1>5 DEF TypeInv, IsJob, Fields
  <2>2. /\ rows' \in [Keys -> Record] /\ \A l \in Keys : l # k => rows'[l] = rows[l]
        /\ rows'[k].val = rows[k].val /\ rows'[k].uid = rows[k].uid /\ rows'[k].cls = rows[k].cls
        /\ rows'[k].gone
    BY <1>5 DEF TypeInv, Record
  <2>3. rows[k] # NoRow /\ rows'[k] # NoRow /\ rows[k].val = epoch /\ Current(rows, k, View)
    BY <1>1, <1>2, <2>2, ViewFields DEF Handled, Current, NoRow
  <2>4. Named(k) \subseteq rescued
    BY <1>1, <1>2
  <2>5. TypeInv'
    BY <1>1, <2>1, <2>2 DEF TypeInv, Deleting
  <2>6. InHand = {} /\ InHand' = {}
    BY <1>1, <2>1, NothingInHand
  <2>7. TableOk(rows', View) /\ OnceIn(rows', View, {})
    <3>1. /\ TableOk(rows, View) /\ OnceIn(rows, View, {}) /\ rows \in [Keys -> Record]
          /\ \A m \in Mails : View.server[m] \in {"away", "in", "gone"}
      BY <2>6, ViewFields DEF TablesInv, TypeInv
    <3>2. \A m \in Mails : View.server[m] = "in" /\ View.uid[m] = rows[k].uid => m \in View.rescued
      BY <2>3, <2>4, ViewFields DEF Named, Names, InFolder, FolderInv
    <3> QED BY <2>2, <2>3, <3>1, <3>2, TableMarked
  <2>8. \A l \in Keys : Current(rows', l, View) <=> Current(rows, l, View)
    BY <2>2, <2>3 DEF Current
  <2>9. CoveredIn(rows', View)
    <3>1. \A l \in Keys : \A m \in Mails : Of(rows, l, m, View) => Of(rows', l, m, View)
      BY <2>2, <2>8 DEF Of
    <3> QED BY <1>1, <3>1, ViewFields DEF CoveredIn, TablesInv, FolderInv
  <2>10. RowHasFile'
    BY <1>1, <2>2, <2>3 DEF RowHasFile, Stored, TablesInv, Expired
  <2>11. TablesInv'
    BY <1>1, <1>3, <2>1, <2>6, <2>7, <2>9, <2>10 DEF TablesInv, Rebuilding
  <2>12. FetchInv' /\ DecisionInv'
    BY <1>1, <2>1 DEF FetchInv, DecisionInv, Fetching
  <2>13. /\ Handled' = job.todo \cup (job.marks \ {k}) /\ Handled = job.todo \cup job.marks
         /\ Handled \subseteq Keys
    BY <1>2, <2>1 DEF Handled
  <2>14. \A l \in Keys : (Due(l)' <=> Due(l)) /\ Named(l)' = Named(l)
    BY <1>3, <2>1, <2>2 DEF Due, Named, Names
  <2>15. DeleteInv'
    <3>1. \A l \in Handled' : Current(rows', l, View')
      BY <1>2, <1>3, <2>8, <2>13
    <3>2. \A l \in job'.todo \cup job'.del : Due(l)'
      BY <1>2, <2>1, <2>13, <2>14
    <3>3. \A l \in job'.marks : Named(l)' \subseteq rescued'
      BY <1>1, <1>2, <2>1, <2>13, <2>14
    <3> QED BY <1>1, <1>2, <2>1, <3>1, <3>2, <3>3 DEF DeleteInv
  <2>16. ServedInv'
    <3>1. ASSUME NEW l \in Keys, Served(l) PROVE Served(l)'
      BY <1>1, <1>3, <2>1, <2>2, <2>8, <2>13, <2>14, <3>1 DEF Served, Deleting
    <3> QED BY <1>1, <2>1, <3>1 DEF ServedInv, Deleting, Pruning
  <2> QED BY <1>3, <2>5, <2>11, <2>12, <2>15, <2>16
<1> QED BY <1>1, <1>4, <1>5

-----------------------------------------------------------------------------
(* The steps of the prune.                                                  *)

\* What a step of the prune has to show.
LEMMA PruningFrame ==
  ASSUME StoreInv, job.pc \in Pruning, job'.pc \in Pruning, IsJob(job'), job'.keep = job.keep,
         job'.day = job.day, job'.stop = job.stop,
         UNCHANGED <<server, uid, epoch, flagged, uidplus, now, built, mine, rescued, adrift, broken, grp, made>>,
         covered' \subseteq covered, eml' \subseteq eml,
         rows' \in [Keys -> Record], \A k \in Keys : rows'[k] # NoRow => rows'[k] = rows[k],
         CoveredIn(rows', View'), RowHasFile',
         job'.pc \in {"prune", "unrow"} => \A k \in job'.todo : Expired(k)',
         job'.pc = "unrow" => \A k \in job'.cur : Expired(k)' /\ \A m \in covered' : ~Of(rows', k, m, View')
  PROVE  StoreInv'
<1> USE DEF StoreInv
<1>1. TypeInv'
  BY DEF TypeInv, Pruning
<1>2. FolderInv'
  BY FolderFrame DEF FolderInv
<1>3. InHand = {} /\ InHand' = {}
  BY NothingInHand DEF Pruning
<1>4. Follows(View, View')
  BY ViewFields, ViewFieldsPrime DEF Follows, FolderInv
<1>5. TablesInv'
  <2>1. TableOk(rows, View') /\ OnceIn(rows, View', {})
    BY <1>3, <1>4, TableFollows, OnceFollows DEF TablesInv
  <2>2. Within(rows', rows)
    BY DEF Within
  <2>3. TableOk(rows', View') /\ OnceIn(rows', View', {})
    BY <2>1, <2>2, TableWithin
  <2> QED BY <1>3, <2>3 DEF TablesInv, Rebuilding, Pruning
<1>6. FetchInv' /\ DecisionInv'
  BY DEF FetchInv, DecisionInv, Fetching, Pruning
<1>7. ~broken' => mine' = {}
  BY NoFlagsOfOurs DEF Pruning
<1>8. DeleteInv'
  BY <1>7 DEF DeleteInv, Deleting, Pruning
<1>9. ServedInv'
  <2>1. ASSUME NEW k \in Keys, Served(k) PROVE Served(k)'
    <3>1. SUFFICES ASSUME Current(rows', k, View'), Due(k)', IdOf(k) # NoId PROVE rows'[k].gone
      BY DEF Served
    <3>2. rows'[k] = rows[k] /\ Current(rows, k, View) /\ Due(k)
      BY <3>1, ViewFields, ViewFieldsPrime DEF Current, Due
    <3> QED BY <2>1, <3>1, <3>2 DEF Served, Deleting, Pruning
  <2> QED BY <2>1 DEF ServedInv
<1> QED BY <1>1, <1>2, <1>5, <1>6, <1>8, <1>9

LEMMA ListExpiredStep ==
  ASSUME StoreInv, ListExpired
  PROVE  StoreInv'
<1> USE DEF StoreInv
<1>1. /\ UNCHANGED <<server, uid, epoch, flagged, uidplus, now, rows, eml, grp, mine, purged>>
      /\ UNCHANGED <<fresh, rescued, broken, covered, adrift, built, made>> /\ job.pc = "expired"
      /\ job' = [job EXCEPT !.pc = "prune", !.todo = {k \in Stored : Expired(k)}]
  BY DEF ListExpired, Apart, folder
<1>2. {k \in Stored : Expired(k)} \subseteq Keys
  BY DEF Stored
<1>3. /\ job'.pc = "prune" /\ job'.todo = {k \in Stored : Expired(k)} /\ job'.keep = job.keep
      /\ job'.day = job.day /\ job'.stop = job.stop /\ IsJob(job')
  BY <1>1, <1>2 DEF TypeInv, IsJob, Fields, Pcs, Pruning
<1>4. View' = View /\ \A k : Expired(k)' = Expired(k)
  BY <1>1 DEF View, Expired
<1>5. CoveredIn(rows', View') /\ RowHasFile' /\ rows' \in [Keys -> Record]
  BY <1>1, <1>4 DEF TablesInv, RowHasFile, Stored, TypeInv
<1>6. \A k \in job'.todo : Expired(k)'
  BY <1>3, <1>4
<1> QED BY <1>1, <1>3, <1>5, <1>6, PruningFrame DEF Pruning

\* The file of a mail is removed, or stays with its row.
LEMMA RemoveFileStep ==
  ASSUME StoreInv, NEW k \in Keys, RemoveFile(k)
  PROVE  StoreInv'
<1> USE DEF StoreInv
<1>1. /\ UNCHANGED <<server, uid, epoch, flagged, uidplus, now, rows, grp, mine, purged>>
      /\ UNCHANGED <<fresh, rescued, broken, adrift, built, made>> /\ job.pc = "prune"
      /\ k \in job.todo
      /\ \/ /\ job' = [job EXCEPT !.pc = "unrow", !.cur = {k}, !.todo = @ \ {k}]
            /\ eml' = eml \ {k} /\ covered' = {m \in covered : ~Names(k, m)}
         \/ /\ job' = [job EXCEPT !.todo = @ \ {k}]
            /\ eml' = eml /\ covered' = covered
  BY DEF RemoveFile, Apart, folder
<1>2. /\ \A l : Expired(l)' = Expired(l)
      /\ \A l \in job.todo : Expired(l)
      /\ rows' \in [Keys -> Record]
  BY <1>1 DEF Expired, ServedInv, TypeInv
<1>3. CASE /\ job' = [job EXCEPT !.todo = @ \ {k}]
           /\ eml' = eml /\ covered' = covered
  <2>1. /\ job'.pc = "prune" /\ job'.todo = job.todo \ {k} /\ job'.keep = job.keep
        /\ job'.day = job.day /\ job'.stop = job.stop /\ IsJob(job')
    BY <1>1, <1>3 DEF TypeInv, IsJob, Fields
  <2>2. CoveredIn(rows', View') /\ RowHasFile'
    <3>1. View' = View
      BY <1>1, <1>3 DEF View
    <3> QED BY <1>1, <1>2, <1>3, <3>1 DEF TablesInv, RowHasFile, Stored
  <2>3. \A l \in job'.todo : Expired(l)'
    BY <1>2, <2>1
  <2> QED BY <1>1, <1>2, <1>3, <2>1, <2>2, <2>3, PruningFrame DEF Pruning
<1>4. CASE /\ job' = [job EXCEPT !.pc = "unrow", !.cur = {k}, !.todo = @ \ {k}]
           /\ eml' = eml \ {k} /\ covered' = {m \in covered : ~Names(k, m)}
  <2>1. /\ job'.pc = "unrow" /\ job'.todo = job.todo \ {k} /\ job'.cur = {k} /\ job'.keep = job.keep
        /\ job'.day = job.day /\ job'.stop = job.stop /\ IsJob(job')
    BY <1>1, <1>4 DEF TypeInv, IsJob, Fields, Pcs, Pruning
  <2>2. \A m \in covered' : m \in covered /\ m \in Mails /\ uid[m] # 0 /\ ~Of(rows, k, m, View)
    BY <1>4, NamesIsOf DEF FolderInv, InFolder
  <2>3. \A l \in Keys, m \in Mails : Of(rows, l, m, View') <=> Of(rows, l, m, View)
    BY <1>1, ViewFields, ViewFieldsPrime DEF Of, Current
  <2>4. CoveredIn(rows', View')
    <3> SUFFICES ASSUME ~adrift, NEW m \in covered'
                 PROVE  \E l \in Keys : l \in eml' /\ Of(rows, l, m, View')
      BY <1>1, ViewFieldsPrime DEF CoveredIn
    <3>1. PICK l \in Keys : l \in eml /\ Of(rows, l, m, View)
      BY <1>1, <2>2, ViewFields DEF TablesInv, CoveredIn
    <3> QED BY <1>4, <2>2, <2>3, <3>1
  <2>5. RowHasFile'
    BY <1>1, <1>2, <1>4 DEF TablesInv, RowHasFile, Stored
  <2>6. /\ \A l \in job'.todo : Expired(l)'
        /\ \A l \in job'.cur : Expired(l)' /\ \A m \in covered' : ~Of(rows', l, m, View')
    BY <1>1, <1>2, <2>1, <2>2, <2>3
  <2>7. covered' \subseteq covered /\ eml' \subseteq eml
    BY <1>4
  <2> QED BY <1>1, <1>2, <2>1, <2>4, <2>5, <2>6, <2>7, PruningFrame DEF Pruning
<1> QED BY <1>1, <1>3, <1>4

LEMMA DeleteRowStep ==
  ASSUME StoreInv, DeleteRow
  PROVE  StoreInv'
<1> USE DEF StoreInv
<1>1. /\ UNCHANGED <<server, uid, epoch, flagged, uidplus, now, eml, grp, mine, purged>>
      /\ UNCHANGED <<fresh, rescued, broken, covered, adrift, built, made>> /\ job.pc = "unrow"
      /\ \/ /\ rows' = [k \in Keys |-> IF k \in job.cur THEN NoRow ELSE rows[k]]
            /\ job' = [job EXCEPT !.pc = "prune", !.cur = {}, !.marks = @ \cup (job.cur \intersect Members(rows))]
         \/ rows' = rows /\ job' = [job EXCEPT !.pc = "prune", !.cur = {}]
  BY DEF DeleteRow, Apart, folder
<1>2. /\ job'.pc = "prune" /\ job'.todo = job.todo /\ job'.keep = job.keep
      /\ job'.day = job.day /\ job'.stop = job.stop /\ IsJob(job')
  <2> DEFINE lost == job.cur \intersect Members(rows)
  <2>1. lost \subseteq Keys
    BY DEF Members
  <2>2. \/ job' = [job EXCEPT !.pc = "prune", !.cur = {}, !.marks = @ \cup lost]
        \/ job' = [job EXCEPT !.pc = "prune", !.cur = {}]
    BY <1>1
  <2> HIDE DEF lost
  <2>3. IsJob(job) /\ job.marks \cup lost \subseteq Keys
    BY <2>1 DEF TypeInv, IsJob
  <2>4. CASE job' = [job EXCEPT !.pc = "prune", !.cur = {}, !.marks = @ \cup lost]
    BY <2>3, <2>4 DEF IsJob, Fields, Pcs, Pruning
  <2>5. CASE job' = [job EXCEPT !.pc = "prune", !.cur = {}]
    BY <2>3, <2>5 DEF IsJob, Fields, Pcs, Pruning
  <2> QED BY <2>2, <2>4, <2>5
<1>3. View' = View /\ \A l : Expired(l)' = Expired(l)
  BY <1>1 DEF View, Expired
<1>4. rows' \in [Keys -> Record] /\ \A k \in Keys : rows'[k] = rows[k] \/ (rows'[k] = NoRow /\ k \in job.cur)
  BY <1>1, TypesOfConstants DEF TypeInv
<1>5. CoveredIn(rows', View')
  <2> SUFFICES ASSUME ~adrift, NEW m \in covered
               PROVE  \E l \in Keys : l \in eml /\ Of(rows', l, m, View)
    BY <1>3, ViewFields DEF CoveredIn
  <2>1. PICK l \in Keys : l \in eml /\ Of(rows, l, m, View)
    BY <1>1, ViewFields DEF TablesInv, CoveredIn
  <2>2. l \notin job.cur
    BY <1>1, <2>1 DEF ServedInv
  <2> QED BY <1>4, <2>1, <2>2 DEF Of, Current
<1>6. RowHasFile'
  BY <1>1, <1>3, <1>4 DEF TablesInv, RowHasFile, Stored
<1>7. \A k \in job'.todo : Expired(k)'
  BY <1>1, <1>2, <1>3 DEF ServedInv
<1> QED BY <1>1, <1>2, <1>4, <1>5, <1>6, <1>7, PruningFrame DEF Pruning

\* A group without members goes, and with it the decision.
LEMMA FinishPruneStep ==
  ASSUME StoreInv, FinishPrune
  PROVE  StoreInv'
<1> USE DEF StoreInv
<1>1. /\ UNCHANGED <<server, uid, epoch, flagged, uidplus, now, rows, eml, mine, purged>>
      /\ UNCHANGED <<fresh, rescued, broken, covered, adrift, built>> /\ job.pc = "prune" /\ job' = Idle
      /\ \/ grp' = "none" /\ made' = FALSE
         \/ grp' = grp /\ made' = made
  BY DEF FinishPrune, Apart, folder
<1>2. job'.pc = "idle" /\ InHand' = {} /\ InHand = {}
  BY <1>1, IdleJob, NothingInHand
<1>3. TypeInv'
  BY <1>1, <1>2, IdleJob DEF TypeInv, Groups
<1>4. FolderInv'
  BY <1>1, FolderFrame DEF FolderInv
<1>5. TablesInv'
  BY <1>1, <1>2, TablesFrame DEF Rebuilding
<1>6. FetchInv' /\ DeleteInv' /\ ServedInv'
  BY <1>1, <1>2, NotInTheMiddle, NoFlagsOfOurs DEF Deleting, Pruning, Fetching
<1>7. DecisionInv'
  BY <1>1, <1>2 DEF DecisionInv
<1> QED BY <1>3, <1>4, <1>5, <1>6, <1>7

LEMMA StutterStep ==
  ASSUME StoreInv, UNCHANGED vars
  PROVE  StoreInv'
<1> USE DEF StoreInv
<1>1. /\ UNCHANGED <<server, uid, epoch, flagged, uidplus, now, rows, eml, job, built, mine, purged>>
      /\ UNCHANGED <<fresh, rescued, covered, adrift, broken, grp, made>>
  BY DEF vars
<1>2. TypeInv' /\ FolderInv' /\ DecisionInv'
  BY <1>1 DEF TypeInv, FolderInv, InFolder, DecisionInv
<1>3. View' = View /\ InHand' = InHand /\ RowHasFile'
  BY <1>1 DEF View, InHand, TablesInv, RowHasFile, Stored, Expired
<1>4. TablesInv'
  BY <1>1, <1>3 DEF TablesInv
<1>5. FetchInv'
  <2>1. \A m : Stale(m)' = Stale(m)
    BY <1>1 DEF Stale, Stored
  <2> QED BY <1>1, <1>3, <2>1 DEF FetchInv, InFolder
<1>6. Doomed' = Doomed /\ Handled' = Handled /\ \A k : Due(k)' = Due(k) /\ Named(k)' = Named(k)
  BY <1>1 DEF Doomed, Handled, Due, Named, Names, InFolder
<1>7. DeleteInv' /\ ServedInv'
  BY <1>1, <1>3, <1>6 DEF DeleteInv, ServedInv, Served, Expired
<1> QED BY <1>2, <1>4, <1>5, <1>7

LEMMA StoreSteps == StoreInv /\ [Next]_vars => StoreInv'
<1> SUFFICES ASSUME StoreInv, [Next]_vars PROVE StoreInv'
  OBVIOUS
<1>1. CASE \E m \in Mails : Arrive(m) \/ OtherFlags(m) \/ OtherUnflags(m) \/ FetchMail(m)
  BY <1>1, ArriveStep, OtherFlagsStep, OtherUnflagsStep, FetchMailStep
<1>2. CASE Tick \/ OtherExpunges \/ Recreate
  BY <1>2, TickStep, OtherExpungesStep, RecreateStep
<1>3. CASE \E allTime \in BOOLEAN : StartFetch(allTime)
  BY <1>3, StartFetchStep
<1>4. CASE InsertMail \/ FinishFetch
  BY <1>4, InsertMailStep, FinishFetchStep
<1>5. CASE \E k \in Keys : Classify(k) \/ MarkRow(k) \/ RemoveFile(k)
  BY <1>5, ClassifyStep, MarkRowStep, RemoveFileStep
<1>6. CASE \E keep \in ServerKeeps : StartCleanup(keep)
  BY <1>6, StartCleanupStep
<1>7. CASE CheckBatch \/ FinishBatches \/ Search \/ StoreFlags \/ Verify \/ ClearFlags \/ Expunge
  BY <1>7, CheckBatchStep, FinishBatchesStep, SearchStep, StoreFlagsStep, VerifyStep, ClearFlagsStep,
     ExpungeStep
<1>8. CASE ConnectionLost \/ FinishMarks
  BY <1>8, ConnectionLostStep, FinishMarksStep
<1>9. CASE ListExpired \/ DeleteRow \/ FinishPrune
  BY <1>9, ListExpiredStep, DeleteRowStep, FinishPruneStep
<1>10. CASE \E readable \in BOOLEAN : StartRebuild(readable)
  BY <1>10, StartRebuildStep
<1>11. CASE Build \/ RemoveOld \/ RenameNew \/ RebuildFails
  BY <1>11, BuildStep, RemoveOldStep, RenameNewStep, RebuildFailsStep
<1>12. CASE Decide \/ Crash
  BY <1>12, DecideStep, CrashStep
<1>13. CASE UNCHANGED vars
  BY <1>13, StutterStep
<1> QED BY <1>1, <1>2, <1>3, <1>4, <1>5, <1>6, <1>7, <1>8, <1>9, <1>10, <1>11, <1>12, <1>13 DEF Next

-----------------------------------------------------------------------------
(* What holds of the mails of a mailbox.                                    *)

\* What the other results rest on: the invariant of the folder, the index, the
\* job at hand and the decision holds for any mails, copies, retentions, batch
\* sizes, UIDVALIDITY changes and number of failures.
THEOREM StoreHolds == Spec => []StoreInv
<1>1. Init => StoreInv
  BY StoreStarts
<1>2. StoreInv /\ [Next]_vars => StoreInv'
  BY StoreSteps
<1> QED BY <1>1, <1>2, PTL DEF Spec

\* A decision of a user stays as long as its group, over rebuilds, prunes and
\* crashes (carryover.apply, swapIndexFiles, recountGroups).
THEOREM DecisionsStay == Spec => []DecisionKept
<1>1. StoreInv => DecisionKept
  BY DEF StoreInv, DecisionInv, DecisionKept
<1> QED BY <1>1, StoreHolds, PTL

LEMMA MarksAreTrue == StoreInv => MarkedIsGone
<1> SUFFICES ASSUME StoreInv, NEW k \in Stored, rows[k].gone, NEW m \in Named(k) PROVE m \in rescued
  BY DEF MarkedIsGone
<1>1. k \in Keys /\ RowOk(rows, k, View)
  BY DEF StoreInv, TablesInv, TableOk, Stored
<1>2. m \in Mails /\ server[m] = "in" /\ rows[k].val = epoch /\ rows[k].uid = uid[m]
  BY DEF Named, Names, InFolder
<1> QED BY <1>1, <1>2, ViewFields DEF RowOk

LEMMA CoveredHaveRows == StoreInv => CoveredIsIndexed
<1> SUFFICES ASSUME StoreInv, job.pc # "rename", ~adrift, NEW m \in covered
             PROVE  LET K == {k \in Stored : Names(k, m)}
                    IN Cardinality(K) = 1 /\ \A k \in K : k[1] = m \/ (MsgId[m] # NoId /\ IdOf(k) = MsgId[m])
  BY DEF CoveredIsIndexed
<1> DEFINE K == {k \in Stored : Names(k, m)}
<1>1. m \in Mails /\ uid[m] # 0
  BY DEF StoreInv, FolderInv, InFolder
<1>2. PICK l \in Keys : Of(rows, l, m, View)
  BY ViewFields DEF StoreInv, TablesInv, CoveredIn
<1>3. \A k \in K : k \in Keys /\ Of(rows, k, m, View)
  BY <1>1, NamesIsOf DEF Stored
<1>4. K = {l}
  <2>1. l \in K
    BY <1>1, <1>2, NamesIsOf
  <2>2. \A k \in K : k = l
    BY <1>2, <1>3 DEF StoreInv, TablesInv, TableOk, Of
  <2> QED BY <2>1, <2>2
<1>5. Copy(l, m)
  <2>1. PICK n \in Mails : uid[n] # 0 /\ uid[n] = rows[l].uid /\ Copy(l, n)
    BY <1>2, ViewFields DEF StoreInv, TablesInv, TableOk, RowOk, Of, Current
  <2>2. rows[l].uid = uid[m]
    BY <1>2, ViewFields DEF Of
  <2> QED BY <1>1, <2>1, <2>2 DEF StoreInv, FolderInv
<1>6. Cardinality(K) = 1
  BY <1>4, FS_Singleton
<1> QED BY <1>4, <1>5, <1>6 DEF Copy

LEMMA MailsAreStoredOnce == StoreInv => StoredOnce
<1> SUFFICES ASSUME StoreInv, ~adrift, rescued = {}, NEW m \in Mails, MsgId[m] # NoId
             PROVE  Cardinality({k \in Stored : IdOf(k) = MsgId[m]})
                      <= Cardinality({n \in Mails : server[n] # "away" /\ MsgId[n] = MsgId[m]})
  BY DEF StoredOnce
<1> DEFINE S == {k \in Stored : IdOf(k) = MsgId[m]}
           T == {n \in Mails : server[n] # "away" /\ MsgId[n] = MsgId[m]}
<1>1. PICK f \in [Ided(rows) -> Mails] : Stands(rows, f, View, InHand)
  BY ViewFields DEF StoreInv, TablesInv, OnceIn
<1>2. S \subseteq Ided(rows)
  BY DEF Stored, Ided
<1> DEFINE g == [k \in S |-> f[k]]
<1>3. \A k \in S : g[k] = f[k] /\ IdOf(k) = MsgId[m]
  OBVIOUS
<1>4. g \in Injection(S, T)
  <2>1. \A k \in S : g[k] \in T
    BY <1>1, <1>2, ViewFields DEF Stands
  <2>2. \A k, l \in S : g[k] = g[l] => k = l
    BY <1>1, <1>2 DEF Stands
  <2>3. g \in [S -> T]
    BY <2>1
  <2> QED BY <2>2, <2>3 DEF Injection, IsInjective
<1>5. IsFiniteSet(T)
  BY StoreBoundsAssumption, FS_Subset
<1> QED BY <1>4, <1>5, FS_Injection

\* The index describes the mails: a row marked as deleted on the server tells
\* the truth, a row has its file, what a finished fetch found has one row, and
\* no mail is stored twice (MarkServerDeleted, DeleteMessage,
\* ReidentifyMessage, InsertMessage).
THEOREM IndexStaysTrue == Spec => []IndexIsTrue
<1>1. StoreInv => IndexIsTrue
  BY MarksAreTrue, CoveredHaveRows, MailsAreStoredOnce DEF IndexIsTrue, StoreInv, TablesInv
<1> QED BY <1>1, StoreHolds, PTL

\* The rows that the deletion is at are those of the mails it deletes.
LEMMA DoomedAreDue ==
  ASSUME StoreInv, job.pc = "expunge", NEW m \in Doomed
  PROVE  m \in Certain /\ \E k \in Stored : /\ Names(k, m) /\ rows[k].cls /\ IdOf(k) = MsgId[m]
                                            /\ k \in eml \/ Expired(k)
                                            /\ job.day > Date[k[1]] + job.keep
<1>1. PICK k \in job.del : m \in Named(k)
  BY DEF Doomed
<1>2. k \in Keys /\ Current(rows, k, View) /\ Due(k)
  BY DEF StoreInv, TypeInv, IsJob, DeleteInv, Deleting, Handled
<1>3. k \in Stored /\ Names(k, m) /\ m \in Mails /\ uid[m] # 0 /\ rows[k].uid = uid[m]
  BY <1>1, <1>2 DEF Current, Stored, Named, Names
<1>4. PICK n \in Mails : uid[n] # 0 /\ uid[n] = rows[k].uid /\ Copy(k, n)
  BY <1>2, ViewFields DEF StoreInv, TablesInv, TableOk, RowOk, Current
<1>5. Copy(k, m)
  BY <1>3, <1>4 DEF StoreInv, FolderInv
<1>6. IdOf(k) = MsgId[m] /\ m \in Certain
  BY <1>2, <1>3, <1>5, CopiesAssumption, TypesOfConstants DEF Copy, IdOf, Due
<1>7. k \in eml \/ Expired(k)
  BY <1>3 DEF StoreInv, TablesInv, RowHasFile
<1> QED BY <1>2, <1>3, <1>6, <1>7 DEF Due

\* Only an EXPUNGE of ours purges.
LEMMA OnlyExpungePurges == Next => Expunge \/ purged' = purged
<1> SUFFICES ASSUME Next PROVE Expunge \/ purged' = purged
  OBVIOUS
<1>1. ASSUME NEW m \in Mails, Arrive(m) \/ OtherFlags(m) \/ OtherUnflags(m) \/ FetchMail(m)
      PROVE  purged' = purged
  BY <1>1 DEF Arrive, OtherFlags, OtherUnflags, FetchMail, Outside, Quiet
<1>2. Tick \/ OtherExpunges \/ Recreate => purged' = purged
  BY DEF Tick, OtherExpunges, Recreate, Outside
<1>3. ASSUME NEW allTime \in BOOLEAN, StartFetch(allTime) PROVE purged' = purged
  BY <1>3 DEF StartFetch, Quiet
<1>4. InsertMail \/ FinishFetch => purged' = purged
  BY DEF InsertMail, FinishFetch, Quiet
<1>5. ASSUME NEW k \in Keys, Classify(k) \/ MarkRow(k) \/ RemoveFile(k) PROVE purged' = purged
  BY <1>5 DEF Classify, MarkRow, RemoveFile, Quiet, Calm, Apart
<1>6. ASSUME NEW keep \in ServerKeeps, StartCleanup(keep) PROVE purged' = purged
  BY <1>6 DEF StartCleanup, Calm
<1>7. CheckBatch \/ FinishBatches \/ Search \/ StoreFlags \/ Verify \/ ClearFlags => purged' = purged
  BY DEF CheckBatch, FinishBatches, Search, StoreFlags, Verify, ClearFlags, Calm
<1>8. ConnectionLost \/ FinishMarks => purged' = purged
  BY DEF ConnectionLost, FinishMarks, Calm
<1>9. ListExpired \/ DeleteRow \/ FinishPrune => purged' = purged
  BY DEF ListExpired, DeleteRow, FinishPrune, Apart
<1>10. ASSUME NEW readable \in BOOLEAN, StartRebuild(readable) PROVE purged' = purged
  BY <1>10 DEF StartRebuild, Local
<1>11. Build \/ RemoveOld \/ RenameNew \/ RebuildFails => purged' = purged
  BY DEF Build, RemoveOld, RenameNew, RebuildFails, Local
<1>12. Decide \/ Crash => purged' = purged
  BY DEF Decide, Crash
<1> QED BY <1>1, <1>2, <1>3, <1>4, <1>5, <1>6, <1>7, <1>8, <1>9, <1>10, <1>11, <1>12 DEF Next

\* Both retentions delete no mail but what is due, the server before the index,
\* and leave no flag behind (DeleteFromServer, runCleanup, PruneMailbox).
THEOREM DeletionsAreDue == Spec => DeletesOnlyDue
<1>1. ASSUME StoreInv, Next PROVE PurgesOnlyDue
  <2> SUFFICES ASSUME NEW m \in purged' \ purged
               PROVE  \/ m \in fresh /\ ~uidplus
                      \/ m \in Certain /\ \E k \in Stored : /\ Names(k, m) /\ rows[k].cls /\ IdOf(k) = MsgId[m]
                                                            /\ k \in eml \/ Expired(k)
                                                            /\ job.day > Date[k[1]] + job.keep
    BY DEF PurgesOnlyDue
  <2>1. Expunge
    BY <1>1, OnlyExpungePurges
  <2>2. job.pc = "expunge" /\ m \in IF uidplus THEN flagged \intersect Doomed ELSE flagged
    BY <2>1 DEF Expunge
  <2>3. m \in Doomed \/ (m \in fresh /\ ~uidplus)
    BY <1>1, <2>2 DEF StoreInv, DeleteInv
  <2> QED BY <1>1, <2>2, <2>3, DoomedAreDue
<1>2. ASSUME StoreInv PROVE PrunedAfterServer
  <2> SUFFICES ASSUME NEW k \in Stored, job.pc = "unrow", job.keep > 0, ~job.stop,
                      job.day > Date[k[1]] + MailKeep, rows[k].cls, rows[k].val = epoch,
                      k[1] \in Certain, IdOf(k) # NoId
               PROVE  rows[k].gone
    BY DEF PrunedAfterServer
  <2>1. k \in Keys /\ Current(rows, k, View)
    BY ViewFields DEF Stored, Current
  <2>2. Served(k) /\ job.keep <= MailKeep /\ job.keep \in Nat /\ job.day \in Nat
    BY <1>2, <2>1 DEF StoreInv, ServedInv, Pruning, TypeInv, IsJob
  <2>3. Due(k)
    BY <2>1, <2>2, TypesOfConstants DEF Due
  <2> QED BY <2>1, <2>2, <2>3 DEF Served, Deleting
<1>3. StoreInv' => FlagsCleared'
  BY DEF StoreInv, DeleteInv, FlagsCleared
<1>4. StoreInv /\ StoreInv' /\ [Next]_vars => [PurgesOnlyDue /\ PrunedAfterServer /\ FlagsCleared']_vars
  BY <1>1, <1>2, <1>3
<1> QED BY <1>4, StoreHolds, PTL DEF Spec, DeletesOnlyDue
=============================================================================
