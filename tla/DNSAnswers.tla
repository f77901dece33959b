----------------------------- MODULE DNSAnswers -----------------------------
(* What the DNS check makes of the replies it gets (dnscheck): one reply to   *)
(* an answer, the answers about the hosts of a name to one answer of the      *)
(* resolver, and the answers of all resolvers and authoritative servers to    *)
(* the outcome (vote).  Names, addresses and the wire format are left out;    *)
(* which servers answer, and how, is a parameter.                             *)
EXTENDS Naturals, Sequences

\* answer: "none" is no usable reply; "nx" NXDOMAIN; "fail" an error reply.
Answers == {"none", "data", "nx", "nodata", "fail"}
Answering == {"data", "nx", "nodata"}

\* reply: what the parser keeps of a datagram or TCP frame that matches the
\* query.  aa: authoritative for the name; cname: an alias instead of data.
ReplyKinds == {"error", "nx", "data", "cname", "empty"}
Losses == {"timeout", "unreachable", "truncated"}

\* lookupType: an authoritative server that is not authoritative for the name
\* shows nothing, and there an alias means that the name exists.
LookupType(auth, r) ==
  IF r.kind = "error" THEN "fail" ELSE IF auth /\ ~r.aa THEN "none"
  ELSE CASE r.kind \in {"nx", "data"}    -> r.kind
         [] auth /\ r.kind = "cname"     -> "data"
         [] OTHER                        -> "nodata"

\* exchangeUDP: a query without a reply in time is sent once more; any other
\* error ends the exchange.  u and v: what becomes of the two datagrams.
ExchangeUDP(u, v) == IF u.kind = "timeout" THEN v ELSE u

\* exchange and lookupType: a truncated reply is asked for over TCP again.
Exchange(auth, u, v, tcp) ==
  LET got == IF ExchangeUDP(u, v).kind = "truncated" THEN tcp ELSE ExchangeUDP(u, v)
  IN IF got.kind \in ReplyKinds THEN LookupType(auth, got) ELSE "none"

\* What asking a server may give whose reply is one of R, over a network that
\* loses or truncates datagrams and breaks connections.
Lost == {[kind |-> k, aa |-> FALSE] : k \in Losses}
Asked(auth, R) == {Exchange(auth, u, v, t) : u \in R \cup Lost, v \in R \cup Lost, t \in R \cup Lost}

\* The first of the given answers that is among S, if any.
Foremost(order, S, otherwise) ==
  IF \A i \in DOMAIN order : order[i] \notin S THEN otherwise
  ELSE order[CHOOSE i \in DOMAIN order : order[i] \in S /\ \A j \in 1..(i-1) : order[j] \notin S]

\* targetsAnswer: the answers of the MX targets of a domain.  A target that
\* does not exist is one without an address.
M_TargetsAnswer(S) == Foremost(<<"data", "fail">>, S, "nodata")
TargetsAnswer(S) == Foremost(<<"data", "none", "fail">>, S, "nodata")

\* addressesAnswer: the A and the AAAA answer of one host.
AddressesAnswer(S) == IF S = {"nx"} THEN "nx" ELSE Foremost(<<"data", "none", "fail">>, S, "nodata")

\* combine: the same for addresses that are only collected.
Combine(S) == Foremost(<<"data", "fail", "none", "nx">>, S, "nodata")

\* resolveName: a host by its addresses, a mail domain by those of its MX
\* targets, without MX records by its own.  said[h]: the answer about the
\* addresses of h.
ResolveName(host, mx, targets, said) ==
  CASE host \/ mx = "nodata"           -> said["name"]
    [] ~host /\ mx \in {"nx", "none", "fail"} -> mx
    [] ~host /\ mx = "data"            ->
         IF targets = {} THEN "nodata"    \* a null MX
         ELSE TargetsAnswer({said[h] : h \in targets})

\* systemError, lookupSystemIP: the OS resolver tells NXDOMAIN and no data
\* alike.
SystemAnswer(a) == IF a = "nodata" THEN "nx" ELSE a

\* systemResolveName: without MX records, or without the name, its addresses.
SystemResolveName(host, mx, targets, said) ==
  ResolveName(host, IF mx = "nx" THEN "nodata" ELSE mx, targets, [h \in DOMAIN said |-> SystemAnswer(said[h])])

Outcomes == {"exists", "not_found", "broken"}

\* vote: R and A are the answers of the reachable resolvers and of the
\* authoritative servers; "" is not verified.
Vote(R, A) ==
  LET said == R \intersect Answering
  IN CASE said = {} /\ "fail" \notin R -> ""
       [] said = {} /\ "fail" \in R -> "broken"
       [] said = {"nx"} /\ A \intersect {"data", "nodata"} = {} -> "not_found"
       [] said = {"data"} /\ "nx" \notin A -> "exists"
       [] OTHER -> "broken"
=============================================================================
