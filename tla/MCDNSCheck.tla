----------------------------- MODULE MCDNSCheck -----------------------------
(* An instance of DNSCheck for TLC: two runs, a notice that shows mail of our *)
(* own and one that reports an MX target, an honest resolver and one that may *)
(* say anything, a server that serves the name and one that does not.         *)
EXTENDS DNSCheck, TLC

CONSTANTS p1, p2, n1, n2, r1, r2, s1, s2

MCRel    == n1 :> "same" @@ n2 :> "target"
MCDirect == n1 :> TRUE @@ n2 :> FALSE

Host(a, aaaa) == <<a, aaaa>>
Gone     == [mx |-> "nx",     targets |-> {},        addr |-> "name" :> Host("nx", "nx")]
Mail     == [mx |-> "data",   targets |-> {"a", "b"},
             addr |-> "name" :> Host("nodata", "nodata") @@ "a" :> Host("data", "nodata") @@ "b" :> Host("nx", "nx")]
Dead     == [mx |-> "data",   targets |-> {"a", "b"},
             addr |-> "name" :> Host("data", "nodata") @@ "a" :> Host("nodata", "nodata") @@ "b" :> Host("nx", "nx")]
Null     == [mx |-> "data",   targets |-> {},        addr |-> "name" :> Host("data", "data")]
Implicit == [mx |-> "nodata", targets |-> {},        addr |-> "name" :> Host("nodata", "data")]
Bare     == [mx |-> "nodata", targets |-> {},        addr |-> "name" :> Host("nodata", "nodata")]
MCZones  == {Gone, Mail, Dead, Null, Implicit, Bare}
MCPerms  == Permutations({p1, p2})
=============================================================================
