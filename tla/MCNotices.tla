----------------------------- MODULE MCNotices -----------------------------
(* An instance for TLC of the three things that decide how a notice is filed: *)
(* the verification of names (DNSCheck), the stored lookups of the sending    *)
(* sources (SourceCache) and the grouping itself (NoticeFiling).  Each gets   *)
(* from the others whatever they may give, so they are checked side by side:  *)
(* part is the one that runs.                                                 *)
EXTENDS MCDNSCheck, SourceCache, NoticeFiling

VARIABLE part

M == INSTANCE MCMails
MCKindsOf == [n \in {"host", "domain"} |-> IF n = "host" THEN {"global_host", "smtp_host"} ELSE {"spf"}]
MCBoxes    == M!MCBoxes
MCSettings == M!MCSettings
MCAddrsOf  == M!MCAddrsOf
MCFamilies == {{"a1", "a2", "b1"}, {"c6"}}

\* The kinds of source fit together as those of the program do.
ASSUME SourcesOK == SourcesAssumption

\* The mails of MCMails are mails the rules can tell apart.
ASSUME MailsOK ==
  \A pm \in UNION {{b[i] : i \in DOMAIN b} : b \in MCBoxes} :
    /\ pm.subject \subseteq Subjects /\ Wording(pm) \subseteq Wordings
    /\ IsBounce(pm.body) /\ \A k \in DOMAIN Blocks(pm) : IsBounce(Blocks(pm)[k])

\* A part that does not run rests in one of its initial states.
Rests(p, state) == part = p \/ state
MCInit ==
  /\ part \in {"dns", "sources", "filing"}
  /\ Init /\ SourcesInit /\ FilingInit
  /\ Rests("sources", lookups["spf"].list = "")
  /\ Rests("filing", box = <<M!Mail>> /\ sources = NoSources)

MCNext ==
  \/ part = "dns" /\ Next /\ UNCHANGED <<part, sourcesVars, filingVars>>
  \/ part = "sources" /\ SourcesNext /\ UNCHANGED <<part, vars, filingVars>>
  \/ part = "filing" /\ FilingNext /\ UNCHANGED <<part, vars, sourcesVars>>

MCSpec == MCInit /\ [][MCNext]_<<part, vars, sourcesVars, filingVars>>
=============================================================================
