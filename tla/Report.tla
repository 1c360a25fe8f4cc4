------------------------------- MODULE Report -------------------------------
(* The overnight report (s17code/events/report.py): decisions stored with    *)
(* their events, and the ledger of refusals, which holds some of them again. *)
(* A decision is [sub, refused, relevant, cost], with refused the control    *)
(* that refused it or "none"; a refusal is [event, control, sub, at].  The   *)
(* report's lists are the places of what they show: <<i, j>> is decision j   *)
(* of record i, n the n-th entry of the ledger.                              *)
EXTENDS Integers, Sequences, FiniteSets, FiniteSetsExt

(* Mutant of New: the ledger's entry is told by its event alone.             *)
NewByEvent(seen, item) == \A key \in seen : key[1] # item.event

(* What a refusal is told by.                                                *)
Key(item) == <<item.event, item.control, item.sub>>

(* An entry of the ledger that the report does not have yet.                 *)
New(seen, item) == Key(item) \notin seen

Considered(records, since) == {i \in DOMAIN records : records[i].at >= since}

Decisions(records, since) ==
  UNION {{i} \X DOMAIN records[i].decisions : i \in Considered(records, since)}

Decision(records, place) == records[place[1]].decisions[place[2]]

(* The refusals found with the events, then those of the ledger alone.       *)
Blocked(records, since) ==
  {p \in Decisions(records, since) : Decision(records, p).refused # "none"}

BlockedKey(records, p) ==
  <<records[p[1]].event, Decision(records, p).refused, Decision(records, p).sub>>

LedgerOnly(seen, ledger, since) ==
  LET added[n \in 0..Len(ledger)] ==
        IF n = 0 THEN {}
        ELSE IF /\ ledger[n].at >= since
                /\ New(seen \cup {Key(ledger[k]) : k \in added[n - 1]}, ledger[n])
               THEN added[n - 1] \cup {n}
               ELSE added[n - 1]
  IN added[Len(ledger)]

MorningReport(records, ledger, since) ==
  LET decisions == Decisions(records, since)
      blocked   == Blocked(records, since)
      heard     == decisions \ blocked
      seen      == {BlockedKey(records, p) : p \in blocked}
  IN [eventsSeen     |-> Cardinality(Considered(records, since)),
      acted          |-> {p \in heard : Decision(records, p).relevant},
      ignored        |-> {p \in heard : ~Decision(records, p).relevant},
      blocked        |-> blocked,
      ledgerOnly     |-> LedgerOnly(seen, ledger, since),
      costOfWatching |-> MapThenSumSet(LAMBDA p : Decision(records, p).cost, decisions)]
-----------------------------------------------------------------------------
(* What a night's report says was refused is what the events and the ledger  *)
(* say together, each refusal once although it is written twice, those whose *)
(* event was compacted away included.                                        *)
ReportStands(records, ledger, since) ==
  LET report == MorningReport(records, ledger, since)
      recent == {n \in DOMAIN ledger : ledger[n].at >= since}
  IN /\ \A p, q \in report.blocked : BlockedKey(records, p) = BlockedKey(records, q) => p = q
     /\ \A n, m \in report.ledgerOnly : Key(ledger[n]) = Key(ledger[m]) => n = m
     /\ \A p \in report.blocked, n \in report.ledgerOnly : BlockedKey(records, p) # Key(ledger[n])
     /\ report.ledgerOnly \subseteq recent
     /\ \A n \in recent : \/ \E m \in report.ledgerOnly : Key(ledger[m]) = Key(ledger[n])
                          \/ \E p \in report.blocked : BlockedKey(records, p) = Key(ledger[n])
=============================================================================
