----------------------------- MODULE TrustAnchor -----------------------------
(***************************************************************************)
(* The digital-ID part of the TrustAnchor contract.  A transaction runs    *)
(* alone; one whose require fails reverts, which here is an action that is *)
(* not enabled.  The caller is the gateway's key, an authorized issuer.    *)
(***************************************************************************)
EXTENDS Naturals, Sequences

CONSTANTS Hashes,       \* idHash values
          Payloads,     \* snapshots' payload hashes
          Expiries      \* validity ends, numbered in time order

ASSUME ExpiriesAssumption == Expiries \subseteq Nat \ {0}

VARIABLES ids,          \* [Hashes -> the DigitalId record]
          snapshots     \* [Hashes -> the DataSnapshot array]

ledger == <<ids, snapshots>>

\* A record that was never written: its issuer is the zero address.
Absent == [status |-> "ABSENT", exp |-> 0]

LedgerInit == /\ ids = [h \in Hashes |-> Absent]
              /\ snapshots = [h \in Hashes |-> <<>>]

LedgerTypeOK == /\ ids \in [Hashes -> [status : {"ABSENT", "ACTIVE", "REVOKED"}, exp : Nat]]
                /\ snapshots \in [Hashes -> Seq(Payloads)]

\* Mutant of IssueId: an id that exists is written again.
ReissueId(h, e) == /\ ids' = [ids EXCEPT ![h] = [status |-> "ACTIVE", exp |-> e]]
                   /\ UNCHANGED snapshots

IssueId(h, e) == /\ ids[h].status = "ABSENT"
                 /\ ids' = [ids EXCEPT ![h] = [status |-> "ACTIVE", exp |-> e]]
                 /\ UNCHANGED snapshots

ExtendId(h, e) == /\ ids[h].status = "ACTIVE"
                  /\ e > ids[h].exp
                  /\ ids' = [ids EXCEPT ![h].exp = e]
                  /\ UNCHANGED snapshots

RevokeId(h) == /\ ids[h].status = "ACTIVE"
               /\ ids' = [ids EXCEPT ![h].status = "REVOKED"]
               /\ UNCHANGED snapshots

\* Mutant of AppendDataSnapshot: the sequence number is not checked.
AppendAnyNumber(h, p, seq) == /\ ids[h].status # "ABSENT"
                              /\ snapshots' = [snapshots EXCEPT ![h] = Append(@, p)]
                              /\ UNCHANGED ids

AppendDataSnapshot(h, p, seq) == /\ ids[h].status # "ABSENT"
                                 /\ seq = Len(snapshots[h]) + 1
                                 /\ snapshots' = [snapshots EXCEPT ![h] = Append(@, p)]
                                 /\ UNCHANGED ids

\* "Issuance is one-shot per idHash ... so history is preserved": an id never
\* disappears, a revoked one never comes back, validity never shrinks, and
\* snapshots are only ever appended, whatever the callers retry or reorder.
HistoryGrows ==
    \A h \in Hashes :
        /\ ids[h].status # "ABSENT" => ids'[h].status # "ABSENT"
        /\ ids[h].status = "REVOKED" => ids'[h].status = "REVOKED"
        /\ ids'[h].exp >= ids[h].exp
        /\ Len(snapshots'[h]) >= Len(snapshots[h])
        /\ \A k \in 1..Len(snapshots[h]) : snapshots'[h][k] = snapshots[h][k]
HistoryPreserved == [][HistoryGrows]_ledger
=============================================================================
