---------------------------- MODULE ExportPromise ----------------------------
(***************************************************************************)
(* What the export pipeline promises, whatever its workers do: a document  *)
(* of a group is first stored in NetSuite and only then booked in the      *)
(* database, the group becomes exported exactly when a document is booked, *)
(* and none of it is ever taken back.                                      *)
(***************************************************************************)
CONSTANTS Groups, Types

VARIABLES
    ledger,    \* what happened to each possible document of a group
    exported   \* the groups' exported_at

vars == <<ledger, exported>>

Document == [group: Groups, type: Types]

Init ==
    /\ ledger = [d \in Document |-> "absent"]
    /\ exported = [g \in Groups |-> FALSE]

\* NetSuite stores a document (upsert: storing it again changes nothing)
Store(d) ==
    /\ ledger[d] = "absent"
    /\ ledger' = [ledger EXCEPT ![d] = "stored"]
    /\ UNCHANGED exported

\* the database records a stored document and exports its group, in one step
Book(d) ==
    /\ ledger[d] = "stored"
    /\ ledger' = [ledger EXCEPT ![d] = "booked"]
    /\ exported' = [exported EXCEPT ![d.group] = TRUE]

Next == \E d \in Document : Store(d) \/ Book(d)

Spec == Init /\ [][Next]_vars
=============================================================================
