--------------------------- MODULE MC_Notifications ---------------------------
(* Small instances of Notifications: an edit and any two faults, failed    *)
(* commits and a deletion, an edit and a deletion, or nothing of the kind. *)
EXTENDS Notifications, TLC

AnyFaults == [kinds |-> {"crash", "broker", "commit", "death", "redelivery"},
              faults |-> 2, edits |-> 1, deletes |-> 0]

FailedCommits == [kinds |-> {"commit"}, faults |-> MaxRetries, edits |-> 0, deletes |-> 1]

EditedAndDeleted == [kinds |-> {}, faults |-> 0, edits |-> 1, deletes |-> 1]

Mixed == {AnyFaults, FailedCommits, EditedAndDeleted}

Quiet == {[kinds |-> {}, faults |-> 0, edits |-> 0, deletes |-> 0]}
===============================================================================
