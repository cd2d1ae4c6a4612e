----------------------------- MODULE MCUploads -----------------------------
(***************************************************************************)
(* Archives for the model checker: suitable ones, and one for each way to  *)
(* be unsuitable, the limits missed by one.                                *)
(***************************************************************************)
EXTENDS Uploads

CONSTANTS c1, c2

File(name, size) == [name |-> name, size |-> size]

Good == [isZip |-> TRUE, entries |-> <<File("info", 1), File("data", 1)>>,
         info |-> "features", features |-> {"state", "action", "image"}]
ActOnly == [Good EXCEPT !.features = {"state", "action", "environment_state"}]
NoAction == [Good EXCEPT !.features = {"state", "image"}]

NoZip == [Good EXCEPT !.isZip = FALSE]
NoData == [Good EXCEPT !.entries = <<File("info", 1), File("other", 1)>>]
NoInfo == [Good EXCEPT !.entries = <<File("data", 1)>>]
OddInfo == [Good EXCEPT !.info = "notObject"]
NoFeatures == [Good EXCEPT !.info = "noMap"]

\* For limits of 3 files, 2 bytes a file and 5 bytes in all.
AtLimits == [Good EXCEPT !.entries = <<File("info", 1), File("data", 2), File("data", 2)>>]
TooMuch == [Good EXCEPT !.entries = <<File("info", 2), File("data", 2), File("data", 2)>>]
TooLarge == [Good EXCEPT !.entries = <<File("info", 1), File("data", 3)>>]
TooMany == [Good EXCEPT !.entries = <<File("info", 1), File("data", 1), File("data", 1), File("other", 1)>>]

SomeArchives == {Good, ActOnly, NoAction, NoZip, NoData, NoInfo, OddInfo, NoFeatures,
                 AtLimits, TooMuch, TooLarge, TooMany}
SomeRepos == {Good, ActOnly, NoData, NoInfo, OddInfo, NoFeatures, TooMuch}

=============================================================================
