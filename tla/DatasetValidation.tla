------------------------- MODULE DatasetValidation -------------------------
(***************************************************************************)
(* The rules a submitted dataset must pass: common/domain's structure,     *)
(* decompression-bomb and policy checks, as UploadService.confirm_zip_upload*)
(* applies them.                                                           *)
(*                                                                         *)
(* An archive is the list of its entries and what its meta/info.json says. *)
(***************************************************************************)
EXTENDS Naturals, Sequences, SequencesExt

CONSTANTS
    MaxFiles,   \* max_file_count
    MaxFile,    \* max_single_file_bytes
    MaxTotal    \* max_total_uncompressed_bytes

ASSUME LimitsAssumption == {MaxFiles, MaxFile, MaxTotal} \subseteq Nat

Policies == {"act", "smolvla"}

\* Entry names: meta/info.json, a file under data/, any other.
Names == {"info", "data", "other"}

\* Feature names: "image" is one that starts with observation.image.
Features == {"state", "action", "image", "environment_state"}

\* What meta/info.json holds: no JSON, JSON that is not an object, an object
\* whose features is not a map, or one that lists features.
InfoKinds == {"notJson", "notObject", "noMap", "features"}

\* ZipEntryMeta
Entry == [name : Names, size : Nat]

\* What a zip or a repository holds; of a file that is no zip, the rest is not read.
Archive == [isZip : BOOLEAN, entries : Seq(Entry), info : InfoKinds,
            features : SUBSET Features]

-----------------------------------------------------------------------------
(* dataset_validation.py                                                   *)

EntryNames(entries) == {entries[i].name : i \in DOMAIN entries}

CheckLerobotStructure(entries) == {"info", "data"} \subseteq EntryNames(entries)

\* Mutant: the total is compared before the last file is added.
BombStep_LateTotal(acc, entry) ==
    LET total == acc.total + entry.size
    IN  IF acc.verdict # "ok" THEN acc
        ELSE IF entry.size > MaxFile THEN [acc EXCEPT !.verdict = "fileTooLarge"]
        ELSE [total |-> total,
              verdict |-> IF acc.total > MaxTotal THEN "totalTooLarge" ELSE "ok"]

\* One turn of the loop, which stops at the first violation.
BombStep(acc, entry) ==
    LET total == acc.total + entry.size
    IN  IF acc.verdict # "ok" THEN acc
        ELSE IF entry.size > MaxFile THEN [acc EXCEPT !.verdict = "fileTooLarge"]
        ELSE [total |-> total,
              verdict |-> IF total > MaxTotal THEN "totalTooLarge" ELSE "ok"]

CheckDecompressionBomb(entries) ==
    IF Len(entries) > MaxFiles THEN "tooManyFiles"
    ELSE FoldLeft(BombStep, [total |-> 0, verdict |-> "ok"], entries).verdict

-----------------------------------------------------------------------------
(* policy_shapes.py                                                        *)

\* Mutant: ACT, unlike SmolVLA, insists on the environment state.
CheckPolicyCompatibility_ActEnv(features, policy) ==
    /\ {"state", "action"} \subseteq features
    /\ policy = "smolvla" => "image" \in features
    /\ policy = "act" => "environment_state" \in features

\* POLICY_REQUIREMENTS: SmolVLA needs a visual feature; ACT needs one or the
\* environment state.
CheckPolicyCompatibility(features, policy) ==
    /\ {"state", "action"} \subseteq features
    /\ policy = "smolvla" => "image" \in features
    /\ policy = "act" => features \cap {"image", "environment_state"} # {}

-----------------------------------------------------------------------------
(* upload_service.py: the checks, in order.                                *)

\* The checks on the list of entries.
EntriesAccepted(archive) ==
    /\ archive.isZip
    /\ CheckLerobotStructure(archive.entries)
    /\ CheckDecompressionBomb(archive.entries) = "ok"

\* The checks on meta/info.json.  Errors nothing catches: a file that is no zip
\* by now, and an info.json that is not an object, in check_policy_compatibility.
InfoVerdict(archive, policy) ==
    CASE ~archive.isZip -> "error"
      [] archive.isZip /\ "info" \notin EntryNames(archive.entries) -> "rejected"
      [] OTHER ->
           CASE archive.info \in {"notJson", "noMap"} -> "rejected"
             [] archive.info = "notObject" -> "error"
             [] archive.info = "features" ->
                  IF CheckPolicyCompatibility(archive.features, policy) THEN "ok" ELSE "rejected"

=============================================================================
