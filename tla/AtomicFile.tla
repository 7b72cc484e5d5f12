----------------------------- MODULE AtomicFile -----------------------------
(***************************************************************************)
(* What journaled_write promises of the file it publishes, without saying  *)
(* how.  A reader finds one whole version or another.  A power loss may    *)
(* bring back an older version as long as the current one is not on disk,  *)
(* and a writer is promised its version only when nothing older can come   *)
(* back; where the directory cannot be fsynced nothing is promised.        *)
(***************************************************************************)
CONSTANTS Content, NoFile

VARIABLES file,    \* what a reader finds
          older,   \* what a power loss may bring back in its place
          promised \* "yes": its writer returned, its directory fsynced

vars == <<file, older, promised>>

TypeOK ==
  /\ file \in Content \union {NoFile}
  /\ older \subseteq Content \union {NoFile}
  /\ promised \in {"yes", "no"}

Init == file \in Content \union {NoFile} /\ older = {} /\ promised = "no"

\* One step for every reader, whoever replaces it: a writer or a recovery.
Replace ==
  /\ file' \in Content
  /\ older' = older \union {file}
  /\ promised' = "no"

\* The file reaches the disk, by fsync or by the kernel's own write-back.
Settle == older' = {} /\ UNCHANGED <<file, promised>>

Promise ==
  /\ older = {}
  /\ promised' = "yes"
  /\ UNCHANGED <<file, older>>

PowerLoss ==
  /\ file' \in {file} \union older
  /\ older' = {} /\ promised' = "no"

Next == Replace \/ Settle \/ Promise \/ PowerLoss

Spec == Init /\ [][Next]_vars
=============================================================================
