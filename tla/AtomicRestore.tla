--------------------------- MODULE AtomicRestore ---------------------------
(***************************************************************************)
(* What restoring a backup promises: the data of the panel changes in one  *)
(* step, to what the archive holds, and only with the report "completed";  *)
(* a job that reports a failure and a successful rollback has changed      *)
(* nothing.  Only a job whose own rollback failed, or that was killed, may *)
(* leave anything else behind.                                             *)
(***************************************************************************)
CONSTANTS
    Jobs,       \* restore jobs
    Files,      \* files of the panel that a backup can hold
    Contents,   \* what a file can hold
    Upgrade(_)  \* the schema migration that follows a restore

VARIABLES
    data,       \* the file contents the panel works with
    cargo,      \* the files of the archive each job restores
    result      \* what each job has come to

avars == <<data, cargo, result>>

\* The archive's files over the present ones, with the current schema.
Overlay(c) == Upgrade([f \in Files |-> IF f \in DOMAIN c THEN c[f] ELSE data[f]])

AInit ==
    /\ data \in [Files -> Contents]
    /\ cargo = [j \in Jobs |-> << >>]
    /\ result = [j \in Jobs |-> "none"]

Accept(j) ==
    /\ result[j] = "none"
    /\ \E S \in (SUBSET Files) \ {{}} : \E c \in [S -> Contents] : cargo' = [cargo EXCEPT ![j] = c]
    /\ result' = [result EXCEPT ![j] = "open"]
    /\ UNCHANGED data

Ends(j, r) == /\ result[j] = "open"
              /\ result' = [result EXCEPT ![j] = r]
              /\ UNCHANGED cargo

Succeed(j) == Ends(j, "completed") /\ data' = Overlay(cargo[j])

Reject(j) == Ends(j, "failed") /\ UNCHANGED data

\* Killed, or rolled back with errors: each file is what it was or what the archive holds.
Break(j) ==
    /\ Ends(j, "broken")
    /\ \E S \in SUBSET DOMAIN cargo[j] :
          data' \in {[f \in Files |-> IF f \in S THEN cargo[j][f] ELSE data[f]],
                     Upgrade([f \in Files |-> IF f \in S THEN cargo[j][f] ELSE data[f]])}

\* The schema may be brought up to date at any time.
Migrate == data' = Upgrade(data) /\ UNCHANGED <<cargo, result>>

ANext == Migrate \/ \E j \in Jobs : Accept(j) \/ Succeed(j) \/ Reject(j) \/ Break(j)

ASpec == AInit /\ [][ANext]_avars
=============================================================================
