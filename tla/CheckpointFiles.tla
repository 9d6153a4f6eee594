---------------------------- MODULE CheckpointFiles ----------------------------
(***************************************************************************)
(* The checkpoint folder of a job: one folder for each saved step, the     *)
(* rotation of the oldest, and the tracker file that names the checkpoint  *)
(* a resumed job loads.  Folders and tracker survive a crash, the list of  *)
(* the folders the job has saved does not.                                 *)
(***************************************************************************)
EXTENDS Integers, Sequences, FiniteSets, Functions

CONSTANT Keep                   \* max_actor_ckpt_to_keep, 0 if all are kept

ASSUME KeepAssumption == Keep \in Nat

VARIABLES disk,      \* the folders by step: {c} holds checkpoint c, {} is torn
          paths,     \* previous_saved_paths
          tracker    \* latest_checkpointed_iteration.txt

fileVars == <<disk, paths, tracker>>

NoTracker == 0                  \* steps count from 1
EmptyTracker == -1              \* opened for writing, and not written yet

FilesInit == disk = <<>> /\ paths = <<>> /\ tracker = NoTracker

\* remove_previous_save_local_path on all but the newest n of the folders saved
KeepNewest(saved, n) ==
    LET stale == Range(SubSeq(saved, 1, Len(saved) - n))
    IN  /\ paths' = SubSeq(saved, (IF Len(saved) > n THEN Len(saved) - n ELSE 0) + 1, Len(saved))
        /\ disk' = Restrict(disk, DOMAIN disk \ stale)

\* mutant: room is made for one too many
MakeRoomTwice == /\ IF Keep > 1 THEN KeepNewest(paths, Keep - 2) ELSE UNCHANGED <<disk, paths>>
                 /\ UNCHANGED tracker

\* ensure_checkpoint_capacity: room for one more is made only if two are kept
MakeRoom == /\ IF Keep > 1 THEN KeepNewest(paths, Keep - 1) ELSE UNCHANGED <<disk, paths>>
            /\ UNCHANGED tracker

\* the folder exists, and until all ranks have written their files it is torn
OpenFolder(step) ==
    /\ disk' = [s \in DOMAIN disk \union {step} |-> IF s = step THEN {} ELSE disk[s]]
    /\ UNCHANGED <<paths, tracker>>

WriteFolder(step, checkpoint) == /\ disk' = [disk EXCEPT ![step] = {checkpoint}]
                                 /\ UNCHANGED <<paths, tracker>>

\* register_checkpoint
Register(step) ==
    /\ UNCHANGED tracker
    /\ IF Keep > 0
       THEN KeepNewest(Append(paths, step), Keep)
       ELSE paths' = Append(paths, step) /\ UNCHANGED disk

\* open(tracker, "w") empties the file, close writes the number
EmptyTheTracker == tracker' = EmptyTracker /\ UNCHANGED <<disk, paths>>
WriteTracker(step) == tracker' = step /\ UNCHANGED <<disk, paths>>

\* find_latest_ckpt_path: what the tracker leads to, none if a load would raise
Latest == IF tracker \in DOMAIN disk THEN disk[tracker] ELSE {}

-----------------------------------------------------------------------------
\* A tracker with a number in it names a checkpoint that is there as a whole,
\* wherever the job died in a save: the next start can load it.
TrackerComplete == tracker > 0 => Latest # {}
=============================================================================
