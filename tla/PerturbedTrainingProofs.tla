------------------------ MODULE PerturbedTrainingProofs ------------------------
(***************************************************************************)
(* What holds of perturbed training for all values of the constants.       *)
(* First types, and what the checkpoints are worth after a crash: a job    *)
(* that saves each step once (m3po_m = 1) and keeps all checkpoints, or    *)
(* two at least, can always load the one the tracker names, and no job     *)
(* repeats more than save_freq steps.  Then the perturbation: the noise    *)
(* taken away is the noise that was added, and only rollouts and gradients *)
(* see it; with a single sample per step (B3PO, C3PO) every optimizer step *)
(* has that sample; each step is made once, from the samples of its own    *)
(* step; groups are split evenly over the samples; gradients are taken     *)
(* where the rollouts were generated.                                      *)
(***************************************************************************)
EXTENDS PerturbedTraining, SequenceTheorems, FiniteSetTheorems, TLAPS

-----------------------------------------------------------------------------
\* Checkpoints

KeepsTwo == M3poM = 1 /\ Keep # 1

\* the step under way has a number the tracker does not
Under == {"noise", "sync", "generate", "denoise", "union", "noiseAgain", "backward", "restore",
          "step", "loop", "save", "open", "write", "register"}

\* the folders this job has saved, in order
PathsInOrder ==
    /\ paths \in Seq(Nat)
    /\ \A i, j \in 1..Len(paths) : i < j => paths[i] < paths[j]
    /\ \A i \in 1..Len(paths) : paths[i] <= global_steps
    /\ pc \in Under => \A i \in 1..Len(paths) : paths[i] < global_steps

\* the tracker names the newest of them, or will
TrackerIsLast ==
    /\ tracker > 0 /\ Len(paths) > 0 /\ pc # "truncate" => tracker = paths[Len(paths)]
    /\ pc \in {"truncate", "track"} => Len(paths) > 0 /\ paths[Len(paths)] = global_steps

TrackInv ==
    /\ global_steps \in Nat /\ mc = 1
    /\ DOMAIN disk \subseteq Nat
    /\ tracker \in Nat \union {EmptyTracker}
    /\ tracker <= global_steps
    /\ pc \in Under \union {"truncate"} => tracker < global_steps
    /\ pc \in {"write", "register", "truncate", "track"} => global_steps \in DOMAIN disk
    /\ pc \in {"register", "truncate", "track"} => disk[global_steps] # {}
    /\ pc \in Under => global_steps > 0
    /\ pc = "track" => tracker = EmptyTracker
    /\ PathsInOrder
    /\ TrackerIsLast
    /\ TrackerComplete

\* how many of the folders rotation drops
Dropped(saved, n) == IF Len(saved) > n THEN Len(saved) - n ELSE 0

\* Rotation drops the oldest folders and nothing else.
LEMMA NewestKept ==
    ASSUME NEW saved \in Seq(Nat), NEW n \in Nat \ {0}, KeepNewest(saved, n),
           NEW k, k = Dropped(saved, n)
    PROVE  /\ k \in 0..Len(saved)
           /\ paths' \in Seq(Nat) /\ Len(paths') = Len(saved) - k
           /\ \A i \in 1..Len(paths') : paths'[i] = saved[i + k]
           /\ DOMAIN disk' \subseteq DOMAIN disk
           /\ \A s \in DOMAIN disk : (\A i \in 1..k : saved[i] # s)
                  => s \in DOMAIN disk' /\ disk'[s] = disk[s]
<1>1. Len(saved) \in Nat
    OBVIOUS
<1>2. k \in 0..Len(saved) /\ (k = 0 \/ k = Len(saved) - n) /\ (k = 0 => Len(saved) <= n)
    BY <1>1 DEF Dropped
<1>3. paths' = SubSeq(saved, k + 1, Len(saved))
    BY DEF KeepNewest, Dropped
<1>4. k + 1 \in Int /\ Len(saved) \in Int /\ \A j \in (k + 1)..Len(saved) : saved[j] \in Nat
    BY <1>1, <1>2
<1>5. /\ SubSeq(saved, k + 1, Len(saved)) \in Seq(Nat)
      /\ Len(SubSeq(saved, k + 1, Len(saved)))
            = IF k + 1 <= Len(saved) THEN Len(saved) - (k + 1) + 1 ELSE 0
      /\ \A i \in 1..(Len(saved) - (k + 1) + 1) :
            SubSeq(saved, k + 1, Len(saved))[i] = saved[k + 1 + i - 1]
    BY <1>4, SubSeqProperties
<1>6. Len(paths') = Len(saved) - k
    BY <1>1, <1>2, <1>3, <1>5
<1>7. ASSUME NEW i \in 1..Len(paths')
      PROVE  paths'[i] = saved[i + k]
  <2>1. k + 1 + i - 1 = i + k /\ i \in 1..(Len(saved) - (k + 1) + 1)
      BY <1>1, <1>2, <1>6
  <2> QED
      BY <1>3, <1>5, <2>1
<1> DEFINE stale == SubSeq(saved, 1, Len(saved) - n)
<1>8. disk' = [s \in DOMAIN disk \ Range(stale) |-> disk[s]]
    BY DEF KeepNewest, Restrict
<1>9. /\ stale \in Seq(Nat) /\ Len(stale) = IF 1 <= Len(saved) - n THEN Len(saved) - n - 1 + 1 ELSE 0
      /\ \A j \in 1..(Len(saved) - n - 1 + 1) : stale[j] = saved[1 + j - 1]
  <2>1. /\ 1 \in Int /\ Len(saved) - n \in Int
        /\ \A j \in 1..(Len(saved) - n) : saved[j] \in Nat
      BY <1>1
  <2> QED
      BY <2>1, SubSeqProperties
<1> HIDE DEF stale
<1>10. \A j \in DOMAIN stale : j \in 1..k /\ stale[j] = saved[j]
  <2>1. stale \in Seq(Nat)
      BY <1>9
  <2>2. DOMAIN stale = 1..Len(stale)
      BY <2>1
  <2> SUFFICES ASSUME NEW j \in 1..Len(stale)
               PROVE  j \in 1..k /\ stale[j] = saved[j]
      BY <2>2, Zenon
  <2>3. Len(saved) - n >= 1 /\ j \in 1..(Len(saved) - n) /\ k = Len(saved) - n
      BY <1>1, <1>2, <1>9
  <2>4. 1 + j - 1 = j /\ Len(saved) - n - 1 + 1 = Len(saved) - n
      BY <1>1, <2>3
  <2> QED
      BY <1>9, <2>3, <2>4
<1>11. \A s \in DOMAIN disk : (\A i \in 1..k : saved[i] # s) => s \notin Range(stale)
    BY <1>10 DEF Range
<1>12. DOMAIN disk' \subseteq DOMAIN disk
    BY <1>8
<1>13. \A s \in DOMAIN disk : (\A i \in 1..k : saved[i] # s)
           => s \in DOMAIN disk' /\ disk'[s] = disk[s]
    BY <1>8, <1>11
<1> QED
    BY <1>2, <1>3, <1>5, <1>6, <1>7, <1>12, <1>13

LEMMA TrackInit == ASSUME Init PROVE TrackInv
<1>1. /\ pc = "start" /\ global_steps = 0 /\ mc = 1 /\ disk = <<>> /\ paths = <<>> /\ tracker = 0
    BY DEF Init, FilesInit, NoTracker
<1>2. PathsInOrder
    BY <1>1 DEF PathsInOrder, Under
<1>3. TrackerIsLast /\ TrackerComplete
    BY <1>1 DEF TrackerIsLast, TrackerComplete
<1> QED
    BY <1>1, <1>2, <1>3 DEF TrackInv, Under

\* the steps around a save
LEMMA TrackDriver ==
    ASSUME TrackInv, UNCHANGED <<fileVars, mc>>,
           pc' \notin {"write", "register", "truncate", "track"}, pc # "truncate",
           \/ global_steps' = global_steps /\ (pc' \in Under => pc \in Under)
           \/ global_steps' = global_steps + 1
    PROVE  TrackInv'
<1> USE DEF TrackInv, fileVars
<1>1. global_steps' \in Nat /\ global_steps <= global_steps'
    OBVIOUS
<1>2. pc' \in Under => global_steps' > global_steps \/ pc \in Under
    OBVIOUS
<1>3. PathsInOrder'
  <2>1. /\ paths' \in Seq(Nat)
        /\ \A i, j \in 1..Len(paths') : i < j => paths'[i] < paths'[j]
      BY DEF PathsInOrder
  <2>2. \A i \in 1..Len(paths') : paths'[i] \in Nat /\ paths'[i] <= global_steps
      BY DEF PathsInOrder
  <2>3. \A i \in 1..Len(paths') : paths'[i] <= global_steps'
      BY <1>1, <2>2
  <2>4. pc' \in Under => \A i \in 1..Len(paths') : paths'[i] < global_steps'
    <3>1. CASE pc \in Under
        BY <1>1, <2>2, <3>1 DEF PathsInOrder
    <3>2. CASE global_steps' > global_steps
        BY <1>1, <2>2, <3>2
    <3> QED
        BY <1>2, <3>1, <3>2
  <2> QED
      BY <2>1, <2>3, <2>4 DEF PathsInOrder
<1>4. TrackerIsLast' /\ TrackerComplete'
    BY DEF TrackerIsLast, TrackerComplete, Latest
<1>5. /\ tracker' <= global_steps'
      /\ pc' \in Under \union {"truncate"} => tracker' < global_steps'
    BY <1>1, <1>2 DEF EmptyTracker
<1> QED
    BY <1>1, <1>2, <1>3, <1>4, <1>5

\* what SaveBegin and Register leave of the folders, when at least two are kept
LEMMA RotationKeeps ==
    ASSUME NEW saved \in Seq(Nat), NEW n \in Nat \ {0}, KeepNewest(saved, n),
           \A i, j \in 1..Len(saved) : i < j => saved[i] < saved[j]
    PROVE  /\ paths' \in Seq(Nat)
           /\ \A i, j \in 1..Len(paths') : i < j => paths'[i] < paths'[j]
           /\ \A i \in 1..Len(paths') : \E j \in 1..Len(saved) : paths'[i] = saved[j]
           /\ Len(saved) > 0 => Len(paths') > 0 /\ paths'[Len(paths')] = saved[Len(saved)]
           /\ DOMAIN disk' \subseteq DOMAIN disk
           /\ \A s \in DOMAIN disk : (\A i \in 1..(Len(saved) - n) : saved[i] # s)
                  => s \in DOMAIN disk' /\ disk'[s] = disk[s]
<1>0. PICK k : k = Dropped(saved, n)
    OBVIOUS
<1>1. /\ k \in 0..Len(saved)
      /\ paths' \in Seq(Nat) /\ Len(paths') = Len(saved) - k
      /\ \A i \in 1..Len(paths') : paths'[i] = saved[i + k]
      /\ DOMAIN disk' \subseteq DOMAIN disk
      /\ \A s \in DOMAIN disk : (\A i \in 1..k : saved[i] # s)
             => s \in DOMAIN disk' /\ disk'[s] = disk[s]
    BY <1>0, NewestKept
<1>2. Len(saved) \in Nat /\ (k = 0 \/ k = Len(saved) - n) /\ (Len(saved) > 0 => k < Len(saved))
    BY <1>0 DEF Dropped
<1>3. ASSUME NEW i \in 1..Len(paths')
      PROVE  i + k \in 1..Len(saved) /\ paths'[i] = saved[i + k]
  <2>1. i + k \in 1..Len(saved)
      BY <1>1, <1>2
  <2> QED
      BY <1>1, <2>1
<1>4. ASSUME NEW i \in 1..Len(paths'), NEW j \in 1..Len(paths'), i < j
      PROVE  paths'[i] < paths'[j]
  <2>1. i + k \in 1..Len(saved) /\ j + k \in 1..Len(saved)
      BY <1>3
  <2>2. i + k < j + k
      BY <1>1, <1>4
  <2> QED
      BY <1>3, <2>1, <2>2
<1>5. \A i \in 1..Len(paths') : \E j \in 1..Len(saved) : paths'[i] = saved[j]
    BY <1>3
<1>6. Len(saved) > 0 => Len(paths') > 0 /\ paths'[Len(paths')] = saved[Len(saved)]
  <2> SUFFICES ASSUME Len(saved) > 0
               PROVE  Len(paths') > 0 /\ paths'[Len(paths')] = saved[Len(saved)]
      OBVIOUS
  <2>1. Len(paths') \in 1..Len(paths') /\ Len(paths') + k = Len(saved)
      BY <1>1, <1>2
  <2> QED
      BY <1>3, <2>1
<1>7. \A s \in DOMAIN disk : (\A i \in 1..(Len(saved) - n) : saved[i] # s)
          => s \in DOMAIN disk' /\ disk'[s] = disk[s]
    BY <1>1, <1>2
<1> QED
    BY <1>1, <1>4, <1>5, <1>6, <1>7

LEMMA TrackSaveBegin == ASSUME KeepsTwo, TrackInv, SaveBegin PROVE TrackInv'
<1>1. pc = "save" /\ pc' \in {"open", "saved"} /\ UNCHANGED <<global_steps, mc, tracker>>
    BY DEF SaveBegin, counterVars, fileVars, MakeRoom
<1>2. CASE UNCHANGED fileVars
    BY <1>1, <1>2, TrackDriver DEF Under
<1>3. CASE pc' = "open" /\ MakeRoom /\ ~UNCHANGED fileVars
  <2>1. Keep \in Nat /\ Keep > 1 /\ KeepNewest(paths, Keep - 1)
      BY <1>3, KeepAssumption DEF MakeRoom, fileVars
  <2>2. paths \in Seq(Nat) /\ \A i, j \in 1..Len(paths) : i < j => paths[i] < paths[j]
      BY DEF TrackInv, PathsInOrder
  <2>3. Keep - 1 \in Nat \ {0}
      BY <2>1
  <2>4. /\ paths' \in Seq(Nat)
        /\ \A i, j \in 1..Len(paths') : i < j => paths'[i] < paths'[j]
        /\ \A i \in 1..Len(paths') : \E j \in 1..Len(paths) : paths'[i] = paths[j]
        /\ Len(paths) > 0 => Len(paths') > 0 /\ paths'[Len(paths')] = paths[Len(paths)]
        /\ DOMAIN disk' \subseteq DOMAIN disk
        /\ \A s \in DOMAIN disk : (\A i \in 1..(Len(paths) - (Keep - 1)) : paths[i] # s)
               => s \in DOMAIN disk' /\ disk'[s] = disk[s]
      BY <2>1, <2>2, <2>3, RotationKeeps
  <2>5. PathsInOrder'
      BY <1>1, <2>4 DEF TrackInv, PathsInOrder, Under
  <2>6. TrackerComplete' /\ TrackerIsLast'
    <3>1. CASE tracker > 0
      <4>1. tracker \in DOMAIN disk /\ disk[tracker] # {}
          BY <3>1 DEF TrackInv, TrackerComplete, Latest
      <4>2. \A i \in 1..(Len(paths) - (Keep - 1)) : paths[i] # tracker
        <5> SUFFICES ASSUME NEW i \in 1..(Len(paths) - (Keep - 1)) PROVE paths[i] # tracker
            OBVIOUS
        <5>1. i \in 1..Len(paths) /\ i < Len(paths) /\ Len(paths) \in 1..Len(paths)
            BY <2>1, <2>2
        <5>2. paths[i] < paths[Len(paths)]
            BY <2>2, <5>1
        <5>3. paths[Len(paths)] = tracker
            BY <1>1, <3>1, <5>1 DEF TrackInv, TrackerIsLast
        <5>4. paths[i] \in Nat /\ tracker \in Nat
            BY <2>2, <5>1, <5>3
        <5> QED
            BY <5>2, <5>3, <5>4
      <4>3. tracker \in DOMAIN disk' /\ disk'[tracker] # {}
          BY <2>4, <4>1, <4>2
      <4>4. Len(paths') > 0 => Len(paths) > 0
          BY <2>2, <2>4
      <4>5. TrackerIsLast'
          BY <1>1, <1>3, <2>4, <4>4 DEF TrackInv, TrackerIsLast
      <4> QED
          BY <1>1, <4>3, <4>5 DEF TrackerComplete, Latest
    <3>2. CASE ~(tracker > 0)
        BY <1>1, <1>3, <3>2 DEF TrackerComplete, TrackerIsLast
    <3> QED
        BY <3>1, <3>2
  <2> QED
      BY <1>1, <1>3, <2>4, <2>5, <2>6 DEF TrackInv, Under
<1> QED
    BY <1>1, <1>2, <1>3 DEF SaveBegin

LEMMA TrackSaveStep == ASSUME KeepsTwo, TrackInv, SaveStep PROVE TrackInv'
<1> USE DEF CheckpointStep, Goto
<1>1. UNCHANGED <<global_steps, mc>>
    BY DEF SaveStep, counterVars
<1>2. CASE pc = "open" /\ pc' = "write" /\ OpenFolder(global_steps)
  <2>1. /\ disk' = [s \in DOMAIN disk \union {global_steps} |->
                      IF s = global_steps THEN {} ELSE disk[s]]
        /\ UNCHANGED <<paths, tracker>>
      BY <1>2 DEF OpenFolder
  <2>2. tracker < global_steps
      BY <1>2 DEF TrackInv, Under
  <2>3. TrackerComplete'
      BY <2>1, <2>2 DEF TrackInv, TrackerComplete, Latest
  <2>4. PathsInOrder' /\ TrackerIsLast'
      BY <1>1, <1>2, <2>1 DEF TrackInv, PathsInOrder, TrackerIsLast, Under
  <2> QED
      BY <1>1, <1>2, <2>1, <2>2, <2>3, <2>4 DEF TrackInv, Under
<1>3. CASE pc = "write" /\ pc' = "register" /\ WriteFolder(global_steps, Checkpoint)
  <2>1. disk' = [disk EXCEPT ![global_steps] = {Checkpoint}] /\ UNCHANGED <<paths, tracker>>
      BY <1>3 DEF WriteFolder
  <2>2. tracker < global_steps /\ global_steps \in DOMAIN disk
      BY <1>3 DEF TrackInv, Under
  <2>3. DOMAIN disk' = DOMAIN disk /\ disk'[global_steps] # {}
      BY <2>1, <2>2
  <2>4. TrackerComplete'
      BY <2>1, <2>2, <2>3 DEF TrackInv, TrackerComplete, Latest
  <2>5. PathsInOrder' /\ TrackerIsLast'
      BY <1>1, <1>3, <2>1 DEF TrackInv, PathsInOrder, TrackerIsLast, Under
  <2> QED
      BY <1>1, <1>3, <2>1, <2>2, <2>3, <2>4, <2>5 DEF TrackInv, Under
<1>4. CASE pc = "register" /\ pc' = "truncate" /\ Register(global_steps)
  <2>1. /\ paths \in Seq(Nat) /\ global_steps \in Nat /\ Len(paths) \in Nat
        /\ \A i, j \in 1..Len(paths) : i < j => paths[i] < paths[j]
        /\ \A i \in 1..Len(paths) : paths[i] < global_steps
        /\ tracker' = tracker /\ tracker < global_steps
        /\ global_steps \in DOMAIN disk /\ disk[global_steps] # {}
      BY <1>4 DEF TrackInv, PathsInOrder, Under, Register
  <2> DEFINE saved == Append(paths, global_steps)
  <2>2. /\ saved \in Seq(Nat) /\ Len(saved) = Len(paths) + 1
        /\ \A i \in 1..Len(paths) : saved[i] = paths[i]
        /\ saved[Len(paths) + 1] = global_steps
      BY <2>1
  <2> HIDE DEF saved
  <2>3. \A i, j \in 1..Len(saved) : i < j => saved[i] < saved[j]
    <3> SUFFICES ASSUME NEW i \in 1..Len(saved), NEW j \in 1..Len(saved), i < j
                 PROVE  saved[i] < saved[j]
        OBVIOUS
    <3>1. i \in 1..Len(paths) /\ (j \in 1..Len(paths) \/ j = Len(paths) + 1)
      <4>1. Len(saved) = Len(paths) + 1 /\ Len(paths) \in Nat
          BY <2>1, <2>2
      <4> QED
          BY <4>1
    <3>2. CASE j \in 1..Len(paths)
        BY <2>1, <2>2, <3>1, <3>2
    <3>3. CASE j = Len(paths) + 1
        BY <2>1, <2>2, <3>1, <3>3
    <3> QED
        BY <3>1, <3>2, <3>3
  <2>4. \A i \in 1..Len(saved) : saved[i] <= global_steps
    <3>1. \A i \in 1..Len(saved) : i \in 1..Len(paths) \/ i = Len(paths) + 1
        BY <2>1, <2>2
    <3> QED
        BY <2>1, <2>2, <3>1, SMTT(30)
  <2>5. /\ paths' \in Seq(Nat)
        /\ \A i, j \in 1..Len(paths') : i < j => paths'[i] < paths'[j]
        /\ \A i \in 1..Len(paths') : \E j \in 1..Len(saved) : paths'[i] = saved[j]
        /\ Len(paths') > 0 /\ paths'[Len(paths')] = global_steps
        /\ DOMAIN disk' \subseteq DOMAIN disk
        /\ \A s \in DOMAIN disk : (\A i \in 1..(Len(paths) - 1) : paths[i] # s)
               => s \in DOMAIN disk' /\ disk'[s] = disk[s]
    <3>1. CASE Keep > 0
      <4>1. Keep \in Nat /\ Keep > 1
          BY <3>1, KeepAssumption DEF KeepsTwo
      <4>2. KeepNewest(saved, Keep)
          BY <1>4, <3>1 DEF Register, saved
      <4>3. /\ paths' \in Seq(Nat)
            /\ \A i, j \in 1..Len(paths') : i < j => paths'[i] < paths'[j]
            /\ \A i \in 1..Len(paths') : \E j \in 1..Len(saved) : paths'[i] = saved[j]
            /\ Len(saved) > 0 => Len(paths') > 0 /\ paths'[Len(paths')] = saved[Len(saved)]
            /\ DOMAIN disk' \subseteq DOMAIN disk
            /\ \A s \in DOMAIN disk : (\A i \in 1..(Len(saved) - Keep) : saved[i] # s)
                   => s \in DOMAIN disk' /\ disk'[s] = disk[s]
          BY <2>2, <2>3, <4>1, <4>2, RotationKeeps, SMTT(30)
      <4>4. ASSUME NEW i \in 1..(Len(saved) - Keep)
            PROVE  i \in 1..(Len(paths) - 1) /\ saved[i] = paths[i]
        <5>1. Len(saved) = Len(paths) + 1 /\ Len(paths) \in Nat
            BY <2>1, <2>2
        <5>2. i \in 1..(Len(paths) - 1) /\ i \in 1..Len(paths)
            BY <4>1, <5>1
        <5> QED
            BY <2>2, <5>2
      <4>5. Len(saved) > 0 /\ saved[Len(saved)] = global_steps
          BY <2>1, <2>2
      <4> QED
          BY <4>3, <4>4, <4>5
    <3>2. CASE ~(Keep > 0)
      <4>1. paths' = saved /\ disk' = disk
          BY <1>4, <3>2 DEF Register, saved
      <4> QED
          BY <2>1, <2>2, <2>3, <4>1
    <3> QED
        BY <3>1, <3>2
  <2>6. global_steps \in DOMAIN disk' /\ disk'[global_steps] # {}
    <3>1. \A i \in 1..(Len(paths) - 1) : paths[i] # global_steps
        BY <2>1
    <3> QED
        BY <2>1, <2>5, <3>1
  <2>7. TrackerComplete'
    <3> SUFFICES ASSUME tracker > 0 PROVE tracker \in DOMAIN disk' /\ disk'[tracker] # {}
        BY <2>1 DEF TrackerComplete, Latest
    <3>1. tracker \in DOMAIN disk /\ disk[tracker] # {}
        BY DEF TrackInv, TrackerComplete, Latest
    <3>2. \A i \in 1..(Len(paths) - 1) : paths[i] # tracker
      <4> SUFFICES ASSUME NEW i \in 1..(Len(paths) - 1) PROVE paths[i] # tracker
          OBVIOUS
      <4>1. i \in 1..Len(paths) /\ Len(paths) \in 1..Len(paths) /\ i < Len(paths)
          BY <2>1
      <4>2. paths[i] < paths[Len(paths)] /\ paths[i] \in Nat
          BY <2>1, <4>1
      <4>3. paths[Len(paths)] = tracker
          BY <1>4, <4>1 DEF TrackInv, TrackerIsLast
      <4>4. tracker \in Nat
          BY <2>1, <4>1, <4>3
      <4> QED
          BY <4>2, <4>3, <4>4
    <3> QED
        BY <2>5, <3>1, <3>2
  <2>8. PathsInOrder'
      BY <1>1, <1>4, <2>4, <2>5 DEF PathsInOrder, Under
  <2>9. TrackerIsLast'
      BY <1>1, <1>4, <2>5 DEF TrackerIsLast
  <2> QED
      BY <1>1, <1>4, <2>1, <2>5, <2>6, <2>7, <2>8, <2>9 DEF TrackInv, Under
<1>5. CASE pc = "truncate" /\ pc' = "track" /\ EmptyTheTracker
  <2>1. tracker' = EmptyTracker /\ UNCHANGED <<disk, paths>>
      BY <1>5 DEF EmptyTheTracker
  <2>2. PathsInOrder' /\ TrackerIsLast' /\ TrackerComplete'
      BY <1>1, <1>5, <2>1 DEF TrackInv, PathsInOrder, TrackerIsLast, TrackerComplete, Under,
                               EmptyTracker
  <2> QED
      BY <1>1, <1>5, <2>1, <2>2 DEF TrackInv, Under, EmptyTracker
<1>6. CASE pc = "track" /\ pc' = "saved" /\ WriteTracker(global_steps)
  <2>1. tracker' = global_steps /\ UNCHANGED <<disk, paths>>
      BY <1>6 DEF WriteTracker
  <2>2. TrackerComplete'
      BY <1>6, <2>1 DEF TrackInv, TrackerComplete, Latest
  <2>3. PathsInOrder' /\ TrackerIsLast'
      BY <1>1, <1>6, <2>1 DEF TrackInv, PathsInOrder, TrackerIsLast, Under
  <2> QED
      BY <1>1, <1>6, <2>1, <2>2, <2>3 DEF TrackInv, Under
<1> QED
    BY <1>2, <1>3, <1>4, <1>5, <1>6 DEF SaveStep, SaveFiles

LEMMA TrackCrash == ASSUME TrackInv, Crash PROVE TrackInv'
<1>1. UNCHANGED <<disk, tracker>> /\ paths' = <<>> /\ Len(paths') = 0
    BY DEF Crash
<1>2. TrackerComplete'
    BY <1>1 DEF TrackInv, TrackerComplete, Latest
<1>3. /\ pc' \in {"start", "unloadable"} /\ mc' = 1
      /\ global_steps' \in Nat /\ tracker' <= global_steps'
  <2>1. CASE tracker = NoTracker /\ Resume(0, Scratch)
      BY <1>1, <2>1 DEF Resume, NoTracker
  <2>2. ASSUME NEW checkpoint \in Latest, Resume(tracker, checkpoint)
        PROVE  <1>3
    <3>1. tracker \in Nat
        BY DEF TrackInv, Latest
    <3> QED
        BY <1>1, <2>2, <3>1 DEF Resume
  <2>3. CASE pc' = "unloadable" /\ UNCHANGED <<global_steps, mc>>
      BY <1>1, <2>3 DEF TrackInv
  <2> QED
      BY <2>1, <2>2, <2>3 DEF Crash, Load
<1>4. PathsInOrder' /\ TrackerIsLast'
    BY <1>1, <1>3 DEF PathsInOrder, TrackerIsLast, Under
<1> QED
    BY <1>1, <1>2, <1>3, <1>4 DEF TrackInv, Under

LEMMA TrackNext == ASSUME KeepsTwo, TrackInv, [Next]_vars PROVE TrackInv'
<1>1. CASE Start \/ Test \/ Validate \/ NextStep \/ NoiseActor \/ SyncWeights \/ Generate
             \/ DenoiseActor \/ Union \/ NoiseAgain \/ (\E finite \in BOOLEAN : Backward(finite))
             \/ Restore \/ TakeStep \/ NextMiniBatch \/ UpdateActorDone \/ EndStep \/ StepDone
  <2>1. /\ \/ UNCHANGED <<fileVars, mc, global_steps>>
           \/ /\ pc = "next" /\ global_steps' = global_steps + 1 /\ mc' = 1
              /\ UNCHANGED fileVars
      BY <1>1 DEF Start, Test, Validate, NextStep, NoiseActor, SyncWeights, Generate,
             DenoiseActor, Union, NoiseAgain, Backward, Restore, TakeStep, NextMiniBatch,
             UpdateActorDone, EndStep, StepDone, counterVars, Goto
  <2>2. pc # "truncate" /\ pc' \notin {"write", "register", "truncate", "track"}
    <3>1. TakeStep => pc = "step" /\ pc' \in {"loop", "raised"}
        BY DEF TakeStep, OptimizerStep
    <3> QED
        BY <1>1, <3>1 DEF Start, Test, Validate, NextStep, NoiseActor, SyncWeights, Generate,
             DenoiseActor, Union, NoiseAgain, Backward, Restore, NextMiniBatch,
             UpdateActorDone, EndStep, StepDone, Goto
  <2>3. pc = "next" \/ (pc' \in Under => pc \in Under)
    <3>1. TakeStep => pc = "step" /\ pc' \in {"loop", "raised"}
        BY DEF TakeStep, OptimizerStep
    <3> QED
        BY <1>1, <3>1 DEF Start, Test, Validate, NextStep, NoiseActor, SyncWeights, Generate,
             DenoiseActor, Union, NoiseAgain, Backward, Restore, NextMiniBatch,
             UpdateActorDone, EndStep, StepDone, Goto, Under
  <2>4. CASE pc = "next"
    <3>1. NextStep
        BY <1>1, <2>4 DEF Start, Test, Validate, NoiseActor, SyncWeights, Generate,
             DenoiseActor, Union, NoiseAgain, Backward, Restore, TakeStep, NextMiniBatch,
             UpdateActorDone, EndStep, StepDone, Goto
    <3>2. global_steps' = global_steps + 1 /\ UNCHANGED <<fileVars, mc>>
        BY <3>1 DEF NextStep, TrackInv
    <3> QED
        BY <2>2, <3>2, TrackDriver
  <2>5. CASE pc # "next"
    <3>1. UNCHANGED <<fileVars, mc, global_steps>> /\ (pc' \in Under => pc \in Under)
        BY <2>1, <2>3, <2>5
    <3> QED
        BY <2>2, <3>1, TrackDriver
  <2> QED
      BY <2>4, <2>5
<1>2. CASE SaveBegin
    BY <1>2, TrackSaveBegin
<1>3. CASE SaveStep
    BY <1>3, TrackSaveStep
<1>4. CASE Crash
    BY <1>4, TrackCrash
<1>5. CASE NextSample
    BY <1>5 DEF NextSample, TrackInv, KeepsTwo
<1>6. CASE UNCHANGED vars
    BY <1>6 DEF vars, fileVars, counterVars, TrackInv, PathsInOrder, TrackerIsLast,
           TrackerComplete, Latest
<1> QED
    BY <1>1, <1>2, <1>3, <1>4, <1>5, <1>6 DEF Next, Ended

\* Wherever the job dies in a save, the checkpoint the tracker names is still there
\* as a whole (_save_checkpoint writes the tracker last, register_checkpoint removes
\* the oldest).
THEOREM TrackerNeverMisleads == ASSUME KeepsTwo PROVE Spec => []TrackerComplete
<1>1. Init => TrackInv
    BY TrackInit
<1>2. TrackInv /\ [Next]_vars => TrackInv'
    BY TrackNext
<1>3. TrackInv => TrackerComplete
    BY DEF TrackInv
<1> QED
    BY <1>1, <1>2, <1>3, PTL DEF Spec
-----------------------------------------------------------------------------
(* Type correctness: what is on disk is what a job can start from *)

\* a sequence, of whatever it holds
Listed(s) == s \in Seq(Range(s))

\* Appending to a sequence.
LEMMA ListedAppend ==
    ASSUME NEW s, Listed(s), NEW e
    PROVE  /\ Listed(Append(s, e))
           /\ Len(s) \in Nat /\ DOMAIN s = 1..Len(s)
           /\ Len(Append(s, e)) = Len(s) + 1
           /\ DOMAIN Append(s, e) = 1..(Len(s) + 1)
           /\ \A i \in 1..Len(s) : Append(s, e)[i] = s[i]
           /\ Append(s, e)[Len(s) + 1] = e
<1> DEFINE T == Range(s) \union {e}
<1>1. s \in Seq(T)
    BY DEF Listed
<1>2. Append(s, e) \in Seq(T)
    BY <1>1
<1>3. /\ Len(s) \in Nat /\ DOMAIN s = 1..Len(s)
      /\ Len(Append(s, e)) = Len(s) + 1
      /\ DOMAIN Append(s, e) = 1..(Len(s) + 1)
      /\ \A i \in 1..Len(s) : Append(s, e)[i] = s[i]
      /\ Append(s, e)[Len(s) + 1] = e
    BY <1>1
<1>4. Append(s, e) \in Seq(Range(Append(s, e)))
    BY <1>2 DEF Range
<1> QED
    BY <1>3, <1>4 DEF Listed

LEMMA ListedEmpty == Listed(<<>>) /\ Len(<<>>) = 0
BY DEF Listed

LEMMA AtMostOne == Cardinality({}) <= 1 /\ \A x : Cardinality({x}) <= 1
<1>1. Cardinality({}) = 0
    BY FS_EmptySet
<1>2. \A x : Cardinality({x}) = 1
    BY FS_Singleton
<1> QED
    BY <1>1, <1>2

\* what a job that loads the checkpoint starts with
StoredOK(checkpoint) ==
    /\ checkpoint.mean \in Seq(Nat)
    /\ checkpoint.offset \subseteq Int \X Nat
    /\ checkpoint.scale \in Nat /\ checkpoint.count \in Nat
    /\ Listed(checkpoint.avg)
    /\ ~SingleSample => checkpoint.count = Len(checkpoint.avg)

OptimizerTypes == IvonTypeOK /\ Listed(avg)

FileTypes ==
    /\ DOMAIN disk \subseteq 1..TotalSteps
    /\ paths \in Seq(1..TotalSteps)
    /\ tracker \in -1..TotalSteps
    /\ \A step \in DOMAIN disk :
          Cardinality(disk[step]) <= 1 /\ \A checkpoint \in disk[step] : StoredOK(checkpoint)

\* inside a step, and between two of them
InStep == Under \union {"truncate", "track", "saved", "sampled"}
AroundSteps == {"start", "test", "validate", "next"}

PlaceTypes ==
    /\ pc \in InStep \union AroundSteps \union Dead
    /\ global_steps \in 0..(TotalSteps + 1)
    /\ pc \in InStep => global_steps \in 1..TotalSteps
    /\ pc \in AroundSteps => global_steps <= TotalSteps

CounterTypes ==
    /\ mc \in 1..M3poM
    /\ chunk \in 1..(Chunks + 1)
    /\ pc \in {"noise", "sync", "generate", "denoise"} => chunk <= Chunks
    /\ decoupled \in 1..(DecoupledSamples + 1)
    /\ pc \in {"noiseAgain", "backward", "restore", "step", "loop"} => decoupled <= DecoupledSamples
    /\ miniBatch \in 1..miniBatches /\ miniBatches \in 1..MiniBatches

LoopTypes ==
    /\ PlaceTypes
    /\ CounterTypes
    /\ Cardinality(engine) <= 1
    /\ skipped \subseteq 1..TotalSteps

TrainingInv == OptimizerTypes /\ FileTypes /\ LoopTypes

LEMMA TrainingInit == ASSUME Init PROVE TrainingInv
<1> USE TrainingAssumption
<1>1. OptimizerTypes
  <2>1. noised \in BOOLEAN
      BY Zenon DEF Init, IvonInit
  <2> QED
      BY <2>1, ListedEmpty DEF Init, IvonInit, OptimizerTypes, IvonTypeOK
<1>2. FileTypes
  <2>1. disk = <<>> /\ DOMAIN disk = {} /\ paths = <<>> /\ tracker = 0
      BY DEF Init, FilesInit, NoTracker
  <2> QED
      BY <2>1 DEF FileTypes
<1>3. LoopTypes
    BY AtMostOne DEF Init, LoopTypes, PlaceTypes, CounterTypes, InStep, Under, AroundSteps, Dead
<1> QED
    BY <1>1, <1>2, <1>3 DEF TrainingInv

LEMMA SampleTypes == ASSUME OptimizerTypes, SampleParams PROVE OptimizerTypes'
<1>1. CASE noised /\ UNCHANGED ivonVars
    BY <1>1 DEF OptimizerTypes, IvonTypeOK, ivonVars, noiseVars, statVars
<1>2. CASE ~noised
  <2>1. /\ noised' = TRUE /\ drawn' = drawn + 1 /\ genState' = drawn + 1
        /\ UNCHANGED <<mean, scale, avg>>
        /\ count' = IF SingleSample THEN 0 ELSE count
        /\ offset' = Plus(<<drawn + 1, scale>>)
      BY <1>2 DEF SampleParams
  <2>2. noised' \in BOOLEAN
      BY <2>1, Zenon
  <2>3. offset' \subseteq Int \X Nat
      BY <2>1 DEF OptimizerTypes, IvonTypeOK, Plus
  <2>4. drawn' \in Nat /\ genState' \in 0..drawn'
      BY <2>1 DEF OptimizerTypes, IvonTypeOK
  <2>5. count' \in Nat /\ (~SingleSample => count' = Len(avg'))
      BY <2>1 DEF OptimizerTypes, IvonTypeOK
  <2>6. mean' \in Seq(Nat) /\ scale' \in Nat /\ Listed(avg')
      BY <2>1 DEF OptimizerTypes, IvonTypeOK
  <2> QED
      BY <2>2, <2>3, <2>4, <2>5, <2>6 DEF OptimizerTypes, IvonTypeOK
<1> QED
    BY <1>1, <1>2 DEF SampleParams

LEMMA RestoreTypes ==
    ASSUME OptimizerTypes, NEW train \in BOOLEAN, RestoreParamAverage(train)
    PROVE  OptimizerTypes'
<1>1. CASE ~noised /\ UNCHANGED ivonVars
    BY <1>1 DEF OptimizerTypes, IvonTypeOK, ivonVars, noiseVars, statVars
<1>2. CASE noised
  <2>1. /\ noised' = FALSE /\ offset' = Minus(<<genState, scale>>)
        /\ UNCHANGED <<genState, drawn, mean, scale>>
      BY <1>2 DEF RestoreParamAverage
  <2>2. noised' \in BOOLEAN
      BY <2>1, Zenon
  <2>3. offset' \subseteq Int \X Nat
    <3>1. genState \in Int /\ scale \in Nat /\ -genState \in Int
        BY DEF OptimizerTypes, IvonTypeOK
    <3> QED
        BY <2>1, <3>1 DEF OptimizerTypes, IvonTypeOK, Minus
  <2>4. \/ UNCHANGED statVars
        \/ count' = count + 1 /\ avg' = IF SingleSample THEN avg ELSE Append(avg, grad)
      BY <1>2 DEF RestoreParamAverage
  <2>5. /\ count' \in Nat /\ Listed(avg')
        /\ ~SingleSample => count' = Len(avg')
    <3>1. CASE UNCHANGED statVars
        BY <3>1 DEF OptimizerTypes, IvonTypeOK, statVars
    <3>2. CASE SingleSample /\ count' = count + 1 /\ avg' = avg
        BY <3>2 DEF OptimizerTypes, IvonTypeOK
    <3>3. CASE ~SingleSample /\ count' = count + 1 /\ avg' = Append(avg, grad)
      <4>1. Listed(avg') /\ Len(avg') = Len(avg) + 1
          BY <3>3, ListedAppend DEF OptimizerTypes
      <4> QED
          BY <3>3, <4>1 DEF OptimizerTypes, IvonTypeOK
    <3> QED
        BY <2>4, <3>1, <3>2, <3>3
  <2> QED
      BY <2>1, <2>2, <2>3, <2>5 DEF OptimizerTypes, IvonTypeOK
<1> QED
    BY <1>1, <1>2 DEF RestoreParamAverage

LEMMA StepTypes ==
    ASSUME OptimizerTypes, NEW step \in Nat, Step(step) PROVE OptimizerTypes'
<1>1. /\ UNCHANGED <<noised, drawn, offset>>
      /\ count' = 0 /\ avg' = <<>> /\ genState' = 0
      /\ scale' \in {scale, scale + 1}
      /\ mean' = Append(mean, step)
    BY DEF Step
<1>2. mean' \in Seq(Nat)
    BY <1>1 DEF OptimizerTypes, IvonTypeOK
<1>3. noised' \in BOOLEAN
    BY <1>1 DEF OptimizerTypes, IvonTypeOK
<1> QED
    BY <1>1, <1>2, <1>3, ListedEmpty DEF OptimizerTypes, IvonTypeOK

\* Whatever a job does, its optimizer keeps to its types, and so does the next job,
\* which starts from a checkpoint.
LEMMA OptimizerNext == ASSUME TrainingInv, [Next]_vars PROVE OptimizerTypes'
<1> USE DEF TrainingInv
<1>1. CASE UNCHANGED ivonVars
    BY <1>1 DEF OptimizerTypes, IvonTypeOK, ivonVars, noiseVars, statVars
<1>2. CASE SampleParams
    BY <1>2, SampleTypes
<1>3. ASSUME NEW train \in BOOLEAN, RestoreParamAverage(train) PROVE OptimizerTypes'
    BY <1>3, RestoreTypes
<1>4. CASE TakeStep
  <2>1. CASE Step(global_steps)
      BY <2>1, StepTypes DEF LoopTypes, PlaceTypes
  <2>2. CASE UNCHANGED <<noiseVars, mean, scale, statVars>>
      BY <2>2 DEF OptimizerTypes, IvonTypeOK, noiseVars, statVars
  <2> QED
      BY <1>4, <2>1, <2>2 DEF TakeStep, OptimizerStep, ivonVars
<1>5. CASE UpdateActorDone \/ \E finite \in BOOLEAN : Backward(finite)
  <2>1. UNCHANGED <<noiseVars, mean, statVars>> /\ scale' \in {scale, scale + 1}
      BY <1>5 DEF UpdateActorDone, Backward
  <2> QED
      BY <2>1 DEF OptimizerTypes, IvonTypeOK, noiseVars, statVars
<1>6. CASE Crash
  <2>1. ASSUME NEW step, NEW checkpoint, StoredOK(checkpoint), Resume(step, checkpoint)
        PROVE  OptimizerTypes'
    <3>1. /\ mean' = checkpoint.mean /\ offset' = checkpoint.offset /\ scale' = checkpoint.scale
          /\ count' = checkpoint.count /\ avg' = checkpoint.avg
          /\ noised' = FALSE /\ genState' = 0
        BY <2>1 DEF Resume
    <3>2. noised' \in BOOLEAN
        BY <3>1, Zenon
    <3>3. drawn' = drawn
        BY <1>6 DEF Crash
    <3> QED
        BY <2>1, <3>1, <3>2, <3>3 DEF StoredOK, OptimizerTypes, IvonTypeOK
  <2>2. StoredOK(Scratch)
      BY ListedEmpty DEF StoredOK, Scratch
  <2>3. \A checkpoint \in Latest : StoredOK(checkpoint)
      BY DEF FileTypes, Latest
  <2>4. CASE UNCHANGED <<noiseVars, mean, scale, statVars>>
      BY <2>4 DEF OptimizerTypes, IvonTypeOK, noiseVars, statVars
  <2> QED
      BY <1>6, <2>1, <2>2, <2>3, <2>4 DEF Crash, Load
<1>7. CASE Start \/ Test \/ Validate \/ NextStep \/ SyncWeights \/ Generate \/ Union \/ NextMiniBatch
             \/ SaveBegin \/ SaveStep \/ EndStep \/ NextSample \/ StepDone \/ Ended \/ UNCHANGED vars
    BY <1>1, <1>7 DEF Start, Test, Validate, NextStep, SyncWeights, Generate, Union, NextMiniBatch,
           SaveBegin, SaveStep, EndStep, NextSample, StepDone, Ended, vars
<1>8. CASE NoiseActor \/ DenoiseActor \/ NoiseAgain \/ Restore
    BY <1>1, <1>2, <1>3, <1>8 DEF NoiseActor, DenoiseActor, NoiseAgain, Restore
<1> QED
    BY <1>4, <1>5, <1>6, <1>7, <1>8 DEF Next

\* Rotation leaves folders it had, as they were.
LEMMA RotationTypes ==
    ASSUME FileTypes, NEW saved \in Seq(1..TotalSteps), NEW n \in Nat \ {0}, KeepNewest(saved, n),
           tracker' = tracker
    PROVE  FileTypes'
<1> USE TrainingAssumption
<1>1. PICK k : k = Dropped(saved, n)
    OBVIOUS
<1>2. saved \in Seq(Nat)
    OBVIOUS
<1>3. /\ k \in 0..Len(saved)
      /\ paths' \in Seq(Nat) /\ Len(paths') = Len(saved) - k
      /\ \A i \in 1..Len(paths') : paths'[i] = saved[i + k]
    BY <1>1, <1>2, NewestKept, SMTT(30)
<1>4. \A i \in 1..Len(paths') : paths'[i] \in 1..TotalSteps
  <2> SUFFICES ASSUME NEW i \in 1..Len(paths') PROVE paths'[i] \in 1..TotalSteps
      OBVIOUS
  <2>1. Len(saved) \in Nat
      OBVIOUS
  <2>2. i + k \in 1..Len(saved)
      BY <1>3, <2>1
  <2>3. saved[i + k] \in 1..TotalSteps
      BY <2>2, ElementOfSeq
  <2>4. paths'[i] = saved[i + k]
      BY <1>3
  <2> QED
      BY <2>3, <2>4
<1>5. paths' \in Seq(1..TotalSteps)
  <2>1. Len(paths') \in Nat /\ paths' \in [1..Len(paths') -> Nat]
      BY <1>3, LenProperties
  <2>2. paths' \in [1..Len(paths') -> 1..TotalSteps]
      BY <1>4, <2>1
  <2> QED
      BY <2>1, <2>2, SeqDef
<1>6. disk' = [s \in DOMAIN disk \ Range(SubSeq(saved, 1, Len(saved) - n)) |-> disk[s]]
    BY DEF KeepNewest, Restrict
<1> QED
    BY <1>5, <1>6 DEF FileTypes

\* The files keep to their types: a checkpoint is what the optimizer has.
LEMMA FilesNext == ASSUME TrainingInv, [Next]_vars PROVE FileTypes'
<1> USE TrainingAssumption DEF TrainingInv
<1>1. CASE UNCHANGED fileVars
    BY <1>1 DEF FileTypes, fileVars
<1>2. CASE MakeRoom
  <2>1. CASE UNCHANGED fileVars
      BY <1>1, <2>1
  <2>2. CASE Keep > 1 /\ KeepNewest(paths, Keep - 1)
    <3>1. Keep - 1 \in Nat \ {0} /\ tracker' = tracker /\ paths \in Seq(1..TotalSteps)
        BY <1>2, <2>2, KeepAssumption DEF MakeRoom, FileTypes
    <3> QED
        BY <2>2, <3>1, RotationTypes
  <2> QED
      BY <1>2, <2>1, <2>2 DEF MakeRoom, fileVars
<1>3. CASE SaveStep
  <2>0. global_steps \in 1..TotalSteps
      BY <1>3 DEF SaveStep, SaveFiles, Goto, LoopTypes, PlaceTypes, InStep, Under
  <2> USE DEF CheckpointStep
  <2>1. CASE OpenFolder(global_steps)
    <3>1. /\ disk' = [s \in DOMAIN disk \union {global_steps} |-> IF s = global_steps THEN {} ELSE disk[s]]
          /\ UNCHANGED <<paths, tracker>>
        BY <2>1 DEF OpenFolder
    <3> QED
        BY <2>0, <3>1, AtMostOne DEF FileTypes
  <2>2. CASE WriteFolder(global_steps, Checkpoint)
    <3>1. disk' = [disk EXCEPT ![global_steps] = {Checkpoint}] /\ UNCHANGED <<paths, tracker>>
        BY <2>2 DEF WriteFolder
    <3>2. StoredOK(Checkpoint)
        BY DEF StoredOK, Checkpoint, OptimizerTypes, IvonTypeOK
    <3>3. Cardinality({Checkpoint}) <= 1
        BY AtMostOne
    <3>4. ASSUME NEW step \in DOMAIN disk'
          PROVE  Cardinality(disk'[step]) <= 1 /\ \A checkpoint \in disk'[step] : StoredOK(checkpoint)
      <4>1. step \in DOMAIN disk /\ disk'[step] = IF step = global_steps THEN {Checkpoint} ELSE disk[step]
          BY <3>1
      <4> QED
          BY <3>2, <3>3, <4>1 DEF FileTypes
    <3> QED
        BY <3>1, <3>4 DEF FileTypes
  <2>3. CASE Register(global_steps)
    <3> DEFINE saved == Append(paths, global_steps)
    <3>1. saved \in Seq(1..TotalSteps)
        BY <2>0 DEF FileTypes
    <3>2. tracker' = tracker
        BY <2>3 DEF Register
    <3>3. CASE Keep > 0
      <4>1. Keep \in Nat \ {0} /\ KeepNewest(saved, Keep)
          BY <2>3, <3>3, KeepAssumption DEF Register
      <4> QED
          BY <3>1, <3>2, <4>1, RotationTypes
    <3>4. CASE ~(Keep > 0)
      <4>1. paths' = saved /\ disk' = disk
          BY <2>3, <3>4 DEF Register
      <4> QED
          BY <3>1, <3>2, <4>1 DEF FileTypes
    <3> QED
        BY <3>3, <3>4
  <2>4. CASE EmptyTheTracker \/ WriteTracker(global_steps)
    <3>1. tracker' \in {-1, global_steps} /\ UNCHANGED <<disk, paths>>
        BY <2>4 DEF EmptyTheTracker, WriteTracker, EmptyTracker
    <3> QED
        BY <2>0, <3>1 DEF FileTypes
  <2> QED
      BY <1>3, <2>1, <2>2, <2>3, <2>4 DEF SaveStep, SaveFiles
<1>4. CASE Crash
  <2>1. UNCHANGED <<disk, tracker>> /\ paths' = <<>>
      BY <1>4 DEF Crash
  <2> QED
      BY <2>1 DEF FileTypes
<1>5. CASE SaveBegin
    BY <1>1, <1>2, <1>5 DEF SaveBegin
<1>6. CASE Start \/ Test \/ Validate \/ NextStep \/ NoiseActor \/ SyncWeights \/ Generate \/ DenoiseActor
             \/ Union \/ NoiseAgain \/ (\E finite \in BOOLEAN : Backward(finite)) \/ Restore
  <2>1. UNCHANGED fileVars
      BY <1>6 DEF Start, Test, Validate, NextStep, NoiseActor, SyncWeights, Generate,
             DenoiseActor, Union, NoiseAgain, Backward, Restore
  <2> QED
      BY <1>1, <2>1
<1>7. CASE TakeStep \/ NextMiniBatch \/ UpdateActorDone \/ EndStep \/ NextSample \/ StepDone
             \/ Ended \/ UNCHANGED vars
  <2>1. UNCHANGED fileVars
      BY <1>7 DEF TakeStep, NextMiniBatch, UpdateActorDone, EndStep, NextSample, StepDone, Ended, vars
  <2> QED
      BY <1>1, <2>1
<1> QED
    BY <1>3, <1>4, <1>5, <1>6, <1>7 DEF Next

\* Within a step the number of the step is one of those to be made.
LEMMA PlaceNext == ASSUME TrainingInv, [Next]_vars, ~Crash PROVE PlaceTypes'
<1> USE TrainingAssumption DEF TrainingInv, LoopTypes, PlaceTypes, InStep, Under, AroundSteps, Dead, Goto
<1>1. CASE Start \/ Test \/ Validate
    BY <1>1 DEF Start, Test, Validate
<1>2. CASE NextStep
    BY <1>2 DEF NextStep
<1>3. CASE NoiseActor \/ SyncWeights \/ Generate \/ DenoiseActor \/ Union \/ NoiseAgain
    BY <1>3 DEF NoiseActor, SyncWeights, Generate, DenoiseActor, Union, NoiseAgain
<1>4. CASE Restore \/ TakeStep \/ \E finite \in BOOLEAN : Backward(finite)
    BY <1>4 DEF Backward, Restore, TakeStep, OptimizerStep
<1>5. CASE NextMiniBatch \/ UpdateActorDone
    BY <1>5 DEF NextMiniBatch, UpdateActorDone
<1>6. CASE SaveBegin
    BY <1>6 DEF SaveBegin
<1>7. CASE SaveStep
    BY <1>7 DEF SaveStep, SaveFiles
<1>8. CASE EndStep \/ NextSample \/ StepDone
    BY <1>8 DEF EndStep, NextSample, StepDone
<1>9. CASE Ended \/ UNCHANGED vars
    BY <1>9 DEF Ended, vars
<1> QED
    BY <1>1, <1>2, <1>3, <1>4, <1>5, <1>6, <1>7, <1>8, <1>9 DEF Next

\* The loop counters stay in their loops.
LEMMA CounterNext == ASSUME TrainingInv, [Next]_vars, ~Crash PROVE CounterTypes'
<1> USE TrainingAssumption DEF TrainingInv, LoopTypes, CounterTypes, Goto, counterVars
<1>1. CASE Start \/ Test \/ Validate
    BY <1>1 DEF Start, Test, Validate
<1>2. CASE NextStep
    BY <1>2 DEF NextStep
<1>3. CASE NoiseActor \/ SyncWeights \/ Generate
    BY <1>3 DEF NoiseActor, SyncWeights, Generate
<1>4. CASE DenoiseActor
    BY <1>4 DEF DenoiseActor
<1>5. CASE Union
    BY <1>5 DEF Union
<1>12. CASE NoiseAgain
    BY <1>12 DEF NoiseAgain
<1>6. CASE Restore \/ TakeStep \/ \E finite \in BOOLEAN : Backward(finite)
    BY <1>6 DEF Backward, Restore, TakeStep, OptimizerStep
<1>7. CASE NextMiniBatch
    BY <1>7 DEF NextMiniBatch
<1>8. CASE UpdateActorDone
  <2>1. /\ pc = "loop" /\ decoupled' = decoupled + 1 /\ miniBatch' = 1
        /\ pc' = IF decoupled < DecoupledSamples THEN "noiseAgain" ELSE "save"
        /\ UNCHANGED <<mc, chunk, miniBatches>>
      BY <1>8 DEF UpdateActorDone
  <2>2. decoupled \in 1..DecoupledSamples /\ 1 \in 1..miniBatches
      BY <2>1
  <2> QED
      BY <2>1, <2>2
<1>9. CASE SaveBegin \/ SaveStep
    BY <1>9 DEF SaveBegin, SaveStep, SaveFiles
<1>10. CASE EndStep \/ NextSample \/ StepDone
    BY <1>10 DEF EndStep, NextSample, StepDone
<1>11. CASE Ended \/ UNCHANGED vars
    BY <1>11 DEF Ended, vars
<1> QED
    BY <1>1, <1>2, <1>3, <1>4, <1>5, <1>6, <1>7, <1>8, <1>9, <1>10, <1>11, <1>12 DEF Next

LEMMA LoopNext == ASSUME TrainingInv, [Next]_vars PROVE LoopTypes'
<1>1. CASE ~Crash
  <2>1. engine' = engine \/ engine' = {} \/ engine' = {Weights}
      BY <1>1 DEF Next, Start, Test, Validate, NextStep, NoiseActor, SyncWeights, Generate,
             DenoiseActor, Union, NoiseAgain, Backward, Restore, TakeStep, NextMiniBatch,
             UpdateActorDone, SaveBegin, SaveStep, EndStep, NextSample, StepDone, Ended, vars
  <2>2. Cardinality(engine') <= 1
      BY <2>1, AtMostOne DEF TrainingInv, LoopTypes
  <2>3. skipped' = skipped \/ (pc = "step" /\ skipped' = skipped \union {global_steps})
    <3>1. CASE TakeStep
        BY <3>1 DEF TakeStep, OptimizerStep
    <3>2. CASE ~TakeStep
        BY <1>1, <3>2 DEF Next, Start, Test, Validate, NextStep, NoiseActor, SyncWeights, Generate,
             DenoiseActor, Union, NoiseAgain, Backward, Restore, NextMiniBatch, UpdateActorDone,
             SaveBegin, SaveStep, EndStep, NextSample, StepDone, Ended, vars, historyVars
    <3> QED
        BY <3>1, <3>2
  <2>4. pc = "step" => global_steps \in 1..TotalSteps
      BY DEF TrainingInv, LoopTypes, PlaceTypes, InStep, Under
  <2>5. skipped' \subseteq 1..TotalSteps
      BY <2>3, <2>4 DEF TrainingInv, LoopTypes
  <2> QED
      BY <1>1, <2>2, <2>5, PlaceNext, CounterNext DEF LoopTypes
<1>2. CASE Crash
  <2> USE TrainingAssumption DEF TrainingInv, LoopTypes, PlaceTypes, CounterTypes, InStep, Under,
           AroundSteps, Dead
  <2>1. UNCHANGED <<miniBatches, skipped>> /\ 1 \in 1..miniBatches
      BY <1>2 DEF Crash
  <2>2. ASSUME NEW step \in 0..TotalSteps, NEW checkpoint, Resume(step, checkpoint)
        PROVE  LoopTypes'
    <3>1. /\ pc' = "start" /\ global_steps' = step /\ engine' = {}
          /\ mc' = 1 /\ chunk' = 1 /\ decoupled' = 1 /\ miniBatch' = 1
        BY <2>2 DEF Resume
    <3> QED
        BY <2>1, <3>1, AtMostOne
  <2>3. CASE Resume(0, Scratch)
      BY <2>2, <2>3
  <2>4. ASSUME NEW checkpoint \in Latest, Resume(tracker, checkpoint)
        PROVE  LoopTypes'
    <3>1. tracker \in 0..TotalSteps
        BY <2>4 DEF Latest, FileTypes
    <3> QED
        BY <2>2, <2>4, <3>1
  <2>5. CASE /\ pc' = "unloadable"
             /\ UNCHANGED <<global_steps, mc, chunk, decoupled, miniBatch, engine>>
      BY <2>1, <2>5
  <2> QED
      BY <1>2, <2>3, <2>4, <2>5 DEF Crash, Load
<1> QED
    BY <1>1, <1>2

LEMMA TrainingAlways == Spec => []TrainingInv
<1>1. Init => TrainingInv
    BY TrainingInit
<1>2. TrainingInv /\ [Next]_vars => TrainingInv'
    BY OptimizerNext, FilesNext, LoopNext DEF TrainingInv
<1> QED
    BY <1>1, <1>2, PTL DEF Spec

\* Every variable of the optimizer, the files and the loop holds a value of its kind,
\* for every method and schedule and after any crash: what WriteFolder saves is what
\* Resume can take, and the loop counters of fit and update_policy stay in their loops.
THEOREM TrainingTypesCorrect == Spec => []TrainingTypeOK
<1>1. ASSUME TrainingInv PROVE TrainingTypeOK
  <2>1. Range(paths) \subseteq 1..TotalSteps
    <3>1. paths \in [1..Len(paths) -> 1..TotalSteps]
        BY <1>1, LenProperties DEF TrainingInv, FileTypes
    <3> QED
        BY <3>1 DEF Range
  <2> QED
      BY <1>1, <2>1 DEF TrainingInv, OptimizerTypes, FileTypes, LoopTypes, PlaceTypes, CounterTypes,
             TrainingTypeOK, InStep, Under, AroundSteps
<1> QED
    BY <1>1, TrainingAlways, PTL

-----------------------------------------------------------------------------
(* How far a job falls back *)

\* Quotient and remainder.
LEMMA DivFacts ==
    ASSUME NEW a \in Nat, NEW n \in Nat \ {0}
    PROVE  /\ a \div n \in Nat
           /\ a % n \in 0..(n - 1)
           /\ a = n * (a \div n) + (a % n)
<1>1. a % n \in 0..(n - 1)
    BY SMT
<1>2. a \div n \in Int
    BY SMT
<1>3. a = n * (a \div n) + (a % n)
    BY SMT
<1>4. a \div n \in Nat
    BY <1>1, <1>2, <1>3, SMT
<1> QED
    BY <1>1, <1>3, <1>4

\* Quotient and remainder are the only numbers of their kind.
LEMMA DivUnique ==
    ASSUME NEW n \in Nat \ {0}, NEW q \in Int, NEW r \in 0..(n - 1),
           NEW p \in Int, NEW s \in 0..(n - 1), n * q + r = n * p + s
    PROVE  q = p /\ r = s
<1>1. CASE q < p
  <2>1. n * (q + 1) <= n * p
      BY <1>1
  <2>2. n * (q + 1) = n * q + n
      OBVIOUS
  <2> QED
      BY <2>1, <2>2
<1>2. CASE p < q
  <2>1. n * (p + 1) <= n * q
      BY <1>2
  <2>2. n * (p + 1) = n * p + n
      OBVIOUS
  <2> QED
      BY <2>1, <2>2
<1>3. CASE p = q
    BY <1>3
<1> QED
    BY <1>1, <1>2, <1>3

\* Counting on, the remainder grows by one or starts again at zero.
LEMMA NextRemainder ==
    ASSUME NEW a \in Nat, NEW n \in Nat \ {0}
    PROVE  (a + 1) % n \in {0, (a % n) + 1}
<1> DEFINE q == a \div n
<1> DEFINE r == a % n
<1> DEFINE p == (a + 1) \div n
<1> DEFINE s == (a + 1) % n
<1>1. q \in Nat /\ r \in 0..(n - 1) /\ a = n * q + r
    BY DivFacts
<1>2. p \in Nat /\ s \in 0..(n - 1) /\ a + 1 = n * p + s
  <2>1. a + 1 \in Nat
      OBVIOUS
  <2> QED
      BY <2>1, DivFacts
<1> HIDE DEF q, r, p, s
<1>3. CASE r < n - 1
  <2>1. r + 1 \in 0..(n - 1) /\ n * q + (r + 1) = n * p + s
      BY <1>1, <1>2, <1>3
  <2>2. r + 1 = s
      BY <1>1, <1>2, <2>1, DivUnique
  <2> QED
      BY <2>2 DEF r, s
<1>4. CASE r = n - 1
  <2>1. n * (q + 1) = n * q + n
      BY <1>1
  <2>2. n * (q + 1) + 0 = n * p + s
      BY <1>1, <1>2, <1>4, <2>1
  <2>3. q + 1 \in Int /\ 0 \in 0..(n - 1) /\ p \in Int
      BY <1>1, <1>2
  <2>4. 0 = s
      BY <1>2, <2>2, <2>3, DivUnique
  <2> QED
      BY <2>4 DEF s
<1> QED
    BY <1>1, <1>3, <1>4

\* A job is behind its checkpoint by as many steps as save_freq had not asked to be saved.
RecoveryInv ==
    /\ tracker = EmptyTracker => pc \in {"track", "unloadable"}
    /\ pc = "track" => tracker = EmptyTracker
    /\ tracker # EmptyTracker =>
          /\ pc \in Under \union {"truncate", "done", "raised"} =>
                global_steps - tracker <= ((global_steps - 1) % SaveFreq) + 1
          /\ pc \in AroundSteps \union {"saved", "sampled", "unbound"} =>
                global_steps - tracker <= global_steps % SaveFreq
          /\ pc = "unloadable" => global_steps - tracker <= SaveFreq

\* In every case that is save_freq steps at most.
LEMMA BehindBySaveFreq == ASSUME TrainingInv, RecoveryInv PROVE RecoveryPoint
<1>0. /\ global_steps \in Nat /\ tracker \in -1..TotalSteps /\ tracker \in Int
      /\ SaveFreq \in Nat \ {0}
      /\ pc \in InStep \union AroundSteps \union Dead
    BY TrainingAssumption DEF TrainingInv, LoopTypes, PlaceTypes, FileTypes
<1>1. global_steps % SaveFreq < SaveFreq
    BY <1>0, DivFacts
<1>2. global_steps > 0 => ((global_steps - 1) % SaveFreq) + 1 <= SaveFreq
  <2> SUFFICES ASSUME global_steps > 0
               PROVE  ((global_steps - 1) % SaveFreq) + 1 <= SaveFreq
      OBVIOUS
  <2>1. global_steps - 1 \in Nat
      BY <1>0
  <2>2. (global_steps - 1) % SaveFreq \in 0..(SaveFreq - 1)
      BY <1>0, <2>1, DivFacts
  <2> QED
      BY <1>0, <2>2
<1>3. tracker # EmptyTracker => global_steps - tracker <= SaveFreq
  <2> SUFFICES ASSUME tracker # EmptyTracker PROVE global_steps - tracker <= SaveFreq
      OBVIOUS
  <2>1. tracker \in Nat
      BY <1>0 DEF EmptyTracker
  <2>2. CASE global_steps = 0
      BY <1>0, <2>1, <2>2
  <2>3. CASE global_steps > 0
    <3>1. (global_steps - 1) % SaveFreq \in Int /\ global_steps % SaveFreq \in Int
        BY <1>0, <2>3, DivFacts
    <3>2. \/ global_steps - tracker <= ((global_steps - 1) % SaveFreq) + 1
          \/ global_steps - tracker <= global_steps % SaveFreq
          \/ global_steps - tracker <= SaveFreq
        BY <1>0 DEF RecoveryInv, InStep, AroundSteps, Dead
    <3> QED
        BY <1>0, <1>1, <1>2, <2>1, <2>3, <3>1, <3>2
  <2> QED
      BY <1>0, <2>2, <2>3
<1> QED
    BY <1>3 DEF RecoveryInv, RecoveryPoint

LEMMA RecoveryInit == ASSUME Init PROVE RecoveryInv
<1>1. pc = "start" /\ global_steps = 0 /\ tracker = 0
    BY DEF Init, FilesInit, NoTracker
<1>2. 0 <= 0 % SaveFreq
    BY TrainingAssumption, DivFacts
<1> QED
    BY <1>1, <1>2 DEF RecoveryInv, EmptyTracker, Under, AroundSteps

\* The next step, and the one after it, are at most one further from the checkpoint.
LEMMA RecoveryNextStep == ASSUME TrainingInv, RecoveryInv, NextStep PROVE RecoveryInv'
<1>1. /\ pc = "next" /\ pc' \in {"done", "noise"} /\ global_steps' = global_steps + 1
      /\ tracker' = tracker
    BY DEF NextStep, Goto, fileVars
<1>2. global_steps \in Nat /\ tracker \in Int
    BY DEF TrainingInv, LoopTypes, PlaceTypes, FileTypes
<1>3. tracker # EmptyTracker /\ global_steps - tracker <= global_steps % SaveFreq
    BY <1>1 DEF RecoveryInv, AroundSteps
<1>4. global_steps % SaveFreq \in Nat
    BY <1>2, TrainingAssumption, DivFacts
<1>5. global_steps' - 1 = global_steps
    BY <1>1, <1>2
<1>6. global_steps' - tracker' <= ((global_steps' - 1) % SaveFreq) + 1
    BY <1>1, <1>2, <1>3, <1>4, <1>5
<1> QED
    BY <1>1, <1>3, <1>6 DEF RecoveryInv, EmptyTracker, Under, AroundSteps

\* the other steps that save nothing
LEMMA RecoveryDriver ==
    ASSUME TrainingInv, RecoveryInv, UNCHANGED <<global_steps, tracker>>,
           \/ pc \in Under /\ pc' \in (Under \union {"raised"}) \ {"open"}
           \/ pc = "save" /\ pc' = "open"
           \/ pc \in AroundSteps \union {"saved", "sampled"}
                 /\ pc' \in AroundSteps \union {"sampled", "unbound"}
           \/ pc = "sampled" /\ pc' = "noise"
    PROVE  RecoveryInv'
<1>1. global_steps \in Nat /\ (pc = "sampled" => global_steps \in Nat \ {0}) /\ tracker \in Int
    BY DEF TrainingInv, LoopTypes, PlaceTypes, FileTypes, InStep
<1>2. tracker # EmptyTracker
    BY DEF RecoveryInv, Under, AroundSteps
<1>3. CASE pc = "sampled" /\ pc' = "noise"
  <2>1. global_steps - 1 \in Nat /\ (global_steps - 1) + 1 = global_steps
      BY <1>1, <1>3
  <2>2. /\ global_steps % SaveFreq \in {0, ((global_steps - 1) % SaveFreq) + 1}
        /\ (global_steps - 1) % SaveFreq \in Nat /\ global_steps % SaveFreq \in Nat
    <3>1. SaveFreq \in Nat \ {0}
        BY TrainingAssumption
    <3>2. ((global_steps - 1) + 1) % SaveFreq \in {0, ((global_steps - 1) % SaveFreq) + 1}
        BY <2>1, <3>1, NextRemainder
    <3>3. (global_steps - 1) % SaveFreq \in 0..(SaveFreq - 1)
        BY <2>1, <3>1, DivFacts
    <3>4. global_steps % SaveFreq \in 0..(SaveFreq - 1)
        BY <1>1, <3>1, DivFacts
    <3> QED
        BY <2>1, <3>1, <3>2, <3>3, <3>4
  <2>3. global_steps - tracker <= global_steps % SaveFreq
      BY <1>2, <1>3 DEF RecoveryInv
  <2>4. global_steps - tracker <= ((global_steps - 1) % SaveFreq) + 1
      BY <1>1, <2>2, <2>3
  <2> QED
      BY <1>2, <1>3, <2>4 DEF RecoveryInv, Under, AroundSteps
<1>4. CASE ~(pc = "sampled" /\ pc' = "noise")
    BY <1>2, <1>4 DEF RecoveryInv, Under, AroundSteps
<1> QED
    BY <1>3, <1>4

LEMMA RecoverySave == ASSUME TrainingInv, RecoveryInv, SaveBegin \/ SaveStep PROVE RecoveryInv'
<1>1. global_steps' = global_steps /\ SaveFreq \in Nat \ {0}
    BY TrainingAssumption DEF SaveBegin, SaveStep
<1>2. global_steps \in Nat \ {0} /\ tracker \in Int
    BY DEF SaveBegin, SaveStep, SaveFiles, Goto, TrainingInv, LoopTypes, PlaceTypes, FileTypes,
           InStep, Under
<1>3. global_steps % SaveFreq \in Nat
    BY <1>1, <1>2, DivFacts
<1>4. CASE SaveBegin
  <2>1. pc = "save" /\ tracker' = tracker
      BY <1>4 DEF SaveBegin, MakeRoom, fileVars
  <2>2. tracker # EmptyTracker /\ global_steps - tracker <= ((global_steps - 1) % SaveFreq) + 1
      BY <2>1 DEF RecoveryInv, Under
  <2>3. CASE pc' = "open"
      BY <1>1, <2>1, <2>3, RecoveryDriver
  <2>4. CASE pc' = "saved" /\ \E esi \in BOOLEAN : ~SaveDue(esi)
    <3>1. global_steps % SaveFreq # 0
        BY <2>4 DEF SaveDue
    <3>2. global_steps - 1 \in Nat /\ (global_steps - 1) + 1 = global_steps
        BY <1>2
    <3>3. ((global_steps - 1) + 1) % SaveFreq \in {0, ((global_steps - 1) % SaveFreq) + 1}
        BY <1>1, <3>2, NextRemainder
    <3>4. global_steps % SaveFreq = ((global_steps - 1) % SaveFreq) + 1
        BY <3>1, <3>2, <3>3
    <3>5. global_steps - tracker <= global_steps % SaveFreq
        BY <2>2, <3>4
    <3> QED
        BY <1>1, <2>1, <2>2, <2>4, <3>5 DEF RecoveryInv, Under, AroundSteps
  <2> QED
      BY <1>4, <2>3, <2>4 DEF SaveBegin
<1>5. CASE SaveStep
  <2>1. CASE pc = "truncate"
    <3>1. pc' = "track" /\ tracker' = EmptyTracker
        BY <1>5, <2>1 DEF SaveStep, SaveFiles, Goto, EmptyTheTracker
    <3> QED
        BY <3>1 DEF RecoveryInv
  <2>2. CASE pc = "track"
    <3>1. pc' = "saved" /\ tracker' = global_steps
        BY <1>5, <2>2 DEF SaveStep, SaveFiles, Goto, WriteTracker, CheckpointStep
    <3> QED
        BY <1>1, <1>2, <1>3, <3>1 DEF RecoveryInv, EmptyTracker, Under, AroundSteps
  <2>3. CASE pc \in {"open", "write", "register"}
    <3>1. pc' \in {"write", "register", "truncate"} /\ tracker' = tracker
        BY <1>5, <2>3 DEF SaveStep, SaveFiles, Goto, OpenFolder, WriteFolder, Register
    <3> QED
        BY <1>1, <2>3, <3>1 DEF RecoveryInv, Under, AroundSteps
  <2> QED
      BY <1>5, <2>1, <2>2, <2>3 DEF SaveStep, SaveFiles, Goto
<1> QED
    BY <1>4, <1>5

LEMMA RecoveryCrash == ASSUME TrainingInv, RecoveryInv, Crash PROVE RecoveryInv'
<1>1. tracker' = tracker /\ pc \notin Dead
    BY DEF Crash
<1>2. global_steps \in Nat /\ tracker \in Int /\ SaveFreq \in Nat \ {0}
    BY TrainingAssumption DEF TrainingInv, LoopTypes, PlaceTypes, FileTypes
<1>3. ASSUME NEW checkpoint, Resume(tracker, checkpoint), tracker \in Nat
      PROVE  RecoveryInv'
  <2>1. pc' = "start" /\ global_steps' = tracker
      BY <1>3 DEF Resume
  <2>2. tracker % SaveFreq \in Nat /\ tracker - tracker <= tracker % SaveFreq
      BY <1>2, <1>3, DivFacts
  <2> QED
      BY <1>1, <1>3, <2>1, <2>2 DEF RecoveryInv, EmptyTracker, Under, AroundSteps
<1>4. CASE tracker = NoTracker /\ Resume(0, Scratch)
    BY <1>3, <1>4 DEF NoTracker
<1>5. ASSUME NEW checkpoint \in Latest, Resume(tracker, checkpoint)
      PROVE  RecoveryInv'
  <2>1. tracker \in Nat
      BY <1>5 DEF Latest, TrainingInv, FileTypes
  <2> QED
      BY <1>3, <1>5, <2>1
<1>6. CASE pc' = "unloadable" /\ global_steps' = global_steps
  <2>1. RecoveryPoint
      BY BehindBySaveFreq
  <2> QED
      BY <1>1, <1>6, <2>1 DEF RecoveryInv, RecoveryPoint, Under, AroundSteps
<1> QED
    BY <1>4, <1>5, <1>6 DEF Crash, Load

LEMMA RecoveryNext == ASSUME TrainingInv, RecoveryInv, [Next]_vars PROVE RecoveryInv'
<1>1. CASE Start \/ Test \/ Validate \/ EndStep \/ NextSample \/ StepDone
  <2>1. UNCHANGED <<global_steps, tracker>>
      BY <1>1 DEF Start, Test, Validate, EndStep, NextSample, StepDone, fileVars
  <2>2. \/ /\ pc \in AroundSteps \union {"saved", "sampled"}
           /\ pc' \in AroundSteps \union {"sampled", "unbound"}
        \/ pc = "sampled" /\ pc' = "noise"
      BY <1>1 DEF Start, Test, Validate, EndStep, NextSample, StepDone, Goto, AroundSteps
  <2> QED
      BY <2>1, <2>2, RecoveryDriver
<1>2. CASE NoiseActor \/ SyncWeights \/ Generate \/ DenoiseActor \/ Union \/ NoiseAgain
             \/ (\E finite \in BOOLEAN : Backward(finite)) \/ Restore \/ TakeStep
             \/ NextMiniBatch \/ UpdateActorDone
  <2>1. UNCHANGED <<global_steps, tracker>>
      BY <1>2 DEF NoiseActor, SyncWeights, Generate, DenoiseActor, Union, NoiseAgain, Backward,
             Restore, TakeStep, NextMiniBatch, UpdateActorDone, fileVars
  <2>2. pc \in Under /\ pc' \in (Under \union {"raised"}) \ {"open"}
      BY <1>2 DEF NoiseActor, SyncWeights, Generate, DenoiseActor, Union, NoiseAgain, Backward,
             Restore, TakeStep, OptimizerStep, NextMiniBatch, UpdateActorDone, Goto, Under
  <2> QED
      BY <2>1, <2>2, RecoveryDriver
<1>3. CASE Ended \/ UNCHANGED vars
    BY <1>3 DEF Ended, vars, fileVars, RecoveryInv
<1> QED
    BY <1>1, <1>2, <1>3, RecoveryNextStep, RecoverySave, RecoveryCrash DEF Next

\* Whatever is saved when, and wherever a save is cut short, a job that can start again repeats
\* save_freq steps at most; one that cannot died between emptying the tracker file and
\* writing it. Nothing is assumed of the constants: the rotation has no part in it.
THEOREM FewStepsAreRepeated == Spec => []RecoveryPoint
<1>1. Init => RecoveryInv
    BY RecoveryInit
<1>2. TrainingInv /\ RecoveryInv /\ [Next]_vars => RecoveryInv'
    BY RecoveryNext
<1>3. TrainingInv /\ RecoveryInv => RecoveryPoint
    BY BehindBySaveFreq
<1> QED
    BY <1>1, <1>2, <1>3, TrainingAlways, PTL DEF Spec

-----------------------------------------------------------------------------
\* Noise, samples and steps

\* where the parameters are the mean
AtMean == {"start", "test", "validate", "next", "noise", "step", "loop", "save", "open", "write",
           "register", "truncate", "track", "saved", "sampled"}

Between == {"start", "test", "validate", "next", "unloadable"}

\* the actor is updated from the first step on
NoWarmup == CriticWarmup <= 1

NoiseInv ==
    /\ noised \in BOOLEAN
    /\ global_steps \in Nat /\ chunk \in Nat \ {0} /\ DOMAIN disk \subseteq Nat
    /\ pc \notin Between => global_steps > 0
    /\ RestoresMean
    /\ pc \in AtMean => ~noised
    /\ pc # "unbound"
    /\ \A step \in DOMAIN disk : \A checkpoint \in disk[step] : checkpoint.offset = {}
    /\ pc = "validate" => engine = {[mean |-> mean, offset |-> {}]}

\* Perturbing the mean adds one vector; perturbed parameters are left alone.
LEMMA SampleExact ==
    ASSUME RestoresMean, noised \in BOOLEAN, SampleParams
    PROVE  RestoresMean' /\ noised' = TRUE
<1>1. CASE noised /\ UNCHANGED ivonVars
    BY <1>1 DEF RestoresMean, ivonVars, noiseVars
<1>2. CASE ~noised
  <2>1. offset = {}
      BY <1>2 DEF RestoresMean
  <2>2. offset' = {<<drawn + 1, scale>>}
      BY <1>2, <2>1 DEF SampleParams, Plus
  <2>3. genState' = drawn + 1 /\ scale' = scale /\ noised' = TRUE
      BY <1>2 DEF SampleParams
  <2> QED
      BY <2>2, <2>3 DEF RestoresMean
<1> QED
    BY <1>1, <1>2 DEF SampleParams

\* Restoring leaves the mean, whether or not it was perturbed.
LEMMA RestoreExact ==
    ASSUME RestoresMean, noised \in BOOLEAN, NEW train \in BOOLEAN,
           RestoreParamAverage(train)
    PROVE  RestoresMean' /\ noised' = FALSE
<1>1. CASE ~noised /\ UNCHANGED ivonVars
    BY <1>1 DEF RestoresMean, ivonVars, noiseVars
<1>2. CASE noised
  <2>1. offset = {<<genState, scale>>}
      BY <1>2 DEF RestoresMean
  <2>2. offset' = {}
      BY <1>2, <2>1 DEF RestoreParamAverage, Minus
  <2>3. noised' = FALSE
      BY <1>2 DEF RestoreParamAverage
  <2> QED
      BY <2>2, <2>3 DEF RestoresMean
<1> QED
    BY <1>1, <1>2 DEF RestoreParamAverage

LEMMA NoiseInit == Init => NoiseInv
<1> SUFFICES ASSUME Init PROVE NoiseInv
    OBVIOUS
<1>1. noised = FALSE /\ offset = {} /\ pc = "start" /\ global_steps = 0 /\ chunk = 1
    BY DEF Init, IvonInit
<1>2. disk = <<>> /\ DOMAIN disk = {}
    BY DEF Init, FilesInit
<1>3. noised \in BOOLEAN
    BY <1>1, Zenon
<1>4. RestoresMean
    BY <1>1 DEF RestoresMean
<1> QED
    BY <1>1, <1>2, <1>3, <1>4 DEF NoiseInv, Between, AtMean

\* the steps that leave the optimizer alone
LEMMA DriverStep ==
    ASSUME NoWarmup, NoiseInv, UNCHANGED ivonVars,
           Start \/ Test \/ Validate \/ NextStep \/ SyncWeights \/ Generate \/ Union
             \/ NextMiniBatch \/ EndStep \/ NextSample \/ StepDone
    PROVE  NoiseInv'
<1> USE TrainingAssumption DEF NoiseInv, Goto, counterVars, fileVars
<1>1. /\ UNCHANGED <<noised, genState, drawn, offset, mean, scale>>
      /\ RestoresMean'
    BY DEF ivonVars, noiseVars, RestoresMean
<1>2. pc \in AtMean => offset = {}
    BY DEF RestoresMean
<1>3. CASE Start
    BY <1>1, <1>3 DEF Start, Between, AtMean
<1>4. CASE Test
  <2>1. Weights = [mean |-> mean, offset |-> {}]
      BY <1>2, <1>4 DEF Test, AtMean, Weights
  <2> QED
      BY <1>1, <1>4, <2>1 DEF Test, Between, AtMean
<1>5. CASE Validate
    BY <1>1, <1>5 DEF Validate, Between, AtMean
<1>6. CASE NextStep
    BY <1>1, <1>6 DEF NextStep, Between, AtMean
<1>7. CASE SyncWeights
    BY <1>1, <1>7 DEF SyncWeights, Between, AtMean
<1>8. CASE Generate
    BY <1>1, <1>8 DEF Generate, Between, AtMean
<1>9. CASE Union
    BY <1>1, <1>9 DEF Union, Between, AtMean
<1>10. CASE NextMiniBatch
    BY <1>1, <1>10 DEF NextMiniBatch, Between, AtMean
<1>11. CASE EndStep
  <2>1. /\ pc = "saved" /\ pc' \in {"sampled", "unbound"} /\ global_steps > 0
        /\ pc' = "unbound" => CriticWarmup > global_steps
      BY <1>11 DEF EndStep, Between
  <2>2. pc' = "sampled"
      BY <2>1 DEF NoWarmup
  <2> QED
      BY <1>1, <1>11, <2>1, <2>2 DEF EndStep, Between, AtMean
<1>12. CASE NextSample
    BY <1>1, <1>12 DEF NextSample, Between, AtMean
<1>13. CASE StepDone
    BY <1>1, <1>13 DEF StepDone, Between, AtMean
<1> QED
    BY <1>3, <1>4, <1>5, <1>6, <1>7, <1>8, <1>9, <1>10, <1>11, <1>12, <1>13

\* the steps of a save
LEMMA SaveKeepsMean ==
    ASSUME NoiseInv, SaveBegin \/ SaveStep
    PROVE  NoiseInv'
<1>1. /\ UNCHANGED <<noised, genState, offset, scale, mean, global_steps, chunk, engine>>
      /\ RestoresMean'
    BY DEF SaveBegin, SaveStep, ivonVars, noiseVars, counterVars, NoiseInv, RestoresMean
<1>2. pc \in AtMean /\ pc' \in AtMean \ Between /\ pc \notin Between
    BY DEF SaveBegin, SaveStep, SaveFiles, Goto, AtMean, Between
<1>3. offset = {}
    BY <1>2 DEF NoiseInv, RestoresMean
<1>4. /\ DOMAIN disk' \subseteq Nat
      /\ \A step \in DOMAIN disk' : \A checkpoint \in disk'[step] : checkpoint.offset = {}
  <2> USE DEF NoiseInv
  <2>1. CASE disk' = disk
      BY <2>1
  <2>2. ASSUME NEW kept \in SUBSET DOMAIN disk, disk' = Restrict(disk, kept)
        PROVE  <1>4!1 /\ <1>4!2
      BY <2>2 DEF Restrict
  <2>3. CASE OpenFolder(CheckpointStep)
      BY <2>3 DEF OpenFolder, CheckpointStep
  <2>4. CASE WriteFolder(CheckpointStep, Checkpoint)
      BY <1>3, <2>4 DEF WriteFolder, Checkpoint
  <2>5. \A list, n : KeepNewest(list, n) =>
            \E kept \in SUBSET DOMAIN disk : disk' = Restrict(disk, kept)
      BY DEF KeepNewest
  <2>6. \/ disk' = disk
        \/ \E kept \in SUBSET DOMAIN disk : disk' = Restrict(disk, kept)
        \/ OpenFolder(CheckpointStep)
        \/ WriteFolder(CheckpointStep, Checkpoint)
    <3>1. CASE SaveBegin
        BY <2>5, <3>1 DEF SaveBegin, MakeRoom, fileVars
    <3>2. CASE SaveStep
        BY <2>5, <3>2 DEF SaveStep, SaveFiles, Register, EmptyTheTracker, WriteTracker
    <3> QED
        BY <3>1, <3>2
  <2> QED
      BY <2>1, <2>2, <2>3, <2>4, <2>6
<1>5. noised' \in BOOLEAN
    BY <1>1 DEF NoiseInv
<1>6. ~noised'
    BY <1>1, <1>2 DEF NoiseInv
<1>7. global_steps' > 0 /\ global_steps' \in Nat /\ chunk' \in Nat \ {0}
    BY <1>1, <1>2 DEF NoiseInv
<1>8. pc' \notin {"validate", "unbound"}
    BY <1>2 DEF AtMean, Between
<1> QED
    BY <1>1, <1>4, <1>5, <1>6, <1>7, <1>8 DEF NoiseInv

\* the steps that perturb or restore
LEMMA NoiseStep ==
    ASSUME NoWarmup, NoiseInv, NoiseActor \/ DenoiseActor \/ NoiseAgain \/ Restore
    PROVE  NoiseInv'
<1> USE DEF NoiseInv, Goto, counterVars, fileVars
<1>0. CriticWarmup \in Nat
    BY TrainingAssumption
<1>1. CASE NoiseActor
  <2>1. RestoresMean' /\ noised' = TRUE
      BY <1>1, SampleExact DEF NoiseActor
  <2>2. noised' \in BOOLEAN
      BY <2>1, Zenon
  <2> QED
      BY <1>1, <2>1, <2>2 DEF NoiseActor, Between, AtMean
<1>2. CASE DenoiseActor
  <2>1. RestoresMean' /\ noised' \in BOOLEAN /\ (pc' = "noise" => ~noised')
    <3>1. CASE RolloutOnly \/ Chunks > 1
      <4>1. RestoreParamAverage(FALSE)
          BY <1>2, <3>1 DEF DenoiseActor
      <4>2. RestoresMean' /\ noised' = FALSE
          BY <4>1, RestoreExact
      <4>3. noised' \in BOOLEAN
          BY <4>2, Zenon
      <4> QED
          BY <4>2, <4>3
    <3>2. CASE ~(RolloutOnly \/ Chunks > 1)
      <4>1. UNCHANGED ivonVars
          BY <1>2, <3>2 DEF DenoiseActor
      <4>2. UNCHANGED <<noised, genState, offset, scale>>
          BY <4>1 DEF ivonVars, noiseVars
      <4>3. pc' # "noise"
          BY <1>2, <3>2, TrainingAssumption DEF DenoiseActor
      <4>4. RestoresMean' /\ noised' \in BOOLEAN
          BY <4>2 DEF RestoresMean
      <4> QED
          BY <4>3, <4>4 DEF RestoresMean
    <3> QED
        BY <3>1, <3>2
  <2> QED
      BY <1>2, <2>1 DEF DenoiseActor, Between, AtMean
<1>3. CASE NoiseAgain
  <2>1. SampleParams \/ UNCHANGED ivonVars
      BY <1>3 DEF NoiseAgain
  <2>2. RestoresMean' /\ noised' \in BOOLEAN
    <3>1. CASE SampleParams
      <4>1. RestoresMean' /\ noised' = TRUE
          BY <3>1, SampleExact
      <4>2. noised' \in BOOLEAN
          BY <4>1, Zenon
      <4> QED
          BY <4>1, <4>2
    <3>2. CASE UNCHANGED ivonVars
        BY <3>2 DEF ivonVars, noiseVars, RestoresMean
    <3> QED
        BY <2>1, <3>1, <3>2
  <2>3. pc = "noiseAgain" /\ pc' = "backward"
    <3>1. pc = "noiseAgain" /\ global_steps > 0
        BY <1>3 DEF NoiseAgain, Between
    <3>2. CriticWarmup <= global_steps
        BY <1>0, <3>1 DEF NoWarmup
    <3> QED
        BY <1>3, <3>1, <3>2 DEF NoiseAgain
  <2> QED
      BY <1>0, <1>3, <2>2, <2>3 DEF NoiseAgain, Between, AtMean
<1>4. CASE Restore
  <2>1. RestoresMean' /\ noised' = FALSE
      BY <1>4, RestoreExact DEF Restore
  <2>2. noised' \in BOOLEAN
      BY <2>1, Zenon
  <2> QED
      BY <1>4, <2>1, <2>2 DEF Restore, Between, AtMean
<1> QED
    BY <1>1, <1>2, <1>3, <1>4

\* ess and the Hessian change only where the parameters are the mean.
LEMMA UpdateStep ==
    ASSUME NoiseInv, (\E finite \in BOOLEAN : Backward(finite)) \/ TakeStep \/ UpdateActorDone
    PROVE  NoiseInv'
<1> USE DEF NoiseInv, Goto, counterVars, fileVars
<1>1. ASSUME NEW finite \in BOOLEAN, Backward(finite)
      PROVE  NoiseInv'
  <2>1. UNCHANGED <<noised, genState, offset, scale, mean, global_steps, disk, engine>>
      BY <1>1 DEF Backward, noiseVars
  <2>2. RestoresMean'
      BY <2>1 DEF RestoresMean
  <2> QED
      BY <1>1, <2>1, <2>2 DEF Backward, Between, AtMean
<1>2. CASE TakeStep
  <2>1. noised' = noised /\ offset' = offset /\ pc' \in {"loop", "raised"}
      BY <1>2 DEF TakeStep, OptimizerStep, Step, ivonVars, noiseVars
  <2>2. pc = "step" /\ ~noised /\ offset = {}
      BY <1>2 DEF TakeStep, AtMean, RestoresMean
  <2>3. RestoresMean'
      BY <2>1, <2>2 DEF RestoresMean
  <2> QED
      BY <1>2, <2>1, <2>2, <2>3 DEF TakeStep, Between, AtMean
<1>3. CASE UpdateActorDone
  <2>1. noised' = noised /\ offset' = offset /\ pc' \in {"noiseAgain", "save"}
      BY <1>3 DEF UpdateActorDone, noiseVars
  <2>2. pc = "loop" /\ ~noised /\ offset = {}
      BY <1>3 DEF UpdateActorDone, AtMean, RestoresMean
  <2>3. RestoresMean'
      BY <2>1, <2>2 DEF RestoresMean
  <2> QED
      BY <1>3, <2>1, <2>2, <2>3 DEF UpdateActorDone, Between, AtMean
<1> QED
    BY <1>1, <1>2, <1>3

LEMMA CrashStep == ASSUME NoiseInv, Crash PROVE NoiseInv'
<1>1. disk' = disk /\ pc \notin Dead
    BY DEF Crash
<1>2. ASSUME NEW step \in Nat, NEW checkpoint, checkpoint.offset = {}, Resume(step, checkpoint)
      PROVE  NoiseInv'
  <2>1. /\ noised' = FALSE /\ offset' = {} /\ pc' = "start"
        /\ global_steps' = step /\ chunk' = 1
      BY <1>2 DEF Resume
  <2>2. noised' \in BOOLEAN
      BY <2>1, Zenon
  <2>3. RestoresMean'
      BY <2>1 DEF RestoresMean
  <2> QED
      BY <1>1, <2>1, <2>2, <2>3 DEF NoiseInv, Between, AtMean
<1>3. CASE Resume(0, Scratch)
    BY <1>2, <1>3 DEF Scratch
<1>4. ASSUME NEW checkpoint \in Latest, Resume(tracker, checkpoint)
      PROVE  NoiseInv'
  <2>1. tracker \in DOMAIN disk /\ checkpoint \in disk[tracker]
      BY <1>4 DEF Latest
  <2>2. tracker \in Nat /\ checkpoint.offset = {}
      BY <2>1 DEF NoiseInv
  <2> QED
      BY <1>2, <1>4, <2>2
<1>5. ASSUME pc' = "unloadable",
             UNCHANGED <<noiseVars, scale, global_steps, chunk>>
      PROVE  NoiseInv'
  <2>1. RestoresMean'
      BY <1>5 DEF NoiseInv, RestoresMean, noiseVars
  <2> QED
      BY <1>1, <1>5, <2>1 DEF NoiseInv, Between, AtMean, noiseVars
<1> QED
    BY <1>3, <1>4, <1>5 DEF Crash, Load

LEMMA NoiseNext == ASSUME NoWarmup, NoiseInv, [Next]_vars PROVE NoiseInv'
<1>1. CASE Start \/ Test \/ Validate \/ NextStep \/ SyncWeights \/ Generate \/ Union
             \/ NextMiniBatch \/ EndStep \/ NextSample \/ StepDone
  <2>1. UNCHANGED ivonVars
      BY <1>1 DEF Start, Test, Validate, NextStep, SyncWeights, Generate, Union,
                  NextMiniBatch, EndStep, NextSample, StepDone
  <2> QED
      BY <1>1, <2>1, DriverStep
<1>2. CASE NoiseActor \/ DenoiseActor \/ NoiseAgain \/ Restore
    BY <1>2, NoiseStep
<1>3. CASE (\E finite \in BOOLEAN : Backward(finite)) \/ TakeStep \/ UpdateActorDone
    BY <1>3, UpdateStep
<1>4. CASE Crash
    BY <1>4, CrashStep
<1>5. CASE SaveBegin \/ SaveStep
    BY <1>5, SaveKeepsMean
<1>6. CASE UNCHANGED vars
    BY <1>6 DEF vars, ivonVars, noiseVars, counterVars, fileVars, NoiseInv, RestoresMean
<1> QED
    BY <1>1, <1>2, <1>3, <1>4, <1>5, <1>6 DEF Next, Ended

LEMMA NoiseAlways == ASSUME NoWarmup PROVE Spec => []NoiseInv
<1> QED
    BY NoiseInit, NoiseNext, PTL DEF Spec

\* Unless the actor sits out a warmup, restoring takes away exactly what was added, in
\* every algorithm, whatever the schedules do and wherever the job crashes
\* (_sample_params and _restore_param_average regenerate one noise).
THEOREM RestoreTakesAwayWhatWasAdded == ASSUME NoWarmup PROVE Spec => []RestoresMean
<1>1. NoiseInv => RestoresMean
    BY DEF NoiseInv
<1> QED
    BY <1>1, NoiseAlways, PTL

\* Likewise every checkpoint on disk and every validation has the mean.
THEOREM NoiseStaysInside == ASSUME NoWarmup PROVE Spec => []MeanOnly
<1>1. NoiseInv => MeanOnly
    BY DEF NoiseInv, MeanOnly
<1> QED
    BY <1>1, NoiseAlways, PTL

-----------------------------------------------------------------------------
(* One sample for each step *)

\* with a single sample per step, from its draw to the step made with it
PerturbedGrad == \A j \in DOMAIN grad : grad[j].at.offset # {}

AppliedPerturbed == \A i \in DOMAIN applied : \A j \in DOMAIN applied[i] :
                        applied[i][j].at.offset # {}

NotRaised == pc # "raised"

SampleInv ==
    /\ miniBatch = 1 /\ miniBatches = 1 /\ decoupled \in Nat \ {0}
    /\ pc \in {"sync", "generate", "denoise", "union", "noiseAgain", "backward", "restore"}
         => count = 0
    /\ pc \in {"sync", "generate", "denoise", "backward", "restore"} => noised
    /\ pc \in {"union", "noiseAgain"} /\ ~(Chunks > 1) => noised
    /\ pc \in {"restore", "step"} => PerturbedGrad
    /\ pc = "step" => count = 1
    /\ NotRaised
    /\ AppliedPerturbed

OneSample == /\ TrainSamples = 1 /\ MiniBatches = 1
             /\ Chunks > 1 \/ ~RolloutOnly

LEMMA OneSampleFacts ==
    ASSUME OneSample
    PROVE  SingleSample /\ M3poM = 1 /\ DecoupledSamples = 1 /\ ~IsMcSample
BY TrainingAssumption DEF OneSample, SingleSample, IsMcSample

LEMMA SampleInit == ASSUME OneSample, Init PROVE SampleInv
<1>1. pc = "start" /\ miniBatch = 1 /\ decoupled = 1 /\ applied = <<>>
    BY DEF Init
<1>2. miniBatches = 1
    BY DEF Init, OneSample
<1> QED
    BY <1>1, <1>2 DEF SampleInv, NotRaised, AppliedPerturbed

\* the steps that neither perturb, restore nor update
LEMMA SampleDriver ==
    ASSUME OneSample, SampleInv, UNCHANGED ivonVars,
           Start \/ Test \/ Validate \/ NextStep \/ SyncWeights \/ Generate \/ Union
             \/ NextMiniBatch \/ SaveBegin \/ SaveStep \/ EndStep \/ NextSample \/ StepDone
    PROVE  SampleInv'
<1>1. UNCHANGED <<noised, count, grad, applied, miniBatch, miniBatches>>
  <2>1. UNCHANGED <<noised, count, grad>>
      BY DEF ivonVars, noiseVars, statVars
  <2>2. ~NextMiniBatch
      BY DEF OneSample, SampleInv, NextMiniBatch
  <2>3. UNCHANGED <<applied, miniBatch, miniBatches>>
      BY <2>2 DEF SampleInv, Start, Test, Validate, NextStep, SyncWeights, Generate, Union,
             SaveBegin, SaveStep, EndStep, NextSample, StepDone, counterVars, historyVars
  <2> QED
      BY <2>1, <2>3
<1>2. PerturbedGrad' <=> PerturbedGrad
    BY <1>1 DEF PerturbedGrad
<1>3. AppliedPerturbed'
    BY <1>1 DEF SampleInv, AppliedPerturbed
<1>4. decoupled' \in Nat \ {0}
    BY DEF SampleInv, Start, Test, Validate, NextStep, SyncWeights, Generate, Union,
           NextMiniBatch, SaveBegin, SaveStep, EndStep, NextSample, StepDone, counterVars
<1>5. \/ pc' \notin {"sync", "generate", "denoise", "union", "noiseAgain", "backward",
                     "restore", "step", "raised"}
      \/ pc = "sync" /\ pc' = "generate"
      \/ pc = "generate" /\ pc' = "denoise"
      \/ pc = "union" /\ pc' = "noiseAgain"
  <2>1. ~NextMiniBatch
      BY DEF OneSample, SampleInv, NextMiniBatch
  <2>2. CASE Start \/ Test \/ Validate \/ NextStep \/ NextSample \/ StepDone
      BY <2>2 DEF Start, Test, Validate, NextStep, NextSample, StepDone, Goto
  <2>3. CASE SyncWeights \/ Generate \/ Union
    <3>1. SyncWeights => pc = "sync" /\ pc' = "generate"
        BY DEF SyncWeights, Goto
    <3>2. Generate => pc = "generate" /\ pc' = "denoise"
        BY DEF Generate, Goto
    <3>3. Union => pc = "union" /\ pc' = "noiseAgain"
        BY DEF Union, Goto
    <3> QED
        BY <2>3, <3>1, <3>2, <3>3
  <2>4. CASE SaveBegin \/ SaveStep \/ EndStep
      BY <2>4 DEF SaveBegin, SaveStep, SaveFiles, EndStep, Goto
  <2> QED
      BY <2>1, <2>2, <2>3, <2>4
<1> QED
    BY <1>1, <1>2, <1>3, <1>4, <1>5 DEF SampleInv, NotRaised

LEMMA SampleNoise ==
    ASSUME OneSample, NoiseInv, SampleInv, NoiseActor \/ DenoiseActor \/ NoiseAgain \/ Restore
    PROVE  SampleInv'
<1>1. UNCHANGED <<grad, applied, miniBatch, miniBatches, decoupled>>
    BY DEF NoiseActor, DenoiseActor, NoiseAgain, Restore, SampleParams, RestoreParamAverage,
           ivonVars, counterVars, historyVars
<1>2. AppliedPerturbed' /\ (PerturbedGrad' <=> PerturbedGrad)
    BY <1>1 DEF SampleInv, AppliedPerturbed, PerturbedGrad
<1>3. CASE NoiseActor
  <2>1. ~noised /\ pc' = "sync"
      BY <1>3 DEF NoiseActor, NoiseInv, Goto, AtMean
  <2>2. noised' /\ count' = 0
      BY <1>3, <2>1, OneSampleFacts DEF NoiseActor, SampleParams
  <2> QED
      BY <1>1, <1>2, <2>1, <2>2 DEF SampleInv, NotRaised
<1>4. CASE DenoiseActor
  <2>1. pc = "denoise" /\ pc' \in {"noise", "union"} /\ count = 0
      BY <1>4 DEF DenoiseActor, Goto, SampleInv
  <2>2. count' = 0
      BY <1>4, <2>1 DEF DenoiseActor, RestoreParamAverage, ivonVars, statVars
  <2>3. ~(Chunks > 1) => noised'
      BY <1>4, <2>1 DEF DenoiseActor, OneSample, SampleInv, ivonVars, noiseVars
  <2> QED
      BY <1>1, <1>2, <2>1, <2>2, <2>3 DEF SampleInv, NotRaised
<1>5. CASE NoiseAgain
  <2>1. pc = "noiseAgain" /\ pc' \in {"backward", "save"} /\ count = 0
      BY <1>5 DEF NoiseAgain, Goto, SampleInv
  <2>2. count' = 0
      BY <1>5, <2>1 DEF NoiseAgain, SampleParams, ivonVars, statVars
  <2>3. noised'
    <3>1. CASE Chunks > 1
        BY <1>5, <3>1 DEF NoiseAgain, SampleParams, ivonVars, noiseVars
    <3>2. CASE ~(Chunks > 1)
      <4>1. noised
          BY <2>1, <3>2 DEF SampleInv
      <4>2. UNCHANGED ivonVars
          BY <1>5, <4>1 DEF NoiseAgain, SampleParams
      <4> QED
          BY <4>1, <4>2 DEF ivonVars, noiseVars
    <3> QED
        BY <3>1, <3>2
  <2> QED
      BY <1>1, <1>2, <2>1, <2>2, <2>3 DEF SampleInv, NotRaised
<1>6. CASE Restore
  <2>1. pc = "restore" /\ pc' \in {"step", "loop"} /\ count = 0 /\ noised /\ PerturbedGrad
      BY <1>6 DEF Restore, Goto, SampleInv
  <2>2. count' = 1
      BY <1>6, <2>1 DEF Restore, RestoreParamAverage
  <2> QED
      BY <1>1, <1>2, <2>1, <2>2 DEF SampleInv, NotRaised
<1> QED
    BY <1>3, <1>4, <1>5, <1>6

LEMMA SampleUpdate ==
    ASSUME OneSample, NoiseInv, SampleInv,
           (\E finite \in BOOLEAN : Backward(finite)) \/ TakeStep \/ UpdateActorDone \/ Crash
    PROVE  SampleInv'
<1>1. ASSUME NEW finite \in BOOLEAN, Backward(finite)
      PROVE  SampleInv'
  <2>1. /\ pc = "backward" /\ pc' = "restore"
        /\ UNCHANGED <<noised, count, applied, miniBatch, miniBatches, decoupled>>
      BY <1>1 DEF Backward, Goto, noiseVars, statVars, counterVars
  <2>2. noised /\ count = 0
      BY <2>1 DEF SampleInv
  <2>3. offset # {}
      BY <2>2 DEF NoiseInv, RestoresMean
  <2>4. grad' = <<Gradient(finite)>>
      BY <1>1, OneSampleFacts DEF Backward
  <2>5. Gradient(finite).at.offset # {}
      BY <2>3 DEF Gradient, Weights
  <2>6. PerturbedGrad'
      BY <2>4, <2>5 DEF PerturbedGrad
  <2>7. AppliedPerturbed'
      BY <2>1 DEF SampleInv, AppliedPerturbed
  <2> QED
      BY <2>1, <2>2, <2>6, <2>7 DEF SampleInv, NotRaised
<1>2. CASE TakeStep
  <2>1. pc = "step" /\ count = 1 /\ PerturbedGrad /\ CanUpdate
      BY <1>2, OneSampleFacts DEF TakeStep, SampleInv, CanUpdate
  <2>2. pc' = "loop" /\ UNCHANGED <<miniBatch, miniBatches, decoupled>>
      BY <1>2, <2>1 DEF TakeStep, OptimizerStep, counterVars
  <2>3. applied' = applied \/ applied' = <<grad>>
      BY <1>2, OneSampleFacts DEF TakeStep, OptimizerStep, Collected
  <2>4. AppliedPerturbed'
    <3>1. CASE applied' = <<grad>>
        BY <2>1, <3>1 DEF AppliedPerturbed, PerturbedGrad
    <3>2. CASE applied' = applied
        BY <3>2 DEF SampleInv, AppliedPerturbed
    <3> QED
        BY <2>3, <3>1, <3>2
  <2> QED
      BY <2>2, <2>4 DEF SampleInv, NotRaised
<1>3. CASE UpdateActorDone
  <2>1. pc' = "save"
      BY <1>3, OneSampleFacts DEF UpdateActorDone, SampleInv
  <2>2. miniBatch' = 1 /\ miniBatches' = miniBatches /\ decoupled' = decoupled + 1 /\ applied' = applied
      BY <1>3 DEF UpdateActorDone, historyVars
  <2>3. AppliedPerturbed'
      BY <2>2 DEF SampleInv, AppliedPerturbed
  <2> QED
      BY <2>1, <2>2, <2>3 DEF SampleInv, NotRaised
<1>4. CASE Crash
  <2>1. ASSUME NEW step, NEW checkpoint, Resume(step, checkpoint)
        PROVE  SampleInv'
    <3>1. /\ pc' = "start" /\ miniBatch' = 1 /\ decoupled' = 1 /\ applied' = <<>>
          /\ miniBatches' = 1
        BY <1>4, <2>1 DEF Resume, Crash, SampleInv
    <3> QED
        BY <3>1 DEF SampleInv, NotRaised, AppliedPerturbed
  <2>2. CASE pc' = "unloadable" /\ UNCHANGED <<miniBatch, decoupled, applied>>
    <3>1. miniBatches' = miniBatches
        BY <1>4 DEF Crash
    <3> QED
        BY <2>2, <3>1 DEF SampleInv, NotRaised, AppliedPerturbed
  <2> QED
      BY <1>4, <2>1, <2>2 DEF Crash, Load
<1> QED
    BY <1>1, <1>2, <1>3, <1>4

\* B3PO as the recipe runs it and C3PO: whatever gradients are skipped and wherever
\* the job crashes, step() finds its one sample, and never moves the mean by a
\* gradient taken without a perturbation.
THEOREM EveryStepHasItsSample ==
    ASSUME OneSample, NoWarmup
    PROVE  Spec => []StepHasItsSample
<1>1. Init => SampleInv
    BY SampleInit
<1>2. ASSUME NoiseInv, SampleInv, [Next]_vars
      PROVE  SampleInv'
  <2>1. CASE Start \/ Test \/ Validate \/ NextStep \/ SyncWeights \/ Generate \/ Union
               \/ NextMiniBatch \/ SaveBegin \/ SaveStep \/ EndStep \/ NextSample \/ StepDone
    <3>1. UNCHANGED ivonVars
        BY <2>1 DEF Start, Test, Validate, NextStep, SyncWeights, Generate, Union,
                    NextMiniBatch, SaveBegin, SaveStep, EndStep, NextSample, StepDone
    <3> QED
        BY <1>2, <2>1, <3>1, SampleDriver
  <2>2. CASE NoiseActor \/ DenoiseActor \/ NoiseAgain \/ Restore
      BY <1>2, <2>2, SampleNoise
  <2>3. CASE (\E finite \in BOOLEAN : Backward(finite)) \/ TakeStep \/ UpdateActorDone \/ Crash
      BY <1>2, <2>3, SampleUpdate
  <2>4. CASE UNCHANGED vars
      BY <1>2, <2>4 DEF vars, ivonVars, noiseVars, statVars, counterVars, historyVars,
             SampleInv, PerturbedGrad, NotRaised, AppliedPerturbed
  <2> QED
      BY <1>2, <2>1, <2>2, <2>3, <2>4 DEF Next, Ended
<1>3. SampleInv => StepHasItsSample
    BY DEF SampleInv, NotRaised, AppliedPerturbed, StepHasItsSample, StepNeverRaises,
           UnperturbedNeverApplied
<1> QED
    BY <1>1, <1>2, <1>3, NoiseAlways, PTL DEF Spec

-----------------------------------------------------------------------------
(* Each step once *)

\* one sample a step is saved, and the actor is updated from the first step on
OneSave == NoWarmup /\ M3poM = 1

Rolling == {"noise", "sync", "generate", "denoise", "union", "noiseAgain"}
Updating == {"backward", "restore", "step", "loop"}
Saving == {"save", "open", "write", "register", "truncate", "track", "saved", "sampled"}

InOrder(m) == \A i, j \in DOMAIN m : i < j => m[i] < m[j]
UpTo(m, n) == \A i \in DOMAIN m : m[i] <= n
Covers(m, n) == 1..n \subseteq Range(m) \union skipped

\* nothing is left that step() would accept
Spent == ~noised /\ IF SingleSample THEN count = 0 ELSE avg = <<>>

StepsInv ==
    /\ InOrder(mean) /\ UpTo(mean, global_steps)
    /\ \A step \in DOMAIN disk : \A checkpoint \in disk[step] :
          /\ InOrder(checkpoint.mean)
          /\ UpTo(checkpoint.mean, step)
          /\ Covers(checkpoint.mean, step)
    /\ pc \in Rolling \union Updating => Covers(mean, global_steps - 1)
    /\ pc \in Saving \union AroundSteps => Covers(mean, global_steps)
    /\ pc \in Rolling => UpTo(mean, global_steps - 1)
    /\ pc \in Updating => UpTo(mean, global_steps - 1) \/ (TakesStep /\ Spent)
    /\ pc = "step" => TakesStep
    /\ pc = "loop" /\ TakesStep => Covers(mean, global_steps)

\* the sets of places do not meet
LEMMA PlacesApart ==
    /\ Rolling \intersect Updating = {} /\ Rolling \intersect Saving = {}
    /\ Updating \intersect Saving = {} /\ AroundSteps \intersect InStep = {}
    /\ Dead \intersect InStep = {} /\ Dead \intersect AroundSteps = {}
    /\ InStep = Rolling \union Updating \union Saving
    /\ {"step", "loop"} \subseteq Updating
BY DEF Rolling, Updating, Saving, AroundSteps, InStep, Under, Dead

LEMMA StepsInit == ASSUME Init PROVE StepsInv
<1>1. mean = <<>> /\ DOMAIN mean = {} /\ pc = "start" /\ global_steps = 0 /\ disk = <<>> /\ DOMAIN disk = {}
    BY DEF Init, IvonInit, FilesInit
<1>2. 1..0 = {}
    OBVIOUS
<1> QED
    BY <1>1, <1>2 DEF StepsInv, InOrder, UpTo, Covers, Rolling, Updating

\* the steps that neither update nor write a folder
LEMMA StepsDriver ==
    ASSUME StepsInv, UNCHANGED <<mean, skipped, global_steps, disk>>,
           \/ pc \in Rolling /\ pc' \in Rolling
           \/ pc \in Rolling /\ pc' = "backward"
           \/ pc \in Saving \union AroundSteps /\ pc' \in Saving \union AroundSteps \union Dead
    PROVE  StepsInv'
<1>1. /\ InOrder(mean)' /\ UpTo(mean, global_steps)'
      /\ UpTo(mean, global_steps - 1) => UpTo(mean, global_steps - 1)'
      /\ Covers(mean, global_steps) => Covers(mean, global_steps)'
      /\ Covers(mean, global_steps - 1) => Covers(mean, global_steps - 1)'
    BY DEF StepsInv, InOrder, UpTo, Covers
<1>2. \A step \in DOMAIN disk' : \A checkpoint \in disk'[step] :
          /\ InOrder(checkpoint.mean)
          /\ UpTo(checkpoint.mean, step)
          /\ Covers(checkpoint.mean, step)'
    BY DEF StepsInv, Covers
<1>3. CASE pc \in Rolling /\ pc' \in Rolling
  <2>1. pc' \notin Updating \union Saving \union AroundSteps
      BY <1>3, PlacesApart
  <2> QED
      BY <1>1, <1>2, <1>3, <2>1, PlacesApart DEF StepsInv
<1>4. CASE pc \in Rolling /\ pc' = "backward"
  <2>1. pc' \in Updating /\ pc' \notin {"step", "loop"} /\ pc' \notin Rolling \union Saving \union AroundSteps
      BY <1>4, PlacesApart DEF Updating
  <2> QED
      BY <1>1, <1>2, <1>4, <2>1, PlacesApart DEF StepsInv
<1>5. CASE pc \in Saving \union AroundSteps /\ pc' \in Saving \union AroundSteps \union Dead
  <2>1. pc' \notin Rolling \union Updating
      BY <1>5, PlacesApart
  <2> QED
      BY <1>1, <1>2, <1>5, <2>1, PlacesApart DEF StepsInv
<1> QED
    BY <1>3, <1>4, <1>5

LEMMA StepsNextStep == ASSUME TrainingInv, StepsInv, NextStep PROVE StepsInv'
<1>1. /\ pc = "next" /\ pc' \in {"done", "noise"} /\ global_steps' = global_steps + 1
      /\ UNCHANGED <<mean, skipped, disk>>
    BY DEF NextStep, Goto, ivonVars, historyVars, fileVars
<1>2. pc \in AroundSteps /\ pc' \notin Updating \union Saving \union AroundSteps
    BY <1>1 DEF Updating, Saving, AroundSteps
<1>3. InOrder(mean) /\ UpTo(mean, global_steps) /\ Covers(mean, global_steps)
    BY <1>2 DEF StepsInv
<1>4. global_steps \in Nat /\ global_steps' - 1 = global_steps
    BY <1>1 DEF TrainingInv, LoopTypes, PlaceTypes
<1>5. InOrder(mean)' /\ UpTo(mean, global_steps - 1)' /\ Covers(mean, global_steps - 1)'
    BY <1>1, <1>3, <1>4 DEF InOrder, UpTo, Covers
<1>6. UpTo(mean, global_steps)'
  <2> SUFFICES ASSUME NEW i \in DOMAIN mean PROVE mean[i] <= global_steps + 1
      BY <1>1 DEF UpTo
  <2>1. mean \in [1..Len(mean) -> Nat]
      BY LenProperties DEF TrainingInv, OptimizerTypes, IvonTypeOK
  <2>2. mean[i] \in Nat /\ mean[i] <= global_steps
      BY <1>3, <2>1 DEF UpTo
  <2> QED
      BY <1>4, <2>2
<1>7. \A step \in DOMAIN disk' : \A checkpoint \in disk'[step] :
          /\ InOrder(checkpoint.mean)
          /\ UpTo(checkpoint.mean, step)
          /\ Covers(checkpoint.mean, step)'
    BY <1>1 DEF StepsInv, Covers
<1> QED
    BY <1>2, <1>5, <1>6, <1>7, PlacesApart DEF StepsInv

\* Backward and the restoring after it leave what step() has done, and what it left.
LEMMA StepsRestore ==
    ASSUME NoiseInv, TrainingInv, StepsInv, Restore \/ (\E finite \in BOOLEAN : Backward(finite)) \/ NextMiniBatch
    PROVE  StepsInv'
<1>1. /\ UNCHANGED <<mean, skipped, global_steps, disk, mc, decoupled>>
      /\ pc \in Updating /\ pc' \in Updating
      /\ pc' = "loop" => ~TakesStep
      /\ pc' = "step" => TakesStep
    BY DEF Restore, Backward, NextMiniBatch, RestoreParamAverage, Goto, Updating, counterVars,
           historyVars, fileVars, ivonVars
<1>2. Spent => Spent'
  <2>1. CASE UNCHANGED ivonVars
      BY <2>1 DEF Spent, ivonVars, noiseVars, statVars
  <2>2. ASSUME NEW finite \in BOOLEAN, Backward(finite) PROVE Spent => Spent'
      BY <2>2 DEF Spent, Backward, noiseVars, statVars
  <2>3. CASE Restore /\ ~UNCHANGED ivonVars
      BY <2>3 DEF Spent, Restore, RestoreParamAverage
  <2>4. NextMiniBatch => UNCHANGED ivonVars
      BY DEF NextMiniBatch
  <2> QED
      BY <2>1, <2>2, <2>3, <2>4
<1>3. TakesStep' <=> TakesStep
    BY <1>1 DEF TakesStep
<1>4. /\ InOrder(mean)' /\ UpTo(mean, global_steps)'
      /\ UpTo(mean, global_steps - 1) => UpTo(mean, global_steps - 1)'
      /\ Covers(mean, global_steps - 1)'
    BY <1>1 DEF StepsInv, InOrder, UpTo, Covers
<1>5. \A step \in DOMAIN disk' : \A checkpoint \in disk'[step] :
          /\ InOrder(checkpoint.mean)
          /\ UpTo(checkpoint.mean, step)
          /\ Covers(checkpoint.mean, step)'
    BY <1>1 DEF StepsInv, Covers
<1>6. pc' \notin Rolling \union Saving \union AroundSteps
    BY <1>1, PlacesApart
<1> QED
    BY <1>1, <1>2, <1>3, <1>4, <1>5, <1>6 DEF StepsInv

\* The update is made once: after it step() has no sample it would accept.
LEMMA StepsTakeStep == ASSUME NoiseInv, TrainingInv, StepsInv, TakeStep PROVE StepsInv'
<1>1. /\ pc = "step" /\ pc' \in {"loop", "raised"}
      /\ UNCHANGED <<global_steps, disk, mc, decoupled>>
    BY DEF TakeStep, OptimizerStep, counterVars, fileVars
<1>2. pc \in Updating /\ pc \in InStep /\ ~noised
    BY <1>1 DEF Updating, InStep, Under, NoiseInv, AtMean
<1>3. global_steps \in Nat \ {0} /\ mean \in Seq(Nat)
    BY <1>2 DEF TrainingInv, LoopTypes, PlaceTypes, OptimizerTypes, IvonTypeOK
<1>4. mean \in [1..Len(mean) -> Nat] /\ Len(mean) \in Nat
    BY <1>3, LenProperties
<1>5. pc' \notin Rolling \union Saving \union AroundSteps
    BY <1>1 DEF Rolling, Saving, AroundSteps
<1>6. /\ InOrder(mean) /\ UpTo(mean, global_steps) /\ Covers(mean, global_steps - 1)
      /\ UpTo(mean, global_steps - 1) \/ (TakesStep /\ Spent)
    BY <1>2 DEF StepsInv
<1>7. TakesStep => TakesStep'
    BY <1>1 DEF TakesStep
<1>8. ASSUME skipped \subseteq skipped', mean' = mean \/ mean' = Append(mean, global_steps)
      PROVE  /\ Covers(mean, global_steps - 1)'
             /\ \A step \in DOMAIN disk' : \A checkpoint \in disk'[step] :
                   /\ InOrder(checkpoint.mean)
                   /\ UpTo(checkpoint.mean, step)
                   /\ Covers(checkpoint.mean, step)'
  <2>1. Range(mean) \subseteq Range(mean')
      BY <1>3, <1>4, <1>8 DEF Range
  <2>2. Covers(mean, global_steps - 1)'
      BY <1>1, <1>6, <1>8, <2>1 DEF Covers
  <2> QED
      BY <1>1, <1>8, <2>2 DEF StepsInv, Covers
<1>9. CASE Step(global_steps) /\ pc' = "loop" /\ UNCHANGED skipped
  <2>1. CanUpdate /\ ~Spent
      BY <1>9 DEF Step, CanUpdate, Spent
  <2>2. UpTo(mean, global_steps - 1) /\ mean' = Append(mean, global_steps)
      BY <1>6, <1>9, <2>1 DEF Step
  <2>3. Spent'
    <3>1. noised' = noised /\ count' = 0 /\ avg' = <<>>
        BY <1>9 DEF Step
    <3> QED
        BY <1>2, <3>1 DEF Spent
  <2>4. /\ DOMAIN mean' = 1..(Len(mean) + 1) /\ mean'[Len(mean) + 1] = global_steps
        /\ \A i \in 1..Len(mean) : mean'[i] = mean[i] /\ mean[i] \in Nat /\ mean[i] <= global_steps - 1
      BY <1>3, <1>4, <2>2, SMTT(30) DEF UpTo
  <2>5. InOrder(mean')
    <3> SUFFICES ASSUME NEW i \in DOMAIN mean', NEW j \in DOMAIN mean', i < j
                 PROVE  mean'[i] < mean'[j]
        BY DEF InOrder
    <3>1. i \in 1..Len(mean) /\ (j \in 1..Len(mean) \/ j = Len(mean) + 1)
        BY <1>4, <2>4
    <3>2. CASE j \in 1..Len(mean)
      <4>1. mean[i] < mean[j]
          BY <1>4, <1>6, <3>1, <3>2 DEF InOrder
      <4> QED
          BY <2>4, <3>1, <3>2, <4>1
    <3>3. CASE j = Len(mean) + 1
        BY <1>3, <2>4, <3>1, <3>3
    <3> QED
        BY <3>1, <3>2, <3>3
  <2>6. UpTo(mean', global_steps)
    <3> SUFFICES ASSUME NEW i \in DOMAIN mean' PROVE mean'[i] <= global_steps
        BY DEF UpTo
    <3>1. i \in 1..Len(mean) \/ i = Len(mean) + 1
        BY <1>4, <2>4
    <3> QED
        BY <1>3, <2>4, <3>1
  <2>7. TakesStep' => Covers(mean, global_steps)'
    <3>1. 1..global_steps = (1..(global_steps - 1)) \union {global_steps}
        BY <1>3
    <3>2. global_steps \in Range(mean')
        BY <1>4, <2>4 DEF Range
    <3> QED
        BY <1>1, <1>8, <1>9, <2>2, <3>1, <3>2 DEF Covers
  <2>8. TakesStep'
      BY <1>1, <1>7 DEF StepsInv
  <2> QED
      BY <1>1, <1>5, <1>8, <1>9, <2>2, <2>3, <2>5, <2>6, <2>7, <2>8 DEF StepsInv
<1>10. CASE pc' = "loop" /\ mean' = mean /\ skipped' = skipped \union {global_steps} /\ UNCHANGED <<noised, count, avg>>
  <2>1. TakesStep'
      BY <1>1, <1>7 DEF StepsInv
  <2>2. Covers(mean, global_steps)'
    <3>1. 1..global_steps = (1..(global_steps - 1)) \union {global_steps}
        BY <1>3
    <3> QED
        BY <1>1, <1>6, <1>10, <3>1 DEF Covers
  <2>3. /\ InOrder(mean)' /\ UpTo(mean, global_steps)'
        /\ UpTo(mean, global_steps - 1)' \/ (TakesStep' /\ Spent')
      BY <1>1, <1>6, <1>7, <1>10 DEF InOrder, UpTo, Spent
  <2> QED
      BY <1>1, <1>5, <1>8, <1>10, <2>1, <2>2, <2>3 DEF StepsInv
<1>11. CASE pc' = "raised" /\ UNCHANGED <<mean, skipped>>
  <2>1. InOrder(mean)' /\ UpTo(mean, global_steps)'
      BY <1>1, <1>6, <1>11 DEF InOrder, UpTo
  <2>2. pc' \notin Updating
      BY <1>11 DEF Updating
  <2> QED
      BY <1>1, <1>5, <1>8, <1>11, <2>1, <2>2 DEF StepsInv
<1> QED
    BY <1>9, <1>10, <1>11 DEF TakeStep, OptimizerStep, ivonVars, noiseVars, statVars

LEMMA StepsUpdateDone ==
    ASSUME OneSave, TrainingInv, StepsInv, UpdateActorDone PROVE StepsInv'
<1>1. /\ pc = "loop" /\ pc' = IF decoupled < DecoupledSamples THEN "noiseAgain" ELSE "save"
      /\ UNCHANGED <<mean, skipped, global_steps, disk>>
    BY DEF UpdateActorDone, historyVars, fileVars
<1>2. pc \in Updating
    BY <1>1 DEF Updating
<1>3. mc = 1 /\ M3poM = 1 /\ decoupled \in 1..DecoupledSamples /\ DecoupledSamples \in Nat
    BY <1>1, TrainingAssumption DEF OneSave, TrainingInv, LoopTypes, CounterTypes
<1>4. /\ InOrder(mean)' /\ UpTo(mean, global_steps)'
      /\ UpTo(mean, global_steps - 1) => UpTo(mean, global_steps - 1)'
      /\ Covers(mean, global_steps - 1)'
      /\ Covers(mean, global_steps) => Covers(mean, global_steps)'
    BY <1>1, <1>2 DEF StepsInv, InOrder, UpTo, Covers
<1>5. \A step \in DOMAIN disk' : \A checkpoint \in disk'[step] :
          /\ InOrder(checkpoint.mean)
          /\ UpTo(checkpoint.mean, step)
          /\ Covers(checkpoint.mean, step)'
    BY <1>1 DEF StepsInv, Covers
<1>6. CASE decoupled < DecoupledSamples
  <2>1. ~TakesStep /\ pc' = "noiseAgain"
      BY <1>1, <1>3, <1>6 DEF TakesStep
  <2>2. UpTo(mean, global_steps - 1)
      BY <1>2, <2>1 DEF StepsInv
  <2>3. pc' \notin Updating \union Saving \union AroundSteps
      BY <2>1 DEF Updating, Saving, AroundSteps
  <2> QED
      BY <1>4, <1>5, <2>1, <2>2, <2>3, PlacesApart DEF StepsInv
<1>7. CASE decoupled = DecoupledSamples
  <2>1. TakesStep /\ pc' = "save"
      BY <1>1, <1>3, <1>7 DEF TakesStep
  <2>2. Covers(mean, global_steps)
      BY <1>1, <2>1 DEF StepsInv
  <2>3. pc' \notin Rolling \union Updating \union AroundSteps
      BY <2>1 DEF Rolling, Updating, AroundSteps
  <2> QED
      BY <1>4, <1>5, <2>1, <2>2, <2>3, PlacesApart DEF StepsInv
<1> QED
    BY <1>3, <1>6, <1>7

\* A save leaves what was in the folders, or writes the checkpoint of the step.
LEMMA SavedFolders ==
    ASSUME SaveBegin \/ SaveStep
    PROVE  \A step \in DOMAIN disk' : \A checkpoint \in disk'[step] :
          \/ step \in DOMAIN disk /\ checkpoint \in disk[step]
          \/ step = global_steps /\ checkpoint = Checkpoint
<1>1. CASE UNCHANGED disk
    BY <1>1
<1>2. \A list, n : KeepNewest(list, n) =>
          \A step \in DOMAIN disk' : step \in DOMAIN disk /\ disk'[step] = disk[step]
    BY DEF KeepNewest, Restrict
<1>3. CASE OpenFolder(CheckpointStep)
    BY <1>3 DEF OpenFolder, CheckpointStep
<1>4. CASE WriteFolder(CheckpointStep, Checkpoint)
    BY <1>4 DEF WriteFolder, CheckpointStep
<1>5. CASE \E list, n : KeepNewest(list, n)
    BY <1>2, <1>5
<1>6. \/ UNCHANGED disk \/ OpenFolder(CheckpointStep) \/ WriteFolder(CheckpointStep, Checkpoint)
      \/ \E list, n : KeepNewest(list, n)
  <2>1. CASE SaveBegin
      BY <2>1 DEF SaveBegin, MakeRoom, fileVars
  <2>2. CASE SaveStep
      BY <2>2 DEF SaveStep, SaveFiles, Register, EmptyTheTracker, WriteTracker
  <2> QED
      BY <2>1, <2>2
<1> QED
    BY <1>1, <1>3, <1>4, <1>5, <1>6

\* A folder gets the mean of its step, and rotation takes folders away.
LEMMA StepsSave == ASSUME TrainingInv, StepsInv, SaveBegin \/ SaveStep PROVE StepsInv'
<1>1. /\ pc \in Saving /\ pc' \in Saving
      /\ UNCHANGED <<mean, skipped, global_steps>>
    BY DEF SaveBegin, SaveStep, SaveFiles, Goto, Saving, ivonVars, historyVars
<1>2. \A step \in DOMAIN disk' : \A checkpoint \in disk'[step] :
          \/ step \in DOMAIN disk /\ checkpoint \in disk[step]
          \/ step = global_steps /\ checkpoint = Checkpoint
    BY SavedFolders
<1>3. InOrder(mean) /\ UpTo(mean, global_steps) /\ Covers(mean, global_steps)
    BY <1>1 DEF StepsInv
<1>4. \A step \in DOMAIN disk' : \A checkpoint \in disk'[step] :
          /\ InOrder(checkpoint.mean)
          /\ UpTo(checkpoint.mean, step)
          /\ Covers(checkpoint.mean, step)'
  <2> SUFFICES ASSUME NEW step \in DOMAIN disk', NEW checkpoint \in disk'[step]
               PROVE  /\ InOrder(checkpoint.mean)
                      /\ UpTo(checkpoint.mean, step)
                      /\ Covers(checkpoint.mean, step)'
      OBVIOUS
  <2>1. CASE step \in DOMAIN disk /\ checkpoint \in disk[step]
      BY <1>1, <2>1 DEF StepsInv, Covers
  <2>2. CASE step = global_steps /\ checkpoint = Checkpoint
    <3>1. checkpoint.mean = mean
        BY <2>2 DEF Checkpoint
    <3> QED
        BY <1>1, <1>3, <2>2, <3>1 DEF Covers
  <2> QED
      BY <1>2, <2>1, <2>2
<1>5. InOrder(mean)' /\ UpTo(mean, global_steps)' /\ Covers(mean, global_steps)'
    BY <1>1, <1>3 DEF InOrder, UpTo, Covers
<1>6. pc' \notin Rolling \union Updating
    BY <1>1, PlacesApart
<1> QED
    BY <1>4, <1>5, <1>6, PlacesApart DEF StepsInv

\* The next job starts from the mean of the step it takes up.
LEMMA StepsCrash == ASSUME TrainingInv, StepsInv, Crash PROVE StepsInv'
<1>1. UNCHANGED <<disk, skipped>>
    BY DEF Crash
<1>2. \A step \in DOMAIN disk' : \A checkpoint \in disk'[step] :
          /\ InOrder(checkpoint.mean)
          /\ UpTo(checkpoint.mean, step)
          /\ Covers(checkpoint.mean, step)'
    BY <1>1 DEF StepsInv, Covers
<1>3. ASSUME NEW step, NEW checkpoint, Resume(step, checkpoint),
             InOrder(checkpoint.mean), UpTo(checkpoint.mean, step), Covers(checkpoint.mean, step)
      PROVE  StepsInv'
  <2>1. pc' = "start" /\ global_steps' = step /\ mean' = checkpoint.mean
      BY <1>3 DEF Resume
  <2>2. pc' \in AroundSteps /\ pc' \notin Rolling \union Updating
      BY <2>1 DEF AroundSteps, Rolling, Updating
  <2>3. InOrder(mean)' /\ UpTo(mean, global_steps)' /\ Covers(mean, global_steps)'
      BY <1>1, <1>3, <2>1 DEF InOrder, UpTo, Covers
  <2> QED
      BY <1>2, <2>2, <2>3, PlacesApart DEF StepsInv
<1>4. CASE Resume(0, Scratch)
  <2>1. Scratch.mean = <<>> /\ DOMAIN <<>> = {} /\ 1..0 = {}
      BY DEF Scratch
  <2>2. InOrder(Scratch.mean) /\ UpTo(Scratch.mean, 0) /\ Covers(Scratch.mean, 0)
      BY <2>1 DEF InOrder, UpTo, Covers
  <2> QED
      BY <1>3, <1>4, <2>2
<1>5. ASSUME NEW checkpoint \in Latest, Resume(tracker, checkpoint) PROVE StepsInv'
  <2>1. tracker \in DOMAIN disk /\ checkpoint \in disk[tracker]
      BY <1>5 DEF Latest
  <2>2. InOrder(checkpoint.mean) /\ UpTo(checkpoint.mean, tracker) /\ Covers(checkpoint.mean, tracker)
      BY <2>1 DEF StepsInv
  <2> QED
      BY <1>3, <1>5, <2>2
<1>6. CASE pc' = "unloadable" /\ UNCHANGED <<mean, global_steps>>
  <2>1. InOrder(mean)' /\ UpTo(mean, global_steps)'
      BY <1>6 DEF StepsInv, InOrder, UpTo
  <2>2. pc' \notin Rolling \union Updating \union Saving \union AroundSteps
      BY <1>6 DEF Rolling, Updating, Saving, AroundSteps
  <2> QED
      BY <1>2, <1>6, <2>1, <2>2, PlacesApart DEF StepsInv
<1> QED
    BY <1>4, <1>5, <1>6 DEF Crash, Load

LEMMA StepsNext ==
    ASSUME OneSave, NoiseInv, TrainingInv, StepsInv, [Next]_vars PROVE StepsInv'
<1>1. CASE Start \/ Test \/ Validate \/ NoiseActor \/ SyncWeights \/ Generate \/ DenoiseActor
             \/ Union \/ NoiseAgain \/ EndStep \/ StepDone
  <2>1. UNCHANGED <<mean, skipped, global_steps, disk>>
      BY <1>1 DEF Start, Test, Validate, NoiseActor, SyncWeights, Generate, DenoiseActor, Union,
             NoiseAgain, EndStep, StepDone, SampleParams, RestoreParamAverage, ivonVars,
             historyVars, fileVars
  <2>2. CASE Start \/ Test \/ Validate \/ EndStep \/ StepDone
    <3>1. pc \in Saving \union AroundSteps /\ pc' \in Saving \union AroundSteps \union Dead
        BY <2>2 DEF Start, Test, Validate, EndStep, StepDone, Goto, Saving, AroundSteps, Dead
    <3> QED
        BY <2>1, <3>1, StepsDriver
  <2>3. CASE NoiseActor \/ SyncWeights \/ Generate \/ DenoiseActor \/ Union
    <3>1. pc \in Rolling /\ pc' \in Rolling
        BY <2>3 DEF NoiseActor, SyncWeights, Generate, DenoiseActor, Union, Goto, Rolling
    <3> QED
        BY <2>1, <3>1, StepsDriver
  <2>4. CASE NoiseAgain
    <3>1. pc = "noiseAgain" /\ pc \in Rolling /\ global_steps \in Nat \ {0}
        BY <2>4 DEF NoiseAgain, Goto, Rolling, TrainingInv, LoopTypes, PlaceTypes, InStep, Under
    <3>2. CriticWarmup <= global_steps
        BY <3>1, TrainingAssumption DEF OneSave, NoWarmup
    <3>3. pc' = "backward"
        BY <2>4, <3>2 DEF NoiseAgain, Goto
    <3> QED
        BY <2>1, <3>1, <3>3, StepsDriver
  <2> QED
      BY <1>1, <2>2, <2>3, <2>4
<1>2. CASE Restore \/ (\E finite \in BOOLEAN : Backward(finite)) \/ NextMiniBatch
    BY <1>2, StepsRestore
<1>3. CASE NextSample
    BY <1>3, TrainingAssumption DEF NextSample, OneSave, TrainingInv, LoopTypes, CounterTypes
<1>4. CASE Ended \/ UNCHANGED vars
  <2>1. UNCHANGED <<pc, mean, skipped, global_steps, disk, mc, decoupled, noised, count, avg>>
      BY <1>4 DEF Ended, vars, ivonVars, noiseVars, statVars, fileVars, counterVars, historyVars
  <2> QED
      BY <2>1 DEF StepsInv, InOrder, UpTo, Covers, TakesStep, Spent
<1> QED
    BY <1>1, <1>2, <1>3, <1>4, StepsNextStep, StepsTakeStep, StepsUpdateDone, StepsSave, StepsCrash DEF Next

\* With one sample a step and no warm-up of the critic beyond the first step, and whatever
\* mini batches, skipped updates, rotation and crashes there are: a step moves the mean once, in
\* order, and every checkpoint has every step up to its own that was not skipped
\* (update_policy calls _optimizer_step once per mini batch, _load_checkpoint takes up
\* global_steps and the parameters of one folder).
THEOREM EachStepIsMadeOnce == ASSUME OneSave PROVE Spec => []EachStepOnce
<1>1. Init => StepsInv
    BY StepsInit
<1>2. NoiseInv /\ TrainingInv /\ StepsInv /\ [Next]_vars => StepsInv'
    BY StepsNext
<1>3. StepsInv => EachStepOnce
    BY DEF StepsInv, EachStepOnce, InOrder, Covers
<1>4. Spec => []NoiseInv
    BY NoiseAlways DEF OneSave
<1> QED
    BY <1>1, <1>2, <1>3, <1>4, TrainingAlways, PTL DEF Spec

-----------------------------------------------------------------------------
(* The samples of a step *)

OfStep(sums) == \A j \in DOMAIN sums : sums[j].step = global_steps

\* what is applied and the mean change together, when a step is made or a job starts again
LEMMA AppliedWithMean ==
    ASSUME [Next]_vars
    PROVE  \/ UNCHANGED <<applied, mean>>
           \/ applied' = <<>>
           \/ TakeStep /\ CanUpdate /\ applied' = Collected /\ mean' = Append(mean, global_steps)
<1>1. CASE TakeStep
    BY <1>1 DEF TakeStep, OptimizerStep, Step, ivonVars
<1>2. CASE Crash
    BY <1>2 DEF Crash, Load, Resume
<1>3. CASE ~TakeStep /\ ~Crash
  <2>1. UNCHANGED applied
      BY <1>3 DEF Next, vars, historyVars, Start, Test, Validate, NextStep, NoiseActor,
             SyncWeights, Generate, DenoiseActor, Union, NoiseAgain, Backward, Restore,
             NextMiniBatch, UpdateActorDone, SaveBegin, SaveStep, EndStep, NextSample, StepDone, Ended
  <2>2. UNCHANGED mean
      BY <1>3 DEF Next, vars, ivonVars, Start, Test, Validate, NextStep, NoiseActor,
             SyncWeights, Generate, DenoiseActor, Union, NoiseAgain, Backward, Restore,
             SampleParams, RestoreParamAverage,
             NextMiniBatch, UpdateActorDone, SaveBegin, SaveStep, EndStep, NextSample, StepDone, Ended
  <2> QED
      BY <2>1, <2>2
<1> QED
    BY <1>1, <1>2, <1>3

\* A step made from as many samples of its own as the algorithm has, leaves what is promised.
LEMMA StepOfItsSamples ==
    ASSUME TrainingInv, SamplesPerStep, [Next]_vars,
           TakeStep /\ CanUpdate => /\ Len(Collected) = TrainSamples
                                    /\ \A i \in DOMAIN Collected : OfStep(Collected[i])
    PROVE  SamplesPerStep'
<1>1. CASE UNCHANGED <<applied, mean>>
    BY <1>1 DEF SamplesPerStep
<1>2. CASE applied' = <<>>
    BY <1>2 DEF SamplesPerStep
<1>3. CASE TakeStep /\ CanUpdate /\ applied' = Collected /\ mean' = Append(mean, global_steps)
  <2>1. mean \in Seq(Nat) /\ global_steps \in Nat
      BY DEF TrainingInv, OptimizerTypes, IvonTypeOK, LoopTypes, PlaceTypes
  <2>2. mean'[Len(mean')] = global_steps
      BY <1>3, <2>1
  <2> QED
      BY <1>3, <2>2 DEF SamplesPerStep, OfStep
<1> QED
    BY <1>1, <1>2, <1>3, AppliedWithMean

\* One sample: p.grad holds the gradients of the mini batch alone.
SingleInv == pc \in {"restore", "step"} => OfStep(grad)

LEMMA SingleNext ==
    ASSUME SingleSample, SingleInv, [Next]_vars PROVE SingleInv'
<1>1. ~IsMcSample
    BY TrainingAssumption DEF SingleSample, IsMcSample
<1>2. ASSUME NEW finite \in BOOLEAN, Backward(finite) PROVE SingleInv'
  <2>1. grad' = <<Gradient(finite)>> /\ global_steps' = global_steps
      BY <1>1, <1>2 DEF Backward
  <2>2. Gradient(finite).step = global_steps
      BY DEF Gradient
  <2> QED
      BY <2>1, <2>2 DEF SingleInv, OfStep
<1>3. CASE Restore
  <2>1. pc = "restore" /\ UNCHANGED <<grad, global_steps>>
      BY <1>3 DEF Restore, RestoreParamAverage, Goto, ivonVars
  <2> QED
      BY <2>1 DEF SingleInv, OfStep
<1>4. CASE UNCHANGED vars
    BY <1>4 DEF SingleInv, OfStep, vars, ivonVars
<1>5. CASE Start \/ Test \/ Validate \/ NextStep \/ NoiseActor \/ SyncWeights \/ Generate
             \/ DenoiseActor \/ Union \/ NoiseAgain
  <2>1. pc' \notin {"restore", "step"}
      BY <1>5 DEF Start, Test, Validate, NextStep, NoiseActor, SyncWeights, Generate,
             DenoiseActor, Union, NoiseAgain, Goto
  <2> QED
      BY <2>1 DEF SingleInv
<1>6. CASE TakeStep \/ NextMiniBatch \/ UpdateActorDone \/ SaveBegin \/ SaveStep \/ EndStep
             \/ NextSample \/ StepDone \/ Crash
  <2>1. pc' \notin {"restore", "step"}
      BY <1>6 DEF TakeStep, OptimizerStep, NextMiniBatch, UpdateActorDone, SaveBegin, SaveStep,
             SaveFiles, EndStep, NextSample, StepDone, Crash, Load, Resume, Goto
  <2> QED
      BY <2>1 DEF SingleInv
<1> QED
    BY <1>2, <1>3, <1>4, <1>5, <1>6 DEF Next, Ended

\* Several samples a step, none of them skipped, and M3PO, which saves half-collected ones,
\* without a crash.
ManySamples == ~SingleSample /\ MaxNonFinite = 0 /\ (M3poM = 1 \/ MaxCrashes = 0)

\* no perturbation reaches the update
NeverNoised == RolloutOnly /\ Chunks = 1 /\ DecoupledSamples = 1

\* the number of the sample, in M3PO the loop of fit, in the decoupled variant update_actor
Sample == IF M3poM > 1 THEN mc ELSE decoupled

Held(n) == IF NeverNoised THEN avg = <<>> ELSE Len(avg) = n
AfterSample == IF TakesStep THEN avg = <<>> ELSE Held(Sample)
Nothing == avg = <<>> /\ grad = <<>>

\* what is collected is of the running step and finite; what is saved is not half-collected
CleanInv ==
    /\ nonFinite = 0 /\ (M3poM > 1 => crashes = 0)
    /\ Listed(grad) /\ OfStep(grad) /\ GradFinite
    /\ \A i \in DOMAIN avg : OfStep(avg[i])
    /\ M3poM = 1 => \A step \in DOMAIN disk : \A checkpoint \in disk[step] : checkpoint.avg = <<>>
    /\ pc \in AroundSteps => Nothing
    /\ pc \in Saving /\ M3poM = 1 => Nothing

\* where the noise of the sample is
NoisedInv ==
    /\ noised \in BOOLEAN
    /\ pc = "noiseAgain" => miniBatch = 1
    /\ pc \in {"sync", "generate", "denoise"} => noised
    /\ pc \in {"union", "noiseAgain"} /\ Chunks = 1 /\ DecoupledSamples = 1 => noised = ~RolloutOnly
    /\ pc \in {"backward", "restore"} /\ miniBatch = 1 => noised = ~NeverNoised
    /\ pc \in {"backward", "restore"} /\ miniBatch > 1 => ~noised
    /\ pc \in {"step", "loop"} => ~noised

\* how many samples avg holds
CountInv ==
    /\ pc \in {"noise", "sync", "generate", "denoise", "union"} =>
           IF M3poM = 1 THEN Nothing ELSE Held(mc - 1)
    /\ pc = "noiseAgain" => /\ Held(Sample - 1)
                            /\ decoupled > 1 => CriticWarmup <= global_steps
                            /\ M3poM = 1 /\ decoupled = 1 => Nothing
    /\ pc \in Updating \union {"sampled"} => CriticWarmup <= global_steps
    /\ pc \in {"backward", "restore"} /\ miniBatch = 1 => Held(Sample - 1)
    /\ pc \in {"backward", "restore"} /\ miniBatch > 1 => AfterSample
    /\ pc = "step" => TakesStep /\ (Held(Sample) \/ avg = <<>>)
    /\ pc = "loop" => AfterSample
    /\ pc \in Saving /\ CriticWarmup <= global_steps =>
           IF mc = M3poM THEN Nothing ELSE Held(mc)

ManyInv == CleanInv /\ NoisedInv /\ CountInv

LEMMA ManyFacts ==
    ASSUME ManySamples
    PROVE  /\ IsMcSample /\ TrainSamples > 1
           /\ M3poM = 1 => DecoupledSamples = TrainSamples /\ ~NeverNoised
           /\ M3poM > 1 => DecoupledSamples = 1 /\ M3poM = TrainSamples /\ MaxCrashes = 0
           /\ M3poM \in Nat \ {0} /\ DecoupledSamples \in Nat \ {0}
           /\ M3poM = 1 \/ M3poM > 1
BY TrainingAssumption, IvonAssumption DEF ManySamples, SingleSample, IsMcSample, NeverNoised

LEMMA ManyInit == ASSUME Init PROVE ManyInv
<1>1. /\ noised = FALSE /\ grad = <<>> /\ avg = <<>> /\ pc = "start" /\ disk = <<>> /\ DOMAIN disk = {}
      /\ nonFinite = 0 /\ crashes = 0 /\ DOMAIN grad = {} /\ DOMAIN avg = {}
    BY DEF Init, IvonInit, FilesInit
<1>2. noised \in BOOLEAN
    BY <1>1, Zenon
<1> QED
    BY <1>1, <1>2, ListedEmpty DEF ManyInv, CleanInv, NoisedInv, CountInv, OfStep, GradFinite, Nothing,
           AroundSteps, Saving, Updating

\* The places of a step, one by one.
LEMMA StepPlaces ==
    /\ Rolling = {"noise", "sync", "generate", "denoise", "union", "noiseAgain"}
    /\ Updating = {"backward", "restore", "step", "loop"}
    /\ {"save", "saved", "sampled"} \subseteq Saving
    /\ \A p \in Rolling \union Updating : p \notin Saving \union AroundSteps \union Dead
    /\ \A p \in Rolling : p \notin Updating
BY DEF Rolling, Updating, Saving, AroundSteps, Dead

\* What is collected stays clean while nothing is collected.
LEMMA CleanKept ==
    ASSUME CleanInv, UNCHANGED <<grad, avg, global_steps, nonFinite, crashes, disk>>,
           pc' \in AroundSteps => Nothing, pc' \in Saving /\ M3poM = 1 => Nothing
    PROVE  CleanInv'
<1>1. /\ Listed(grad)' /\ OfStep(grad)' /\ GradFinite'
      /\ (\A i \in DOMAIN avg : OfStep(avg[i]))'
    BY DEF CleanInv, Listed, OfStep, GradFinite
<1>2. Nothing => Nothing'
    BY DEF Nothing
<1> QED
    BY <1>1, <1>2 DEF CleanInv

\* The rollouts collect nothing.
LEMMA ManyRollouts ==
    ASSUME ManySamples, TrainingInv, ManyInv,
           NoiseActor \/ SyncWeights \/ Generate \/ DenoiseActor \/ Union
    PROVE  ManyInv'
<1>1. /\ pc \in {"noise", "sync", "generate", "denoise", "union"}
      /\ pc' \in Rolling
      /\ UNCHANGED <<grad, avg, global_steps, nonFinite, crashes, disk, mc>>
    BY StepPlaces DEF NoiseActor, SyncWeights, Generate, DenoiseActor, Union, Goto, SampleParams,
           RestoreParamAverage, ivonVars, statVars, fileVars, historyVars, counterVars
<1>2. CleanInv'
    BY <1>1, StepPlaces, CleanKept DEF ManyInv
<1>3. IF M3poM = 1 THEN Nothing ELSE Held(mc - 1)
    BY <1>1 DEF ManyInv, CountInv
<1>4. IF M3poM = 1 THEN Nothing' ELSE Held(mc - 1)'
    BY <1>1, <1>3 DEF Nothing, Held
<1>5. CASE NoiseActor \/ SyncWeights \/ Generate
  <2>1. pc' \in {"sync", "generate", "denoise"} /\ noised' = TRUE
      BY <1>5 DEF NoiseActor, SyncWeights, Generate, Goto, SampleParams, ManyInv, NoisedInv,
             ivonVars, noiseVars
  <2>2. NoisedInv'
      BY <2>1 DEF NoisedInv
  <2>3. CountInv'
      BY <1>4, <2>1, StepPlaces DEF CountInv
  <2> QED
      BY <1>2, <2>2, <2>3 DEF ManyInv
<1>6. CASE DenoiseActor
  <2>1. pc' \in {"noise", "union"} /\ pc = "denoise" /\ noised
      BY <1>6 DEF DenoiseActor, Goto, ManyInv, NoisedInv
  <2>2. Chunks = 1 => noised' = ~RolloutOnly
    <3>1. noised \in BOOLEAN /\ RolloutOnly \in BOOLEAN
        BY TrainingAssumption, Zenon DEF ManyInv, NoisedInv
    <3>2. Chunks = 1 => ~(Chunks > 1)
        OBVIOUS
    <3>3. Chunks = 1 /\ RolloutOnly => noised' = FALSE
        BY <1>6, <2>1, <3>2 DEF DenoiseActor, RestoreParamAverage
    <3>4. Chunks = 1 /\ ~RolloutOnly => noised' = noised
        BY <1>6, <3>2 DEF DenoiseActor, ivonVars, noiseVars
    <3> QED
        BY <2>1, <3>1, <3>3, <3>4, Zenon
  <2>3. noised' \in BOOLEAN
      BY <1>6, <2>1, Zenon DEF DenoiseActor, RestoreParamAverage, ivonVars, noiseVars, ManyInv, NoisedInv
  <2>4. NoisedInv'
      BY <2>1, <2>2, <2>3 DEF NoisedInv
  <2>5. CountInv'
      BY <1>4, <2>1, StepPlaces DEF CountInv
  <2> QED
      BY <1>2, <2>4, <2>5 DEF ManyInv
<1>7. CASE Union
  <2>1. /\ pc = "union" /\ pc' = "noiseAgain" /\ noised' = noised
        /\ decoupled' = 1 /\ miniBatch' = 1
      BY <1>7 DEF Union, Goto, ivonVars, noiseVars
  <2>2. NoisedInv'
      BY <2>1 DEF NoisedInv, ManyInv
  <2>3. Held(Sample - 1)'
    <3>1. CASE M3poM = 1
      <4>1. avg' = <<>> /\ Len(<<>>) = 0 /\ ~(M3poM > 1)
          BY <1>4, <3>1 DEF Nothing
      <4> QED
          BY <2>1, <4>1 DEF Held, Sample
    <3>2. CASE M3poM > 1
        BY <1>4, <3>2 DEF Held, Sample
    <3> QED
        BY <3>1, <3>2, ManyFacts
  <2>4. CountInv'
      BY <1>4, <2>1, <2>3, StepPlaces DEF CountInv
  <2> QED
      BY <1>2, <2>2, <2>4 DEF ManyInv
<1> QED
    BY <1>5, <1>6, <1>7

\* The update starts with the noise of the sample, or there is no update.
LEMMA ManyNoiseAgain == ASSUME ManySamples, TrainingInv, ManyInv, NoiseAgain PROVE ManyInv'
<1>1. /\ pc = "noiseAgain"
      /\ pc' = IF CriticWarmup <= global_steps THEN "backward" ELSE "save"
      /\ UNCHANGED <<grad, avg, global_steps, nonFinite, crashes, disk, mc, decoupled, miniBatch>>
    BY DEF NoiseAgain, Goto, SampleParams, ivonVars, statVars, fileVars, historyVars, counterVars
<1>2. miniBatch' = 1 /\ miniBatch = 1
    BY <1>1 DEF ManyInv, NoisedInv
<1>3. noised' \in BOOLEAN
    BY Zenon DEF NoiseAgain, SampleParams, ivonVars, noiseVars, ManyInv, NoisedInv
<1>4. Held(Sample - 1)'
    BY <1>1 DEF ManyInv, CountInv, Held, Sample
<1>5. CASE CriticWarmup <= global_steps
  <2>1. pc' = "backward"
      BY <1>1, <1>5
  <2>2. CleanInv'
      BY <1>1, <2>1, StepPlaces, CleanKept DEF ManyInv
  <2>3. noised' = ~NeverNoised
    <3>1. CASE Chunks > 1 \/ DecoupledSamples > 1
      <4>1. noised' = TRUE /\ ~NeverNoised
          BY <3>1, TrainingAssumption DEF NoiseAgain, SampleParams, ivonVars, noiseVars, NeverNoised
      <4> QED
          BY <4>1
    <3>2. CASE ~(Chunks > 1 \/ DecoupledSamples > 1)
      <4>1. Chunks = 1 /\ DecoupledSamples = 1
          BY <3>2, TrainingAssumption
      <4>2. noised' = noised /\ noised = ~RolloutOnly
          BY <1>1, <3>2, <4>1 DEF NoiseAgain, ivonVars, noiseVars, ManyInv, NoisedInv
      <4> QED
          BY <4>1, <4>2 DEF NeverNoised
    <3> QED
        BY <3>1, <3>2
  <2>4. NoisedInv'
      BY <1>2, <1>3, <2>1, <2>3 DEF NoisedInv
  <2>5. CountInv'
      BY <1>1, <1>2, <1>4, <1>5, <2>1, StepPlaces DEF CountInv
  <2> QED
      BY <2>2, <2>4, <2>5 DEF ManyInv
<1>6. CASE ~(CriticWarmup <= global_steps)
  <2>1. pc' = "save" /\ ~(CriticWarmup <= global_steps')
      BY <1>1, <1>6
  <2>2. M3poM = 1 => Nothing
    <3>1. decoupled \in 1..(DecoupledSamples + 1) /\ ~(decoupled > 1)
        BY <1>1, <1>6 DEF ManyInv, CountInv, TrainingInv, LoopTypes, CounterTypes
    <3>2. decoupled = 1
        BY <3>1, TrainingAssumption
    <3> QED
        BY <1>1, <3>2 DEF ManyInv, CountInv
  <2>3. CleanInv'
    <3>1. pc' \notin AroundSteps
        BY <2>1 DEF AroundSteps
    <3> QED
        BY <1>1, <2>2, <3>1, CleanKept DEF ManyInv
  <2>4. NoisedInv'
      BY <1>3, <2>1 DEF NoisedInv
  <2>5. CountInv'
    <3>1. pc' \notin Rolling \union Updating \union {"sampled"}
        BY <2>1 DEF Rolling, Updating
    <3> QED
        BY <2>1, <3>1, StepPlaces DEF CountInv
  <2> QED
      BY <2>3, <2>4, <2>5 DEF ManyInv
<1> QED
    BY <1>5, <1>6

\* Every gradient collected is of the running step, and finite.
LEMMA ManyBackward ==
    ASSUME ManySamples, TrainingInv, ManyInv, NEW finite \in BOOLEAN, Backward(finite)
    PROVE  ManyInv'
<1>1. /\ pc = "backward" /\ pc' = "restore"
      /\ UNCHANGED <<noised, avg, global_steps, crashes, disk, mc, decoupled, miniBatch>>
      /\ grad' = Append(grad, Gradient(finite))
    BY ManyFacts DEF Backward, Goto, noiseVars, statVars, fileVars, counterVars
<1>2. finite /\ nonFinite' = 0
    BY DEF Backward, ManyInv, CleanInv, ManySamples
<1>3. Listed(grad) /\ OfStep(grad) /\ GradFinite
    BY DEF ManyInv, CleanInv
<1>4. /\ Listed(grad)'
      /\ DOMAIN grad' = 1..(Len(grad) + 1) /\ DOMAIN grad = 1..Len(grad) /\ Len(grad) \in Nat
      /\ \A i \in DOMAIN grad : grad'[i] = grad[i]
      /\ grad'[Len(grad) + 1] = Gradient(finite)
  <2> DEFINE g == Gradient(finite)
  <2> HIDE DEF g
  <2>1. grad' = Append(grad, g)
      BY <1>1 DEF g
  <2>2. Listed(Append(grad, g))
      BY <1>3, ListedAppend
  <2>3. Listed(grad)'
      BY <2>1, <2>2 DEF Listed
  <2>4. /\ Len(grad) \in Nat /\ DOMAIN grad = 1..Len(grad)
        /\ DOMAIN Append(grad, g) = 1..(Len(grad) + 1)
        /\ \A i \in 1..Len(grad) : Append(grad, g)[i] = grad[i]
        /\ Append(grad, g)[Len(grad) + 1] = g
      BY <1>3, ListedAppend
  <2> QED
      BY <2>1, <2>3, <2>4 DEF g
<1>5. \A i \in DOMAIN grad' : i \in DOMAIN grad \/ i = Len(grad) + 1
    BY <1>4
<1>6. Gradient(finite).step = global_steps /\ Gradient(finite).finite
    BY <1>2 DEF Gradient
<1>7. OfStep(grad)'
    BY <1>1, <1>3, <1>4, <1>5, <1>6 DEF OfStep
<1>8. GradFinite'
    BY <1>3, <1>4, <1>5, <1>6 DEF GradFinite
<1>9. CleanInv'
  <2>1. pc' \notin AroundSteps \union Saving
      BY <1>1 DEF AroundSteps, Saving
  <2>2. (\A i \in DOMAIN avg : OfStep(avg[i]))'
      BY <1>1 DEF ManyInv, CleanInv, OfStep
  <2> QED
      BY <1>1, <1>2, <1>4, <1>7, <1>8, <2>1, <2>2 DEF ManyInv, CleanInv
<1>10. NoisedInv'
    BY <1>1 DEF ManyInv, NoisedInv
<1>11. CountInv'
  <2>1. /\ CriticWarmup <= global_steps
        /\ miniBatch = 1 => Held(Sample - 1)
        /\ miniBatch > 1 => AfterSample
      BY <1>1, StepPlaces DEF ManyInv, CountInv
  <2>2. /\ Held(Sample - 1) => Held(Sample - 1)'
        /\ AfterSample => AfterSample'
      BY <1>1 DEF Held, Sample, AfterSample, TakesStep
  <2> QED
      BY <1>1, <2>1, <2>2, StepPlaces DEF CountInv
<1> QED
    BY <1>9, <1>10, <1>11 DEF ManyInv

\* Restoring a perturbed actor collects one more sample.
LEMMA ManyRestore == ASSUME ManySamples, TrainingInv, ManyInv, Restore PROVE ManyInv'
<1>1. /\ pc = "restore" /\ pc' = IF TakesStep THEN "step" ELSE "loop"
      /\ UNCHANGED <<grad, global_steps, nonFinite, crashes, disk, mc, decoupled, miniBatch>>
    BY DEF Restore, Goto, RestoreParamAverage, ivonVars, fileVars, historyVars, counterVars
<1>2. noised' = FALSE /\ noised \in BOOLEAN
    BY Zenon DEF Restore, RestoreParamAverage, ivonVars, noiseVars, ManyInv, NoisedInv
<1>3. IF noised THEN avg' = Append(avg, grad) ELSE avg' = avg
    BY DEF Restore, RestoreParamAverage, ivonVars, statVars, ManySamples
<1>4. miniBatch \in Nat \ {0} /\ CriticWarmup <= global_steps
    BY <1>1, TrainingAssumption, StepPlaces
    DEF ManyInv, CountInv, TrainingInv, LoopTypes, CounterTypes
<1>5. /\ Listed(avg) /\ Len(avg) \in Nat /\ DOMAIN avg = 1..Len(avg)
      /\ Len(Append(avg, grad)) = Len(avg) + 1
      /\ DOMAIN Append(avg, grad) = 1..(Len(avg) + 1)
      /\ \A i \in 1..Len(avg) : Append(avg, grad)[i] = avg[i]
      /\ Append(avg, grad)[Len(avg) + 1] = grad
    BY ListedAppend DEF TrainingInv, OptimizerTypes
<1>6. /\ mc \in Nat /\ decoupled \in Nat /\ Sample \in Nat
      /\ UNCHANGED <<TakesStep, Sample>>
    BY <1>1, TrainingAssumption DEF TrainingInv, LoopTypes, CounterTypes, TakesStep, Sample
<1>7. Listed(grad)' /\ OfStep(grad)' /\ GradFinite'
    BY <1>1 DEF ManyInv, CleanInv, Listed, OfStep, GradFinite
<1>8. (\A i \in DOMAIN avg : OfStep(avg[i]))'
  <2>1. OfStep(grad) /\ \A i \in DOMAIN avg : OfStep(avg[i])
      BY DEF ManyInv, CleanInv
  <2>2. CASE noised
    <3>1. \A i \in DOMAIN avg' : avg'[i] = grad \/ (i \in DOMAIN avg /\ avg'[i] = avg[i])
        BY <1>3, <1>5, <2>2
    <3> QED
        BY <1>1, <2>1, <3>1 DEF OfStep
  <2>3. CASE ~noised
      BY <1>1, <1>3, <2>1, <2>3 DEF OfStep
  <2> QED
      BY <2>2, <2>3
<1>9. pc' \in {"step", "loop"}
    BY <1>1
<1>10. CleanInv'
  <2>1. pc' \notin AroundSteps \union Saving
      BY <1>9 DEF AroundSteps, Saving
  <2> QED
      BY <1>1, <1>7, <1>8, <2>1 DEF ManyInv, CleanInv
<1>11. NoisedInv'
  <2>1. noised' \in BOOLEAN /\ ~noised'
      BY <1>2, Zenon
  <2> QED
      BY <1>9, <2>1 DEF NoisedInv
<1>12. Held(Sample)' \/ (TakesStep /\ avg' = <<>>) \/ (~TakesStep /\ AfterSample')
  <2>1. CASE miniBatch = 1
    <3>1. (noised <=> ~NeverNoised) /\ Held(Sample - 1)
        BY <1>1, <2>1 DEF ManyInv, NoisedInv, CountInv
    <3>2. CASE NeverNoised
        BY <1>3, <3>1, <3>2 DEF Held
    <3>3. CASE ~NeverNoised
        BY <1>3, <1>5, <1>6, <3>1, <3>3 DEF Held
    <3> QED
        BY <3>2, <3>3
  <2>2. CASE miniBatch > 1
    <3>1. avg' = avg /\ AfterSample
        BY <1>1, <1>3, <2>2 DEF ManyInv, NoisedInv, CountInv
    <3> QED
        BY <1>6, <3>1 DEF AfterSample, Held
  <2> QED
      BY <1>4, <2>1, <2>2
<1>13. CountInv'
  <2>1. CASE TakesStep
    <3>1. pc' = "step" /\ TakesStep'
        BY <1>1, <2>1 DEF TakesStep
    <3>2. Held(Sample)' \/ avg' = <<>>
        BY <1>12, <2>1
    <3> QED
        BY <1>1, <1>4, <3>1, <3>2, StepPlaces DEF CountInv
  <2>2. CASE ~TakesStep
    <3>1. pc' = "loop" /\ ~TakesStep'
        BY <1>1, <2>2 DEF TakesStep
    <3>2. AfterSample'
        BY <1>12, <2>2, <3>1 DEF AfterSample
    <3> QED
        BY <1>1, <1>4, <3>1, <3>2, StepPlaces DEF CountInv
  <2> QED
      BY <2>1, <2>2
<1> QED
    BY <1>10, <1>11, <1>13 DEF ManyInv

\* A step is made from all the samples it has, and leaves none.
LEMMA ManyTakeStep == ASSUME ManySamples, TrainingInv, ManyInv, TakeStep PROVE ManyInv'
<1>1. /\ pc = "step" /\ pc' \in {"loop", "raised"}
      /\ UNCHANGED <<noised, grad, global_steps, nonFinite, crashes, disk, mc, decoupled>>
      /\ avg' = <<>> \/ (pc' = "raised" /\ avg' = avg)
    BY DEF TakeStep, OptimizerStep, Step, ivonVars, noiseVars, statVars, fileVars, counterVars,
           ManyInv, CleanInv
<1>2. noised' \in BOOLEAN /\ ~noised'
    BY <1>1, Zenon DEF ManyInv, NoisedInv
<1>3. TakesStep /\ CriticWarmup <= global_steps
    BY <1>1, StepPlaces DEF ManyInv, CountInv
<1>4. pc' \notin AroundSteps \union Saving \union Rolling
    BY <1>1 DEF AroundSteps, Saving, Rolling
<1>5. CleanInv'
  <2>1. Listed(grad)' /\ OfStep(grad)' /\ GradFinite'
      BY <1>1 DEF ManyInv, CleanInv, Listed, OfStep, GradFinite
  <2>2. (\A i \in DOMAIN avg : OfStep(avg[i]))'
    <3>1. CASE avg' = <<>>
      <4>1. DOMAIN avg' = {}
          BY <3>1
      <4> QED
          BY <4>1
    <3>2. CASE avg' = avg
        BY <1>1, <3>2 DEF ManyInv, CleanInv, OfStep
    <3> QED
        BY <1>1, <3>1, <3>2
  <2> QED
      BY <1>1, <1>4, <2>1, <2>2 DEF ManyInv, CleanInv
<1>6. NoisedInv'
    BY <1>1, <1>2 DEF NoisedInv
<1>7. CountInv'
  <2>1. TakesStep'
      BY <1>1, <1>3 DEF TakesStep
  <2>2. pc' = "loop" => AfterSample'
      BY <1>1, <2>1 DEF AfterSample
  <2> QED
      BY <1>1, <1>3, <1>4, <2>2, StepPlaces DEF CountInv
<1> QED
    BY <1>5, <1>6, <1>7 DEF ManyInv

\* What a step is made from.
LEMMA ManyCollected ==
    ASSUME ManySamples, TrainingInv, ManyInv, TakeStep, CanUpdate
    PROVE  /\ Len(Collected) = TrainSamples
           /\ \A i \in DOMAIN Collected : OfStep(Collected[i])
<1>1. Collected = avg /\ avg # <<>>
    BY DEF Collected, CanUpdate, ManySamples
<1>2. pc = "step"
    BY DEF TakeStep
<1>3. TakesStep /\ Held(Sample)
    BY <1>1, <1>2 DEF ManyInv, CountInv
<1>4. Len(avg) = Sample
    BY <1>1, <1>3 DEF Held
<1>5. Sample = TrainSamples
    BY <1>3, ManyFacts DEF Sample, TakesStep
<1> QED
    BY <1>1, <1>4, <1>5 DEF ManyInv, CleanInv

\* The next mini batch finds what the first one left.
LEMMA ManyNextMiniBatch == ASSUME ManySamples, TrainingInv, ManyInv, NextMiniBatch PROVE ManyInv'
<1>1. /\ pc = "loop" /\ pc' = "backward"
      /\ UNCHANGED <<noised, grad, avg, global_steps, nonFinite, crashes, disk, mc, decoupled>>
      /\ miniBatch' = miniBatch + 1
    BY DEF NextMiniBatch, Goto, ivonVars, noiseVars, statVars, fileVars, historyVars
<1>2. miniBatch' > 1
    BY <1>1, TrainingAssumption DEF TrainingInv, LoopTypes, CounterTypes
<1>3. noised' \in BOOLEAN /\ ~noised'
    BY <1>1, Zenon DEF ManyInv, NoisedInv
<1>4. CleanInv'
    BY <1>1, StepPlaces, CleanKept DEF ManyInv
<1>5. NoisedInv'
    BY <1>1, <1>2, <1>3 DEF NoisedInv
<1>6. CountInv'
  <2>1. AfterSample /\ CriticWarmup <= global_steps
      BY <1>1, StepPlaces DEF ManyInv, CountInv
  <2>2. AfterSample'
      BY <1>1, <2>1 DEF AfterSample, Held, Sample, TakesStep
  <2> QED
      BY <1>1, <1>2, <2>1, <2>2, StepPlaces DEF CountInv
<1> QED
    BY <1>4, <1>5, <1>6 DEF ManyInv

\* update_actor leaves the samples to the next, or nothing.
LEMMA ManyUpdateDone == ASSUME ManySamples, TrainingInv, ManyInv, UpdateActorDone PROVE ManyInv'
<1>1. /\ pc = "loop" /\ pc' = IF decoupled < DecoupledSamples THEN "noiseAgain" ELSE "save"
      /\ UNCHANGED <<noised, avg, global_steps, nonFinite, crashes, disk, mc>>
      /\ miniBatch' = 1 /\ decoupled' = decoupled + 1
      /\ grad' = IF TakesStep THEN <<>> ELSE grad
    BY DEF UpdateActorDone, noiseVars, statVars, fileVars, historyVars
<1>2. /\ mc \in 1..M3poM /\ decoupled \in 1..DecoupledSamples
      /\ AfterSample /\ CriticWarmup <= global_steps
    BY <1>1, StepPlaces DEF ManyInv, CountInv, TrainingInv, LoopTypes, CounterTypes
<1>3. noised' \in BOOLEAN /\ ~noised'
    BY <1>1, Zenon DEF ManyInv, NoisedInv
<1>4. Listed(grad)' /\ OfStep(grad)' /\ GradFinite'
  <2>1. CASE TakesStep
    <3>1. grad' = <<>> /\ DOMAIN grad' = {}
        BY <1>1, <2>1
    <3> QED
        BY <3>1, ListedEmpty DEF Listed, OfStep, GradFinite
  <2>2. CASE ~TakesStep
      BY <1>1, <2>2 DEF ManyInv, CleanInv, Listed, OfStep, GradFinite
  <2> QED
      BY <2>1, <2>2
<1>5. (\A i \in DOMAIN avg : OfStep(avg[i]))'
    BY <1>1 DEF ManyInv, CleanInv, OfStep
<1>6. CASE decoupled < DecoupledSamples
  <2>1. pc' = "noiseAgain" /\ ~TakesStep /\ M3poM = 1 /\ ~(M3poM > 1)
      BY <1>1, <1>2, <1>6, ManyFacts DEF TakesStep
  <2>2. CleanInv'
    <3>1. pc' \notin AroundSteps \union Saving
        BY <2>1 DEF AroundSteps, Saving
    <3> QED
        BY <1>1, <1>4, <1>5, <3>1 DEF ManyInv, CleanInv
  <2>3. NoisedInv'
    <3>1. DecoupledSamples # 1
        BY <1>2, <1>6
    <3> QED
        BY <1>1, <1>3, <2>1, <3>1 DEF NoisedInv
  <2>4. CountInv'
    <3>1. Held(decoupled)
        BY <1>2, <2>1 DEF AfterSample, Sample
    <3>2. decoupled' - 1 = decoupled /\ decoupled' # 1
        BY <1>1, <1>2
    <3>3. Held(Sample - 1)'
        BY <1>1, <2>1, <3>1, <3>2 DEF Held, Sample
    <3> QED
        BY <1>1, <1>2, <2>1, <3>2, <3>3, StepPlaces DEF CountInv
  <2> QED
      BY <2>2, <2>3, <2>4 DEF ManyInv
<1>7. CASE ~(decoupled < DecoupledSamples)
  <2>1. /\ pc' = "save" /\ decoupled = DecoupledSamples
        /\ pc' \notin AroundSteps \union Rolling \union Updating \union {"sampled"}
      BY <1>1, <1>2, <1>7, ManyFacts DEF AroundSteps, Rolling, Updating
  <2>2. IF mc = M3poM THEN Nothing' ELSE Held(mc)'
    <3>1. CASE mc = M3poM
      <4>1. TakesStep
          BY <2>1, <3>1 DEF TakesStep
      <4> QED
          BY <1>1, <1>2, <3>1, <4>1 DEF AfterSample, Nothing
    <3>2. CASE mc # M3poM
      <4>1. M3poM > 1 /\ ~TakesStep
          BY <1>2, <3>2, ManyFacts DEF TakesStep
      <4> QED
          BY <1>1, <1>2, <3>2, <4>1 DEF AfterSample, Held, Sample
    <3> QED
        BY <3>1, <3>2
  <2>3. M3poM = 1 => mc = M3poM
      BY <1>2
  <2>4. CleanInv'
      BY <1>1, <1>4, <1>5, <2>1, <2>2, <2>3 DEF ManyInv, CleanInv
  <2>5. NoisedInv'
      BY <1>3, <2>1 DEF NoisedInv
  <2>6. CountInv'
      BY <1>1, <2>1, <2>2, StepPlaces DEF CountInv
  <2> QED
      BY <2>4, <2>5, <2>6 DEF ManyInv
<1> QED
    BY <1>6, <1>7

\* Between two steps nothing is collected, so a step starts with none.
LEMMA ManyAround ==
    ASSUME ManySamples, TrainingInv, ManyInv,
           Start \/ Test \/ Validate \/ NextStep \/ StepDone
    PROVE  ManyInv'
<1>1. /\ UNCHANGED <<noised, grad, avg, nonFinite, crashes, disk>>
      /\ pc' \in AroundSteps \union {"noise", "done"}
    BY DEF Start, Test, Validate, NextStep, StepDone, Goto, AroundSteps, ivonVars, noiseVars,
           statVars, fileVars, historyVars
<1>2. Nothing
  <2>1. CASE StepDone
    <3>1. pc = "sampled" /\ mc = M3poM
        BY <2>1 DEF StepDone, Goto
    <3> QED
        BY <3>1, StepPlaces DEF ManyInv, CountInv
  <2>2. CASE Start \/ Test \/ Validate \/ NextStep
    <3>1. pc \in AroundSteps
        BY <2>2 DEF Start, Test, Validate, NextStep, Goto, AroundSteps
    <3> QED
        BY <3>1 DEF ManyInv, CleanInv
  <2> QED
      BY <2>1, <2>2
<1>3. Nothing' /\ DOMAIN grad' = {} /\ DOMAIN avg' = {}
    BY <1>1, <1>2 DEF Nothing
<1>4. CleanInv'
  <2>1. Listed(grad)' /\ OfStep(grad)' /\ GradFinite'
      BY <1>3, ListedEmpty DEF Nothing, Listed, OfStep, GradFinite
  <2>2. (\A i \in DOMAIN avg : OfStep(avg[i]))'
      BY <1>3
  <2> QED
      BY <1>1, <1>3, <2>1, <2>2 DEF ManyInv, CleanInv
<1>5. pc' = "noise" \/ pc' \notin Rolling \union Updating \union Saving
    BY <1>1 DEF AroundSteps, Rolling, Updating, Saving
<1>6. NoisedInv'
  <2>1. noised' \in BOOLEAN
      BY <1>1, Zenon DEF ManyInv, NoisedInv
  <2> QED
      BY <1>5, <2>1, StepPlaces DEF NoisedInv
<1>7. CountInv'
  <2>1. pc' = "noise" => mc' = 1
    <3>1. pc' = "noise" => NextStep
        BY <1>1 DEF Start, Test, Validate, StepDone, Goto
    <3> QED
        BY <3>1 DEF NextStep
  <2>2. pc' = "noise" => Held(mc - 1)'
    <3>1. avg' = <<>> /\ Len(<<>>) = 0
        BY <1>3 DEF Nothing
    <3> QED
        BY <2>1, <3>1 DEF Held
  <2> QED
      BY <1>3, <1>5, <2>2, StepPlaces DEF CountInv
<1> QED
    BY <1>4, <1>6, <1>7 DEF ManyInv

\* Nothing is collected while the step is saved, and a checkpoint that is loaded has no samples.
LEMMA ManySave ==
    ASSUME ManySamples, TrainingInv, ManyInv, SaveBegin \/ SaveStep \/ EndStep PROVE ManyInv'
<1>1. /\ pc \in Saving /\ pc' \in Saving \union {"unbound"}
      /\ UNCHANGED <<noised, grad, avg, global_steps, nonFinite, crashes, mc>>
    BY DEF SaveBegin, SaveStep, SaveFiles, EndStep, Goto, Saving, ivonVars, noiseVars, statVars,
           historyVars, counterVars
<1>2. pc' \notin AroundSteps \union Rolling \union Updating
    BY <1>1, StepPlaces DEF Saving, AroundSteps
<1>3. M3poM = 1 => \A step \in DOMAIN disk' : \A checkpoint \in disk'[step] : checkpoint.avg = <<>>
  <2>1. \A step \in DOMAIN disk' : \A checkpoint \in disk'[step] :
            \/ step \in DOMAIN disk /\ checkpoint \in disk[step]
            \/ step = global_steps /\ checkpoint = Checkpoint
    <3>1. CASE EndStep
        BY <3>1 DEF EndStep, fileVars
    <3> QED
        BY <3>1, SavedFolders
  <2>2. M3poM = 1 => Checkpoint.avg = <<>>
      BY <1>1 DEF ManyInv, CleanInv, Nothing, Checkpoint
  <2> QED
      BY <2>1, <2>2 DEF ManyInv, CleanInv
<1>4. CleanInv'
  <2>1. Listed(grad)' /\ OfStep(grad)' /\ GradFinite' /\ (\A i \in DOMAIN avg : OfStep(avg[i]))'
      BY <1>1 DEF ManyInv, CleanInv, Listed, OfStep, GradFinite
  <2>2. M3poM = 1 => Nothing'
      BY <1>1 DEF ManyInv, CleanInv, Nothing
  <2> QED
      BY <1>1, <1>2, <1>3, <2>1, <2>2 DEF ManyInv, CleanInv
<1>5. NoisedInv'
  <2>1. noised' \in BOOLEAN
      BY <1>1, Zenon DEF ManyInv, NoisedInv
  <2> QED
      BY <1>2, <2>1, StepPlaces DEF NoisedInv
<1>6. CountInv'
  <2>1. pc' = "sampled" => CriticWarmup <= global_steps
    <3>1. pc' = "sampled" => EndStep
        BY DEF SaveBegin, SaveStep, SaveFiles, Goto
    <3>2. CriticWarmup \in Nat /\ global_steps \in Nat
        BY TrainingAssumption DEF TrainingInv, LoopTypes, PlaceTypes
    <3> QED
        BY <3>1, <3>2 DEF EndStep, Goto
  <2>2. CriticWarmup <= global_steps => IF mc = M3poM THEN Nothing ELSE Held(mc)
      BY <1>1 DEF ManyInv, CountInv
  <2>3. CriticWarmup <= global_steps' => IF mc' = M3poM THEN Nothing' ELSE Held(mc)'
      BY <1>1, <2>2 DEF Nothing, Held
  <2> QED
      BY <1>1, <1>2, <2>1, <2>3, StepPlaces DEF CountInv
<1> QED
    BY <1>4, <1>5, <1>6 DEF ManyInv

\* The next sample of M3PO finds those before it.
LEMMA ManyNextSample == ASSUME ManySamples, TrainingInv, ManyInv, NextSample PROVE ManyInv'
<1>1. /\ pc = "sampled" /\ pc' = "noise" /\ mc < M3poM /\ mc' = mc + 1
      /\ UNCHANGED <<noised, grad, avg, global_steps, nonFinite, crashes, disk>>
    BY DEF NextSample, Goto, ivonVars, noiseVars, statVars, fileVars, historyVars
<1>2. mc \in 1..M3poM /\ M3poM # 1 /\ mc # M3poM /\ mc' - 1 = mc
    BY <1>1, TrainingAssumption DEF TrainingInv, LoopTypes, CounterTypes
<1>3. Held(mc)
    BY <1>1, <1>2, StepPlaces DEF ManyInv, CountInv
<1>4. Held(mc - 1)'
    BY <1>1, <1>2, <1>3 DEF Held
<1>5. CleanInv'
  <2>1. pc' \notin AroundSteps \union Saving
      BY <1>1 DEF AroundSteps, Saving
  <2> QED
      BY <1>1, <2>1, CleanKept DEF ManyInv
<1>6. noised' \in BOOLEAN
    BY <1>1, Zenon DEF ManyInv, NoisedInv
<1>7. NoisedInv'
    BY <1>1, <1>6 DEF NoisedInv
<1>8. CountInv'
    BY <1>1, <1>2, <1>4, StepPlaces DEF CountInv
<1> QED
    BY <1>5, <1>7, <1>8 DEF ManyInv

\* A job that starts again has nothing collected.
LEMMA ManyCrash == ASSUME ManySamples, TrainingInv, ManyInv, Crash PROVE ManyInv'
<1>1. M3poM = 1 /\ UNCHANGED <<disk, nonFinite>>
    BY ManyFacts DEF Crash, ManyInv, CleanInv
<1>2. \A step \in DOMAIN disk : \A checkpoint \in disk[step] : checkpoint.avg = <<>>
    BY <1>1 DEF ManyInv, CleanInv
<1>3. ASSUME NEW step, NEW checkpoint, Resume(step, checkpoint), checkpoint.avg = <<>>
      PROVE  ManyInv'
  <2>1. pc' = "start" /\ avg' = <<>> /\ grad' = <<>> /\ noised' = FALSE
      BY <1>3 DEF Resume
  <2>2. Nothing' /\ DOMAIN grad' = {} /\ DOMAIN avg' = {}
      BY <2>1 DEF Nothing
  <2>3. pc' \notin Rolling \union Updating \union Saving
      BY <2>1 DEF Rolling, Updating, Saving
  <2>4. CleanInv'
    <3>1. Listed(grad)' /\ OfStep(grad)' /\ GradFinite'
        BY <2>1, <2>2, ListedEmpty DEF Listed, OfStep, GradFinite
    <3> QED
        BY <1>1, <1>2, <2>2, <3>1, ManyFacts DEF ManyInv, CleanInv
  <2>5. noised' \in BOOLEAN
      BY <2>1, Zenon
  <2>6. NoisedInv'
      BY <2>3, <2>5, StepPlaces DEF NoisedInv
  <2>7. CountInv'
      BY <2>3, StepPlaces DEF CountInv
  <2> QED
      BY <2>4, <2>6, <2>7 DEF ManyInv
<1>4. CASE Resume(0, Scratch)
    BY <1>3, <1>4 DEF Scratch
<1>5. ASSUME NEW checkpoint \in Latest, Resume(tracker, checkpoint) PROVE ManyInv'
  <2>1. tracker \in DOMAIN disk /\ checkpoint \in disk[tracker]
      BY <1>5 DEF Latest
  <2> QED
      BY <1>2, <1>3, <1>5, <2>1
<1>6. CASE pc' = "unloadable" /\ UNCHANGED <<noiseVars, grad, statVars, global_steps>>
  <2>1. pc' \notin Rolling \union Updating \union Saving \union AroundSteps
      BY <1>6 DEF Rolling, Updating, Saving, AroundSteps
  <2>2. UNCHANGED <<noised, grad, avg, global_steps>>
      BY <1>6 DEF noiseVars, statVars
  <2>3. Listed(grad)' /\ OfStep(grad)' /\ GradFinite' /\ (\A i \in DOMAIN avg : OfStep(avg[i]))'
      BY <2>2 DEF ManyInv, CleanInv, Listed, OfStep, GradFinite
  <2>4. CleanInv'
      BY <1>1, <2>1, <2>3, ManyFacts DEF ManyInv, CleanInv
  <2>5. noised' \in BOOLEAN
      BY <2>2, Zenon DEF ManyInv, NoisedInv
  <2>6. NoisedInv'
      BY <2>1, <2>5, StepPlaces DEF NoisedInv
  <2>7. CountInv'
      BY <2>1, StepPlaces DEF CountInv
  <2> QED
      BY <2>4, <2>6, <2>7 DEF ManyInv
<1> QED
    BY <1>4, <1>5, <1>6 DEF Crash, Load

LEMMA ManyNext == ASSUME ManySamples, TrainingInv, ManyInv, [Next]_vars PROVE ManyInv'
<1>1. CASE UNCHANGED vars
  <2>1. UNCHANGED <<pc, noised, grad, avg, global_steps, nonFinite, crashes, disk, mc, decoupled,
                    miniBatch>>
      BY <1>1 DEF vars, ivonVars, noiseVars, statVars, fileVars, counterVars, historyVars
  <2>2. CleanInv'
      BY <2>1, CleanKept DEF ManyInv, CleanInv
  <2>3. NoisedInv'
      BY <2>1, Zenon DEF ManyInv, NoisedInv
  <2>4. CountInv'
      BY <2>1 DEF ManyInv, CountInv, Held, AfterSample, TakesStep, Sample, Nothing
  <2> QED
      BY <2>2, <2>3, <2>4 DEF ManyInv
<1> QED
    BY <1>1, ManyAround, ManyRollouts, ManyNoiseAgain, ManyBackward, ManyRestore, ManyTakeStep,
       ManyNextMiniBatch, ManyUpdateDone, ManySave, ManyNextSample, ManyCrash DEF Next, Ended

\* A single sample a step, or samples of which none is skipped, and M3PO without a crash: an
\* optimizer step averages exactly the samples of its own step, as many as the algorithm has,
\* whatever the mini batches, chunks, warm-up, saves and crashes (_restore_param_average appends
\* to avg_grad, _reset_samples empties it, save_checkpoint writes it).  A skipped update and a
\* crash between two samples of M3PO do leave samples of another step or too few.
THEOREM SamplesOfTheirOwnStep ==
    ASSUME SingleSample \/ (MaxNonFinite = 0 /\ (M3poM = 1 \/ MaxCrashes = 0))
    PROVE  Spec => []SamplesPerStep
<1>1. Init => SamplesPerStep
    BY DEF Init, SamplesPerStep
<1>2. CASE SingleSample
  <2>1. Init => SingleInv
      BY DEF Init, SingleInv
  <2>2. SingleInv /\ [Next]_vars => SingleInv'
      BY <1>2, SingleNext
  <2>3. TrainingInv /\ SingleInv /\ SamplesPerStep /\ [Next]_vars => SamplesPerStep'
    <3>1. ASSUME SingleInv, TakeStep
          PROVE  /\ Len(Collected) = TrainSamples
                 /\ \A i \in DOMAIN Collected : OfStep(Collected[i])
      <4>1. Collected = <<grad>> /\ TrainSamples = 1
          BY <1>2 DEF Collected, SingleSample
      <4>2. OfStep(grad)
          BY <3>1 DEF SingleInv, TakeStep
      <4> QED
          BY <4>1, <4>2
    <3> QED
        BY <3>1, StepOfItsSamples
  <2> QED
      BY <1>1, <2>1, <2>2, <2>3, TrainingAlways, PTL DEF Spec
<1>3. CASE ManySamples
  <2>1. Init => ManyInv
      BY ManyInit
  <2>2. TrainingInv /\ ManyInv /\ [Next]_vars => ManyInv'
      BY <1>3, ManyNext
  <2>3. TrainingInv /\ ManyInv /\ SamplesPerStep /\ [Next]_vars => SamplesPerStep'
      BY <1>3, ManyCollected, StepOfItsSamples
  <2> QED
      BY <1>1, <2>1, <2>2, <2>3, TrainingAlways, PTL DEF Spec
<1> QED
    BY <1>2, <1>3 DEF ManySamples

-----------------------------------------------------------------------------
(* The rows of a batch *)

PerPass == Prompts * PerIter     \* rows of one call of generate_sequences
Rows == Prompts * GroupSize

\* A number is below a product if its quotient is below the factor.
LEMMA BelowProduct ==
    ASSUME NEW n \in Nat \ {0}, NEW m \in Nat, NEW q \in Nat, NEW r \in 0..(n - 1), q < m
    PROVE  n * q + r \in 0..(n * m - 1)
<1>1. n * (q + 1) <= n * m
    OBVIOUS
<1>2. n * (q + 1) = n * q + n
    OBVIOUS
<1>3. n * q \in Nat /\ n * m \in Nat
    OBVIOUS
<1> QED
    BY <1>1, <1>2, <1>3

\* Quotient and remainder of what was put together from them.
LEMMA DivOf ==
    ASSUME NEW n \in Nat \ {0}, NEW q \in Nat, NEW r \in 0..(n - 1)
    PROVE  /\ (n * q + r) \div n = q
           /\ (n * q + r) % n = r
<1> DEFINE a == n * q + r
<1> DEFINE p == a \div n
<1> DEFINE s == a % n
<1>1. a \in Nat
    OBVIOUS
<1>2. a = n * q + r
    OBVIOUS
<1> HIDE DEF a
<1>3. p \in Nat /\ s \in 0..(n - 1) /\ a = n * p + s
    BY <1>1, DivFacts
<1> HIDE DEF p, s
<1>4. n * q + r = n * p + s /\ q \in Int /\ p \in Int
    BY <1>2, <1>3
<1>5. q = p /\ r = s
    BY <1>3, <1>4, DivUnique
<1> QED
    BY <1>5 DEF a, p, s

\* The quotient of a number below a product is below the factor.
LEMMA DivBelow ==
    ASSUME NEW n \in Nat \ {0}, NEW m \in Nat, NEW a \in 0..(n * m - 1)
    PROVE  a \div n \in 0..(m - 1)
<1> DEFINE q == a \div n
<1>1. a \in Nat
    OBVIOUS
<1>2. q \in Nat /\ a % n \in 0..(n - 1) /\ a = n * q + (a % n)
    BY <1>1, DivFacts
<1> HIDE DEF q
<1>3. n * m \in Int /\ n * q <= a
    BY <1>2
<1>4. CASE m <= q
  <2>1. n * m <= n * q
      BY <1>2, <1>4
  <2> QED
      BY <1>3, <2>1
<1>5. CASE q < m
    BY <1>2, <1>5 DEF q
<1> QED
    BY <1>2, <1>4, <1>5

\* A group is Chunks times PerIter rows, a batch Chunks calls' rows.
LEMMA Sizes ==
    /\ PerIter \in Nat \ {0} /\ GroupSize = PerIter * Chunks
    /\ PerPass \in Nat \ {0} /\ PerPass = PerIter * Prompts
    /\ Rows = PerPass * Chunks /\ Rows = GroupSize * Prompts /\ Rows \in Nat \ {0}
<1> USE TrainingAssumption
<1>1. PerIter \in Nat /\ GroupSize = Chunks * PerIter
  <2>1. /\ GroupSize \div Chunks \in Nat
        /\ GroupSize = Chunks * (GroupSize \div Chunks) + (GroupSize % Chunks)
      BY DivFacts
  <2>2. PerIter = GroupSize \div Chunks
      BY DEF PerIter
  <2>3. GroupSize % Chunks = 0
      OBVIOUS
  <2>4. Chunks * PerIter \in Int
      BY <2>1, <2>2
  <2> QED
      BY <2>1, <2>2, <2>3, <2>4
<1>2. PerIter # 0
    BY <1>1
<1>3. PerPass \in Nat \ {0} /\ PerPass = PerIter * Prompts
    BY <1>1, <1>2 DEF PerPass
<1>4. Rows = PerPass * Chunks
  <2>1. Rows = Prompts * (Chunks * PerIter)
      BY <1>1 DEF Rows
  <2>2. PerPass * Chunks = (Prompts * PerIter) * Chunks
      BY DEF PerPass
  <2>3. Prompts * (Chunks * PerIter) = (Prompts * PerIter) * Chunks
      BY <1>1
  <2> QED
      BY <2>1, <2>2, <2>3
<1>5. Rows = GroupSize * Prompts /\ Rows \in Nat \ {0}
    BY DEF Rows
<1> QED
    BY <1>1, <1>2, <1>3, <1>4, <1>5

\* Where reorder_indices takes a row from: the call of its chunk, and there a row of its prompt.
LEMMA RowOfPlace ==
    ASSUME NEW k \in 0..(Rows - 1)
    PROVE  /\ RowOf(k) \in 0..(Rows - 1)
           /\ RowOf(k) \div PerPass = (k % GroupSize) \div PerIter
           /\ (RowOf(k) % PerPass) \div PerIter = k \div GroupSize
<1> DEFINE p == k \div GroupSize
<1> DEFINE c == (k % GroupSize) \div PerIter
<1> DEFINE r == k % PerIter
<1> DEFINE s == PerIter * p + r
<1> USE TrainingAssumption, Sizes
<1>1. k \in Nat
    OBVIOUS
<1>2. p \in 0..(Prompts - 1)
    BY DivBelow
<1>3. k % GroupSize \in 0..(PerIter * Chunks - 1)
  <2>1. k % GroupSize \in 0..(GroupSize - 1)
      BY <1>1, DivFacts
  <2> QED
      BY <2>1
<1>4. c \in 0..(Chunks - 1)
    BY <1>3, DivBelow
<1>5. r \in 0..(PerIter - 1)
    BY <1>1, DivFacts
<1>6. RowOf(k) = c * (Prompts * PerIter) + p * PerIter + r
    BY DEF RowOf
<1> HIDE DEF p, c, r
<1>7. s \in 0..(PerPass - 1)
    BY <1>2, <1>5, BelowProduct
<1>8. s \div PerIter = p
    BY <1>2, <1>5, DivOf
<1>9. RowOf(k) = PerPass * c + s
  <2>1. c * (Prompts * PerIter) = PerPass * c
      BY <1>4 DEF PerPass
  <2>2. p * PerIter = PerIter * p
      BY <1>2
  <2>3. PerPass * c \in Int /\ PerIter * p \in Int
      BY <1>2, <1>4
  <2> QED
      BY <1>5, <1>6, <2>1, <2>2, <2>3
<1> HIDE DEF s
<1>10. RowOf(k) \div PerPass = c /\ RowOf(k) % PerPass = s
    BY <1>4, <1>7, <1>9, DivOf
<1>11. RowOf(k) \in 0..(PerPass * Chunks - 1)
    BY <1>4, <1>7, <1>9, BelowProduct
<1> QED
    BY <1>8, <1>10, <1>11 DEF p, c

ChunkOf(i) == ((i - 1) % GroupSize) \div PerIter

\* the batch as the update gets it
Grouped(rows, m) ==
    /\ DOMAIN rows = 1..Rows
    /\ \A i \in 1..Rows : rows[i].prompt = (i - 1) \div GroupSize
    /\ \A i, j \in 1..Rows : rows[i].weights = rows[j].weights <=> ChunkOf(i) = ChunkOf(j)
    /\ \A i \in 1..Rows : \A w \in rows[i].weights : w.mean = m /\ w.offset # {}

\* The rows of a prompt.
LEMMA GroupRows ==
    ASSUME NEW p \in 0..(Prompts - 1)
    PROVE  /\ {i \in 1..Rows : (i - 1) \div GroupSize = p}
                  = (GroupSize * p + 1)..(GroupSize * p + GroupSize)
           /\ GroupSize * p \in Nat
           /\ \A r \in 0..(GroupSize - 1) : ChunkOf(GroupSize * p + r + 1) = r \div PerIter
<1> DEFINE base == GroupSize * p
<1> USE TrainingAssumption, Sizes
<1>1. base \in Nat
    OBVIOUS
<1>2. ASSUME NEW r \in 0..(GroupSize - 1)
      PROVE  /\ base + r \in 0..(Rows - 1)
             /\ (base + r) \div GroupSize = p /\ (base + r) % GroupSize = r
  <2>1. base + r \in 0..(GroupSize * Prompts - 1)
      BY BelowProduct
  <2>2. (base + r) \div GroupSize = p /\ (base + r) % GroupSize = r
      BY DivOf
  <2> QED
      BY <2>1, <2>2
<1> HIDE DEF base
<1>3. ASSUME NEW r \in 0..(GroupSize - 1) PROVE ChunkOf(base + r + 1) = r \div PerIter
  <2>1. (base + r + 1) - 1 = base + r
      BY <1>1
  <2> QED
      BY <1>2, <2>1 DEF ChunkOf
<1>4. ASSUME NEW i \in 1..Rows, (i - 1) \div GroupSize = p
      PROVE  i \in (base + 1)..(base + GroupSize)
  <2>1. i - 1 \in Nat
      OBVIOUS
  <2>2. (i - 1) % GroupSize \in 0..(GroupSize - 1) /\ i - 1 = base + ((i - 1) % GroupSize)
      BY <1>4, <2>1, DivFacts DEF base
  <2> QED
      BY <1>1, <2>2
<1>5. ASSUME NEW i \in (base + 1)..(base + GroupSize)
      PROVE  i \in 1..Rows /\ (i - 1) \div GroupSize = p
  <2>1. i - 1 - base \in 0..(GroupSize - 1) /\ base + (i - 1 - base) = i - 1
      BY <1>1
  <2>2. i - 1 \in 0..(Rows - 1) /\ (i - 1) \div GroupSize = p
      BY <1>2, <2>1
  <2> QED
      BY <1>1, <2>2
<1>6. {i \in 1..Rows : (i - 1) \div GroupSize = p} = (base + 1)..(base + GroupSize)
    BY <1>4, <1>5
<1> QED
    BY <1>1, <1>3, <1>6 DEF base

\* Among the rows of a prompt, PerIter in a row are of one chunk.
LEMMA ChunkRows ==
    ASSUME NEW base \in Nat, NEW c \in 0..(Chunks - 1), NEW low, low = base + PerIter * c,
           \A r \in 0..(GroupSize - 1) : ChunkOf(base + r + 1) = r \div PerIter
    PROVE  /\ low \in Nat
           /\ \A i \in (base + 1)..(base + GroupSize) :
                  ChunkOf(i) = c => i \in (low + 1)..(low + PerIter)
           /\ \A i \in (low + 1)..(low + PerIter) :
                  i \in (base + 1)..(base + GroupSize) /\ ChunkOf(i) = c
<1> DEFINE start == PerIter * c
<1> USE TrainingAssumption, Sizes
<1>1. start \in Nat /\ low = base + start
    OBVIOUS
<1>2. ASSUME NEW s \in 0..(PerIter - 1)
      PROVE  start + s \in 0..(GroupSize - 1) /\ (start + s) \div PerIter = c
  <2>1. start + s \in 0..(PerIter * Chunks - 1)
      BY BelowProduct
  <2> QED
      BY <2>1, DivOf
<1>3. ASSUME NEW r \in 0..(GroupSize - 1), r \div PerIter = c
      PROVE  r \in start..(start + PerIter - 1)
  <2>1. r \in Nat
      OBVIOUS
  <2>2. r % PerIter \in 0..(PerIter - 1) /\ r = start + (r % PerIter)
      BY <1>3, <2>1, DivFacts
  <2> QED
      BY <1>1, <2>2
<1> HIDE DEF start
<1>4. ASSUME NEW i \in (base + 1)..(base + GroupSize), ChunkOf(i) = c
      PROVE  i \in (low + 1)..(low + PerIter)
  <2>1. i - 1 - base \in 0..(GroupSize - 1) /\ base + (i - 1 - base) + 1 = i
      OBVIOUS
  <2>2. (i - 1 - base) \div PerIter = c
      BY <1>4, <2>1
  <2>3. i - 1 - base \in start..(start + PerIter - 1)
      BY <1>3, <2>1, <2>2
  <2> QED
      BY <1>1, <2>3
<1>5. ASSUME NEW i \in (low + 1)..(low + PerIter)
      PROVE  i \in (base + 1)..(base + GroupSize) /\ ChunkOf(i) = c
  <2> DEFINE s == i - 1 - low
  <2>1. s \in 0..(PerIter - 1) /\ base + (start + s) + 1 = i
      BY <1>1
  <2> HIDE DEF s
  <2>2. start + s \in 0..(GroupSize - 1) /\ (start + s) \div PerIter = c
      BY <1>2, <2>1
  <2>3. ChunkOf(i) = c
      BY <2>1, <2>2
  <2> QED
      BY <2>1, <2>2, <2>3
<1>6. low \in Nat
    BY <1>1
<1> QED
    BY <1>4, <1>5, <1>6

\* A batch in groups is what GroupSplit asks for.
LEMMA GroupedIsSplit == ASSUME Grouped(batch, mean) PROVE GroupSplit
<1> USE TrainingAssumption, Sizes
<1> SUFFICES ASSUME NEW p \in 0..(Prompts - 1)
             PROVE  LET group == {i \in DOMAIN batch : (i - 1) \div GroupSize = p}
                        used == {batch[i].weights : i \in group}
                    IN  /\ Cardinality(group) = GroupSize
                        /\ \A i \in group : batch[i].prompt = p
                        /\ Cardinality(used) = Chunks
                        /\ \A u \in used : /\ Cardinality({i \in group : batch[i].weights = u}) = PerIter
                                           /\ \A w \in u : w.mean = mean /\ w.offset # {}
    BY DEF GroupSplit
<1> DEFINE group == {i \in DOMAIN batch : (i - 1) \div GroupSize = p}
<1> DEFINE used == {batch[i].weights : i \in group}
<1> DEFINE base == GroupSize * p
<1> DEFINE first(c) == base + PerIter * (c - 1) + 1
<1> DEFINE f == [c \in 1..Chunks |-> batch[first(c)].weights]
<1>1. /\ group = (base + 1)..(base + GroupSize) /\ base \in Nat
      /\ \A r \in 0..(GroupSize - 1) : ChunkOf(base + r + 1) = r \div PerIter
    BY GroupRows DEF Grouped
<1>2. /\ group \subseteq 1..Rows /\ \A i \in group : batch[i].prompt = p
      /\ \A i, j \in group : batch[i].weights = batch[j].weights <=> ChunkOf(i) = ChunkOf(j)
      /\ \A i \in group : \A w \in batch[i].weights : w.mean = mean /\ w.offset # {}
  <2>1. \A i \in group : i \in 1..Rows /\ (i - 1) \div GroupSize = p
      BY DEF Grouped
  <2> HIDE DEF group
  <2>2. group \subseteq 1..Rows /\ \A i \in group : batch[i].prompt = p
    <3>1. \A i \in 1..Rows : batch[i].prompt = (i - 1) \div GroupSize
        BY DEF Grouped
    <3> QED
        BY <2>1, <3>1
  <2>3. \A i, j \in group : batch[i].weights = batch[j].weights <=> ChunkOf(i) = ChunkOf(j)
    <3>1. \A i, j \in 1..Rows : batch[i].weights = batch[j].weights <=> ChunkOf(i) = ChunkOf(j)
        BY DEF Grouped
    <3> QED
        BY <2>1, <3>1
  <2>4. \A i \in group : \A w \in batch[i].weights : w.mean = mean /\ w.offset # {}
      BY <2>1 DEF Grouped
  <2> QED
      BY <2>2, <2>3, <2>4
<1> HIDE DEF base, group
<1>3. Cardinality(group) = GroupSize
  <2>1. base + 1 \in Int /\ base + GroupSize \in Int /\ ~(base + 1 > base + GroupSize)
      BY <1>1
  <2>2. Cardinality((base + 1)..(base + GroupSize)) = (base + GroupSize) - (base + 1) + 1
      BY <2>1, FS_Interval
  <2> QED
      BY <1>1, <2>2
<1>4. ASSUME NEW c \in 0..(Chunks - 1), NEW low, low = base + PerIter * c
      PROVE  low \in Nat /\ {i \in group : ChunkOf(i) = c} = (low + 1)..(low + PerIter)
  <2>1. /\ low \in Nat
        /\ \A i \in (base + 1)..(base + GroupSize) :
               ChunkOf(i) = c => i \in (low + 1)..(low + PerIter)
        /\ \A i \in (low + 1)..(low + PerIter) :
               i \in (base + 1)..(base + GroupSize) /\ ChunkOf(i) = c
      BY ONLY <1>1, <1>4, ChunkRows
  <2> QED
      BY <1>1, <2>1
<1>5. ASSUME NEW c \in 1..Chunks PROVE first(c) \in group /\ ChunkOf(first(c)) = c - 1
  <2>1. c - 1 \in 0..(Chunks - 1)
      OBVIOUS
  <2>2. PICK low : low = base + PerIter * (c - 1)
      OBVIOUS
  <2>3. low \in Nat /\ {i \in group : ChunkOf(i) = c - 1} = (low + 1)..(low + PerIter)
      BY <1>4, <2>1, <2>2
  <2>4. low + 1 \in (low + 1)..(low + PerIter) /\ first(c) = low + 1
      BY <2>2, <2>3
  <2> HIDE DEF first
  <2> QED
      BY <2>3, <2>4
<1>6. ASSUME NEW i \in group PROVE ChunkOf(i) \in 0..(Chunks - 1)
  <2>1. i - 1 - base \in 0..(PerIter * Chunks - 1) /\ base + (i - 1 - base) + 1 = i
      BY <1>1
  <2>2. ChunkOf(i) = (i - 1 - base) \div PerIter
      BY <1>1, <2>1
  <2> QED
      BY <2>1, <2>2, DivBelow
<1>7. ASSUME NEW u \in used
      PROVE  /\ Cardinality({i \in group : batch[i].weights = u}) = PerIter
             /\ \A w \in u : w.mean = mean /\ w.offset # {}
  <2>1. PICK i \in group : u = batch[i].weights
      OBVIOUS
  <2>2. PICK c \in 0..(Chunks - 1) : c = ChunkOf(i)
      BY <1>6
  <2>3. {j \in group : batch[j].weights = u} = {j \in group : ChunkOf(j) = c}
      BY <1>2, <2>1, <2>2
  <2>4. PICK low : low = base + PerIter * c
      OBVIOUS
  <2>5. low \in Nat /\ {j \in group : ChunkOf(j) = c} = (low + 1)..(low + PerIter)
      BY <1>4, <2>4
  <2>6. Cardinality((low + 1)..(low + PerIter)) = PerIter
    <3>1. low + 1 \in Int /\ low + PerIter \in Int /\ ~(low + 1 > low + PerIter)
        BY <2>5
    <3>2. Cardinality((low + 1)..(low + PerIter)) = (low + PerIter) - (low + 1) + 1
        BY <3>1, FS_Interval
    <3>3. (low + PerIter) - (low + 1) + 1 = PerIter
        BY <2>5
    <3> QED
        BY <3>2, <3>3
  <2> QED
      BY <1>2, <2>1, <2>3, <2>5, <2>6
<1>8. Cardinality(used) = Chunks
  <2>1. f \in [1..Chunks -> used]
      BY <1>5
  <2>2. \A c, d \in 1..Chunks : f[c] = f[d] => c = d
    <3> SUFFICES ASSUME NEW c \in 1..Chunks, NEW d \in 1..Chunks, f[c] = f[d] PROVE c = d
        OBVIOUS
    <3>1. batch[first(c)].weights = batch[first(d)].weights
        OBVIOUS
    <3>2. ChunkOf(first(c)) = ChunkOf(first(d))
        BY <1>2, <1>5, <3>1
    <3>3. c - 1 = d - 1
        BY <1>5, <3>2
    <3> QED
        BY <3>3
  <2>3. \A u \in used : \E c \in 1..Chunks : f[c] = u
    <3> SUFFICES ASSUME NEW i \in group PROVE \E c \in 1..Chunks : f[c] = batch[i].weights
        OBVIOUS
    <3>1. ChunkOf(i) + 1 \in 1..Chunks
        BY <1>6
    <3>2. ChunkOf(first(ChunkOf(i) + 1)) = ChunkOf(i) /\ first(ChunkOf(i) + 1) \in group
      <4>1. ChunkOf(i) \in Int
          BY <1>6
      <4> QED
          BY <1>5, <3>1, <4>1
    <3>3. batch[first(ChunkOf(i) + 1)].weights = batch[i].weights
        BY <1>2, <3>2
    <3> QED
        BY <3>1, <3>3
  <2> HIDE DEF f, used
  <2>4. ExistsBijection(1..Chunks, used)
      BY <2>1, <2>2, <2>3 DEF ExistsBijection, Bijection, Injection, Surjection, IsInjective
  <2>5. IsFiniteSet(1..Chunks) /\ Cardinality(1..Chunks) = Chunks
      BY FS_Interval
  <2> QED
      BY <2>4, <2>5, FS_Bijection
<1> QED
    BY <1>2, <1>3, <1>7, <1>8 DEF group

\* A function on 1..k is a sequence.
LEMMA ListedFunction ==
    ASSUME NEW k \in Nat, NEW f, f = [i \in 1..k |-> f[i]]
    PROVE  Listed(f) /\ Len(f) = k
<1>1. f \in [1..k -> Range(f)]
    BY DEF Range
<1>2. f \in Seq(Range(f))
    BY <1>1
<1> QED
    BY <1>1, <1>2 DEF Listed

\* One sequence after the other.
LEMMA ListedConcat ==
    ASSUME NEW s, Listed(s), NEW t, Listed(t)
    PROVE  /\ Listed(s \o t) /\ Len(s) \in Nat /\ Len(t) \in Nat
           /\ Len(s \o t) = Len(s) + Len(t)
           /\ \A i \in 1..(Len(s) + Len(t)) : (s \o t)[i] = IF i <= Len(s) THEN s[i] ELSE t[i - Len(s)]
<1> DEFINE T == Range(s) \union Range(t)
<1>1. s \in Seq(T) /\ t \in Seq(T)
    BY DEF Listed
<1> HIDE DEF T
<1>2. /\ s \o t \in Seq(T)
      /\ Len(s \o t) = Len(s) + Len(t)
      /\ \A i \in 1..(Len(s) + Len(t)) : (s \o t)[i] = IF i <= Len(s) THEN s[i] ELSE t[i - Len(s)]
    BY <1>1, ConcatProperties
<1>3. Len(s) \in Nat /\ Len(t) \in Nat
    BY <1>1
<1>4. s \o t \in Seq(Range(s \o t))
  <2>1. \A q \in Seq(T) : q \in Seq(Range(q))
      BY DEF Range
  <2> QED
      BY <1>2, <2>1
<1> QED
    BY <1>2, <1>3, <1>4 DEF Listed

\* what the engine has after a draw: the mean with one vector
Perturbed(m, d, s) == {[mean |-> m, offset |-> {<<d, s>>}]}

\* a draw before limit
Earlier(w, m, limit) == \E d \in 1..(limit - 1) : \E s \in Nat : w = Perturbed(m, d, s)

\* Two draws are two vectors.
LEMMA DrawsDiffer ==
    ASSUME NEW m, NEW d \in Nat, NEW s, NEW w, Earlier(w, m, d) PROVE w # Perturbed(m, d, s)
<1>1. PICK e \in 1..(d - 1), t \in Nat : w = Perturbed(m, e, t)
    BY DEF Earlier
<1>2. {<<e, t>>} # {<<d, s>>}
  <2>1. e # d
      OBVIOUS
  <2>2. <<e, t>> # <<d, s>>
      BY <2>1
  <2> QED
      BY <2>2
<1>3. [mean |-> m, offset |-> {<<e, t>>}].offset # [mean |-> m, offset |-> {<<d, s>>}].offset
    BY <1>2
<1>4. [mean |-> m, offset |-> {<<e, t>>}] # [mean |-> m, offset |-> {<<d, s>>}]
    BY <1>3
<1> QED
    BY <1>1, <1>4 DEF Perturbed

\* the rows of the calls made so far, each with the vector of its call, one of those drawn before limit
AsMade(rows, m, calls, limit) ==
    /\ Listed(rows) /\ Len(rows) = PerPass * calls
    /\ \A i \in 1..(PerPass * calls) :
          /\ rows[i].prompt = ((i - 1) % PerPass) \div PerIter
          /\ Earlier(rows[i].weights, m, limit)
    /\ \A i, j \in 1..(PerPass * calls) :
          rows[i].weights = rows[j].weights <=> (i - 1) \div PerPass = (j - 1) \div PerPass

RowsInv ==
    /\ pc \in {"sync", "generate", "denoise"} => noised /\ genState > 0
    /\ pc = "generate" => engine = {Weights}
    /\ pc = "noise" => AsMade(batch, mean, chunk - 1, drawn + 1)
    /\ pc \in {"sync", "generate"} => AsMade(batch, mean, chunk - 1, genState)
    /\ pc = "denoise" => AsMade(batch, mean, chunk, drawn + 1)
    /\ pc = "union" => AsMade(batch, mean, Chunks, drawn + 1)
    /\ pc = "noiseAgain" \/ (pc \in Updating /\ ~TakesStep) => Grouped(batch, mean)
    /\ pc = "step" => TakesStep

\* Nothing has been generated yet.
LEMMA NoRows == ASSUME NEW m, NEW limit PROVE AsMade(<<>>, m, 0, limit)
<1>1. PerPass * 0 = 0
    BY Sizes
<1>2. 1..0 = {} /\ Len(<<>>) = 0
    OBVIOUS
<1> HIDE DEF PerPass
<1> QED
    BY <1>1, <1>2, ListedEmpty DEF AsMade

\* A call adds its rows, and none of them has the vector of an earlier call.
LEMMA RowsOfCall ==
    ASSUME NEW calls \in Nat, NEW d \in Nat \ {0}, NEW s \in Nat, NEW limit \in Nat, d < limit,
           NEW m, NEW w, w = Perturbed(m, d, s), NEW old, AsMade(old, m, calls, d),
           NEW rows, rows = old \o [i \in 1..(Prompts * PerIter) |->
                                      [prompt |-> (i - 1) \div PerIter, weights |-> w]]
    PROVE  AsMade(rows, m, calls + 1, limit)
<1> DEFINE n == PerPass * calls
<1>1. n \in Nat /\ PerPass * (calls + 1) = n + PerPass /\ PerPass \in Nat \ {0}
    BY Sizes
<1>2. /\ Listed(old) /\ Len(old) = n
      /\ \A i \in 1..n : /\ old[i].prompt = ((i - 1) % PerPass) \div PerIter
                         /\ Earlier(old[i].weights, m, d)
      /\ \A i, j \in 1..n :
            old[i].weights = old[j].weights <=> (i - 1) \div PerPass = (j - 1) \div PerPass
    BY DEF AsMade
<1>3. ASSUME NEW i \in 1..n PROVE (i - 1) \div PerPass \in 0..(calls - 1)
  <2>1. i - 1 \in 0..(PerPass * calls - 1)
      BY <1>1
  <2> QED
      BY <1>1, <2>1, DivBelow
<1>4. ASSUME NEW k \in 1..PerPass
      PROVE  (n + k - 1) \div PerPass = calls /\ (n + k - 1) % PerPass = k - 1
  <2>1. k - 1 \in 0..(PerPass - 1) /\ n + k - 1 = PerPass * calls + (k - 1)
      BY <1>1
  <2> QED
      BY <1>1, <2>1, DivOf
<1>5. PICK new : /\ new = [i \in 1..PerPass |-> [prompt |-> (i - 1) \div PerIter, weights |-> w]]
                 /\ rows = old \o new
    BY DEF PerPass
<1>6. Listed(new) /\ Len(new) = PerPass
  <2>1. new = [i \in 1..PerPass |-> new[i]]
      BY <1>5
  <2> QED
      BY <1>1, <2>1, ListedFunction
<1> HIDE DEF n
<1>7. /\ Listed(rows) /\ Len(rows) = n + PerPass
      /\ \A i \in 1..(n + PerPass) : rows[i] = IF i <= n THEN old[i] ELSE new[i - n]
  <2>1. /\ Listed(old \o new) /\ Len(old \o new) = Len(old) + Len(new)
        /\ \A i \in 1..(Len(old) + Len(new)) :
              (old \o new)[i] = IF i <= Len(old) THEN old[i] ELSE new[i - Len(old)]
      BY <1>2, <1>6, ListedConcat, Zenon
  <2>2. Len(old) = n /\ Len(new) = PerPass /\ rows = old \o new
      BY <1>2, <1>5, <1>6
  <2> QED
      BY ONLY <2>1, <2>2, Zenon
<1>8. ASSUME NEW i \in 1..(n + PerPass), ~(i <= n)
      PROVE  /\ rows[i].prompt = ((i - 1) % PerPass) \div PerIter
             /\ rows[i].weights = Perturbed(m, d, s)
             /\ (i - 1) \div PerPass = calls
  <2>1. PICK k \in 1..PerPass : k = i - n /\ n + k - 1 = i - 1
    <3>1. n \in Nat /\ PerPass \in Nat
        BY <1>1
    <3> QED
        BY <1>8, <3>1
  <2>2. rows[i] = [prompt |-> (k - 1) \div PerIter, weights |-> w]
    <3>1. rows[i] = new[k]
        BY <1>7, <1>8, <2>1
    <3> QED
        BY <1>5, <3>1
  <2>3. (i - 1) \div PerPass = calls /\ (i - 1) % PerPass = k - 1
      BY <1>4, <2>1
  <2>4. \A row, x, y : row = [prompt |-> x, weights |-> y] => row.prompt = x /\ row.weights = y
      OBVIOUS
  <2>5. rows[i].prompt = (k - 1) \div PerIter /\ rows[i].weights = Perturbed(m, d, s)
      BY <2>2, <2>4, Zenon
  <2> QED
      BY <2>3, <2>5
<1>9. ASSUME NEW i \in 1..(n + PerPass), i <= n
      PROVE  /\ rows[i] = old[i] /\ i \in 1..n
             /\ (i - 1) \div PerPass # calls
             /\ rows[i].weights # Perturbed(m, d, s)
  <2>1. rows[i] = old[i] /\ i \in 1..n
    <3>1. rows[i] = old[i]
        BY <1>7, <1>9
    <3>2. n \in Nat /\ PerPass \in Nat
        BY <1>1
    <3>3. i \in 1..n
        BY <1>9, <3>2
    <3> QED
        BY <3>1, <3>3
  <2>2. (i - 1) \div PerPass # calls
      BY <1>3, <2>1
  <2>3. Earlier(old[i].weights, m, d)
      BY <1>2, <2>1
  <2>4. old[i].weights # Perturbed(m, d, s)
      BY <2>3, DrawsDiffer
  <2> QED
      BY <2>1, <2>2, <2>4
<1>10. \A i \in 1..(n + PerPass) :
          /\ rows[i].prompt = ((i - 1) % PerPass) \div PerIter
          /\ Earlier(rows[i].weights, m, limit)
  <2> SUFFICES ASSUME NEW i \in 1..(n + PerPass)
               PROVE  /\ rows[i].prompt = ((i - 1) % PerPass) \div PerIter
                      /\ Earlier(rows[i].weights, m, limit)
      OBVIOUS
  <2>1. CASE i <= n
    <3>1. rows[i] = old[i] /\ i \in 1..n
        BY <1>9, <2>1
    <3>2. old[i].prompt = ((i - 1) % PerPass) \div PerIter /\ Earlier(old[i].weights, m, d)
        BY <1>2, <3>1
    <3>3. Earlier(old[i].weights, m, limit)
        BY <3>2 DEF Earlier
    <3> QED
        BY <3>1, <3>2, <3>3
  <2>2. CASE ~(i <= n)
    <3>1. d \in 1..(limit - 1)
        OBVIOUS
    <3>2. rows[i].weights = Perturbed(m, d, s)
        BY <1>8, <2>2
    <3>3. Earlier(rows[i].weights, m, limit)
        BY <3>1, <3>2 DEF Earlier
    <3> QED
        BY <1>8, <2>2, <3>3
  <2> QED
      BY <2>1, <2>2
<1>11. \A i, j \in 1..(n + PerPass) :
          rows[i].weights = rows[j].weights <=> (i - 1) \div PerPass = (j - 1) \div PerPass
  <2> SUFFICES ASSUME NEW i \in 1..(n + PerPass), NEW j \in 1..(n + PerPass)
               PROVE  rows[i].weights = rows[j].weights
                          <=> (i - 1) \div PerPass = (j - 1) \div PerPass
      OBVIOUS
  <2>1. CASE i <= n /\ j <= n
    <3>1. rows[i] = old[i] /\ i \in 1..n /\ rows[j] = old[j] /\ j \in 1..n
        BY <1>9, <2>1
    <3>2. old[i].weights = old[j].weights <=> (i - 1) \div PerPass = (j - 1) \div PerPass
        BY <1>2, <3>1
    <3> QED
        BY <3>1, <3>2
  <2>2. CASE i <= n /\ ~(j <= n)
    <3>1. rows[i].weights # rows[j].weights /\ (i - 1) \div PerPass # (j - 1) \div PerPass
        BY <1>8, <1>9, <2>2
    <3> QED
        BY <3>1
  <2>3. CASE ~(i <= n) /\ j <= n
    <3>1. rows[i].weights # rows[j].weights /\ (i - 1) \div PerPass # (j - 1) \div PerPass
        BY <1>8, <1>9, <2>3
    <3> QED
        BY <3>1
  <2>4. CASE ~(i <= n) /\ ~(j <= n)
    <3>1. rows[i].weights = rows[j].weights /\ (i - 1) \div PerPass = (j - 1) \div PerPass
        BY <1>8, <2>4
    <3> QED
        BY <3>1
  <2> QED
      BY <2>1, <2>2, <2>3, <2>4
<1>12. PerPass * (calls + 1) = n + PerPass
    BY <1>1
<1> QED
    BY <1>7, <1>10, <1>11, <1>12 DEF AsMade

\* The rows of all calls, reordered, are in groups.
LEMMA ReorderedInGroups ==
    ASSUME NEW m, NEW limit, NEW old, AsMade(old, m, Chunks, limit),
           NEW rows, rows = [k \in 1..Len(old) |-> old[RowOf(k - 1) + 1]]
    PROVE  Grouped(rows, m)
<1>1. Len(old) = Rows /\ PerPass * Chunks = Rows /\ Rows \in Nat
    BY Sizes DEF AsMade
<1>2. /\ \A i \in 1..Rows : /\ old[i].prompt = ((i - 1) % PerPass) \div PerIter
                            /\ Earlier(old[i].weights, m, limit)
      /\ \A i, j \in 1..Rows :
            old[i].weights = old[j].weights <=> (i - 1) \div PerPass = (j - 1) \div PerPass
    BY <1>1 DEF AsMade
<1>3. DOMAIN rows = 1..Rows
    BY <1>1
<1>4. ASSUME NEW k \in 1..Rows
      PROVE  \E i \in 1..Rows : /\ rows[k] = old[i]
                                /\ ((i - 1) % PerPass) \div PerIter = (k - 1) \div GroupSize
                                /\ (i - 1) \div PerPass = ChunkOf(k)
  <2>1. k - 1 \in 0..(Rows - 1)
      BY <1>1
  <2>2. /\ RowOf(k - 1) \in 0..(Rows - 1)
        /\ RowOf(k - 1) \div PerPass = ((k - 1) % GroupSize) \div PerIter
        /\ (RowOf(k - 1) % PerPass) \div PerIter = (k - 1) \div GroupSize
      BY <2>1, RowOfPlace
  <2>3. PICK i : i = RowOf(k - 1) + 1
      OBVIOUS
  <2>4. i \in 1..Rows /\ i - 1 = RowOf(k - 1)
      BY <1>1, <2>2, <2>3
  <2>5. rows[k] = old[i]
      BY <1>1, <2>3
  <2> QED
      BY <2>2, <2>4, <2>5 DEF ChunkOf
<1>5. ASSUME NEW k \in 1..Rows PROVE rows[k].prompt = (k - 1) \div GroupSize
    BY <1>2, <1>4
<1>6. ASSUME NEW k \in 1..Rows, NEW l \in 1..Rows
      PROVE  rows[k].weights = rows[l].weights <=> ChunkOf(k) = ChunkOf(l)
  <2>1. PICK i \in 1..Rows : rows[k] = old[i] /\ (i - 1) \div PerPass = ChunkOf(k)
      BY <1>4
  <2>2. PICK j \in 1..Rows : rows[l] = old[j] /\ (j - 1) \div PerPass = ChunkOf(l)
      BY <1>4
  <2>3. old[i].weights = old[j].weights <=> (i - 1) \div PerPass = (j - 1) \div PerPass
      BY <1>2
  <2> QED
      BY <2>1, <2>2, <2>3
<1>7. ASSUME NEW k \in 1..Rows, NEW w \in rows[k].weights PROVE w.mean = m /\ w.offset # {}
  <2>1. PICK i \in 1..Rows : rows[k] = old[i]
      BY <1>4
  <2>2. PICK d, s : rows[k].weights = Perturbed(m, d, s)
    <3>1. Earlier(old[i].weights, m, limit)
        BY <1>2
    <3> QED
        BY <2>1, <3>1 DEF Earlier
  <2>3. w = [mean |-> m, offset |-> {<<d, s>>}]
      BY <1>7, <2>2 DEF Perturbed
  <2> QED
      BY <2>3
<1> QED
    BY <1>3, <1>5, <1>6, <1>7 DEF Grouped

\* Generating and reordering keep track of the rows.
LEMMA RowsRollout ==
    ASSUME NoiseInv, TrainingInv, RowsInv,
           NoiseActor \/ SyncWeights \/ Generate \/ DenoiseActor \/ Union
    PROVE  RowsInv'
<1>1. /\ drawn \in Nat /\ genState \in 0..drawn /\ scale \in Nat
      /\ chunk \in Nat \ {0} /\ (pc \in {"noise", "sync", "generate", "denoise"} => chunk <= Chunks)
      /\ Chunks \in Nat /\ PerPass \in Nat
    BY TrainingAssumption, Sizes
    DEF TrainingInv, OptimizerTypes, IvonTypeOK, LoopTypes, CounterTypes
<1>2. CASE NoiseActor
  <2>1. pc = "noise" /\ pc' = "sync" /\ UNCHANGED <<mean, batch, chunk>>
      BY <1>2 DEF NoiseActor, Goto, SampleParams, ivonVars, counterVars
  <2>2. ~noised
      BY <2>1 DEF NoiseInv, AtMean
  <2>3. genState' = drawn + 1 /\ noised'
      BY <1>2, <2>2 DEF NoiseActor, SampleParams
  <2>4. AsMade(batch', mean', chunk' - 1, genState')
      BY <2>1, <2>3 DEF RowsInv
  <2> QED
      BY <1>1, <2>1, <2>3, <2>4, StepPlaces DEF RowsInv
<1>3. CASE SyncWeights
  <2>1. pc = "sync" /\ pc' = "generate" /\ UNCHANGED <<mean, offset, batch, chunk, noised, genState>>
      BY <1>3 DEF SyncWeights, Goto, ivonVars, noiseVars, counterVars
  <2>2. engine' = {Weights'}
      BY <1>3, <2>1 DEF SyncWeights, Weights
  <2>3. AsMade(batch', mean', chunk' - 1, genState') /\ noised' /\ genState' > 0
      BY <2>1 DEF RowsInv
  <2> QED
      BY <2>1, <2>2, <2>3, StepPlaces DEF RowsInv
<1>4. CASE Generate
  <2>1. /\ pc = "generate" /\ pc' = "denoise"
        /\ UNCHANGED <<mean, chunk, noised, genState, drawn>>
        /\ batch' = batch \o [i \in 1..(Prompts * PerIter) |->
                                 [prompt |-> (i - 1) \div PerIter, weights |-> engine]]
      BY <1>4 DEF Generate, Goto, ivonVars, noiseVars, counterVars
  <2>2. noised /\ genState > 0 /\ engine = {Weights} /\ AsMade(batch, mean, chunk - 1, genState)
      BY <2>1 DEF RowsInv
  <2>3. engine = Perturbed(mean, genState, scale)
      BY <2>2 DEF NoiseInv, RestoresMean, Weights, Perturbed
  <2>4. chunk - 1 \in Nat /\ genState \in Nat \ {0} /\ drawn + 1 \in Nat /\ genState < drawn + 1
        /\ (chunk - 1) + 1 = chunk
      BY <1>1, <2>2
  <2>5. AsMade(batch', mean, (chunk - 1) + 1, drawn + 1)
    <3>1. PICK rows : /\ rows = batch'
                      /\ rows = batch \o [i \in 1..(Prompts * PerIter) |->
                                             [prompt |-> (i - 1) \div PerIter, weights |-> engine]]
        BY <2>1
    <3>2. PICK c \in Nat : c = chunk - 1
        BY <2>4
    <3>3. AsMade(batch, mean, c, genState) /\ c \in Nat
        BY <2>2, <3>2
    <3>4. AsMade(rows, mean, c + 1, drawn + 1)
        BY <1>1, <2>3, <2>4, <3>1, <3>3, RowsOfCall, ZenonT(20)
    <3> QED
        BY <3>1, <3>2, <3>4
  <2>6. AsMade(batch', mean', chunk', drawn' + 1) /\ noised' /\ genState' > 0
      BY <2>1, <2>2, <2>4, <2>5
  <2> QED
      BY <2>1, <2>6, StepPlaces DEF RowsInv
<1>5. CASE DenoiseActor
  <2>1. /\ pc = "denoise" /\ pc' = IF chunk < Chunks THEN "noise" ELSE "union"
        /\ chunk' = chunk + 1 /\ UNCHANGED <<mean, batch, drawn>>
      BY <1>5 DEF DenoiseActor, Goto, RestoreParamAverage, ivonVars, noiseVars
  <2>2. AsMade(batch', mean', chunk, drawn' + 1)
      BY <2>1 DEF RowsInv
  <2>3. CASE chunk < Chunks
    <3>1. pc' = "noise" /\ chunk' - 1 = chunk
        BY <1>1, <2>1, <2>3
    <3> QED
        BY <2>2, <3>1, StepPlaces DEF RowsInv
  <2>4. CASE ~(chunk < Chunks)
    <3>1. pc' = "union" /\ chunk = Chunks
        BY <1>1, <2>1, <2>4
    <3> QED
        BY <2>2, <3>1, StepPlaces DEF RowsInv
  <2> QED
      BY <2>3, <2>4
<1>6. CASE Union
  <2>1. /\ pc = "union" /\ pc' = "noiseAgain" /\ UNCHANGED mean
        /\ batch' = [k \in 1..Len(batch) |-> batch[RowOf(k - 1) + 1]]
      BY <1>6 DEF Union, Goto, ivonVars
  <2>2. AsMade(batch, mean, Chunks, drawn + 1)
      BY <2>1 DEF RowsInv
  <2>3. Grouped(batch', mean)
      BY <2>1, <2>2, ReorderedInGroups
  <2> QED
      BY <2>1, <2>3 DEF RowsInv
<1> QED
    BY <1>2, <1>3, <1>4, <1>5, <1>6

\* The batch stays as it is until its step is made.
LEMMA RowsUpdate ==
    ASSUME TrainingInv, RowsInv,
           \/ NoiseAgain \/ Restore \/ TakeStep \/ NextMiniBatch \/ UpdateActorDone
           \/ \E finite \in BOOLEAN : Backward(finite)
    PROVE  RowsInv'
<1>1. UNCHANGED batch /\ (UNCHANGED mean \/ TakeStep)
    BY DEF NoiseAgain, Backward, Restore, NextMiniBatch, UpdateActorDone, TakeStep, SampleParams,
           RestoreParamAverage, ivonVars
<1>2. CASE NoiseAgain
  <2>1. pc = "noiseAgain" /\ pc' \in {"backward", "save"}
      BY <1>2 DEF NoiseAgain, Goto
  <2>2. Grouped(batch', mean')
      BY <1>1, <1>2, <2>1 DEF RowsInv, TakeStep
  <2> QED
      BY <2>1, <2>2 DEF RowsInv
<1>3. CASE Restore \/ NextMiniBatch \/ \E finite \in BOOLEAN : Backward(finite)
  <2>1. /\ pc \in {"backward", "restore", "loop"} /\ pc' \in Updating
        /\ pc' = "step" => TakesStep
        /\ UNCHANGED <<mean, batch, mc, decoupled>>
      BY <1>3 DEF Restore, NextMiniBatch, Backward, Goto, Updating, counterVars, RestoreParamAverage,
             ivonVars
  <2>2. TakesStep' <=> TakesStep
      BY <2>1 DEF TakesStep
  <2>3. ~TakesStep => Grouped(batch', mean')
      BY <2>1, StepPlaces DEF RowsInv
  <2> QED
      BY <2>1, <2>2, <2>3, StepPlaces DEF RowsInv
<1>4. CASE TakeStep
  <2>1. pc = "step" /\ pc' \in {"loop", "raised"} /\ UNCHANGED <<mc, decoupled>>
      BY <1>4 DEF TakeStep, OptimizerStep, counterVars
  <2>2. TakesStep'
      BY <2>1 DEF RowsInv, TakesStep
  <2> QED
      BY <2>1, <2>2 DEF RowsInv
<1>5. CASE UpdateActorDone
  <2>1. pc = "loop" /\ pc' = IF decoupled < DecoupledSamples THEN "noiseAgain" ELSE "save"
      BY <1>5 DEF UpdateActorDone
  <2>2. CASE decoupled < DecoupledSamples
    <3>1. ~TakesStep
        BY <2>2, TrainingAssumption DEF TakesStep
    <3>2. Grouped(batch', mean')
        BY <1>1, <2>1, <3>1, StepPlaces DEF RowsInv, TakeStep
    <3> QED
        BY <2>1, <2>2, <3>2, StepPlaces DEF RowsInv
  <2>3. CASE ~(decoupled < DecoupledSamples)
    <3>1. pc' = "save" /\ pc' \notin Updating
        BY <2>1, <2>3 DEF Updating
    <3> QED
        BY <3>1 DEF RowsInv
  <2> QED
      BY <2>2, <2>3
<1> QED
    BY <1>2, <1>3, <1>4, <1>5

LEMMA RowsNext == ASSUME NoiseInv, TrainingInv, RowsInv, [Next]_vars PROVE RowsInv'
<1>1. CASE NextStep \/ NextSample
  <2>1. pc' \in {"noise", "done"} /\ batch' = <<>> /\ chunk' = 1
      BY <1>1 DEF NextStep, NextSample, Goto
  <2>2. AsMade(batch', mean', chunk' - 1, drawn' + 1)
    <3>1. chunk' - 1 = 0
        BY <2>1
    <3> QED
        BY <2>1, <3>1, NoRows
  <2>3. pc' \notin Updating
      BY <2>1 DEF Updating
  <2> QED
      BY <2>1, <2>2, <2>3 DEF RowsInv
<1>2. CASE Start \/ Test \/ Validate \/ SaveBegin \/ SaveStep \/ EndStep \/ StepDone \/ Crash
  <2>1. pc' \notin Rolling \union Updating
      BY <1>2 DEF Start, Test, Validate, SaveBegin, SaveStep, SaveFiles, EndStep, StepDone, Crash,
             Load, Resume, Goto, Rolling, Updating
  <2> QED
      BY <2>1, StepPlaces DEF RowsInv
<1>3. CASE UNCHANGED vars
    BY <1>3 DEF RowsInv, vars, ivonVars, noiseVars, counterVars, Weights, TakesStep
<1> QED
    BY <1>1, <1>2, <1>3, RowsRollout, RowsUpdate DEF Next, Ended

\* Without warm-up, for every number of prompts, responses and chunks: the rows of a prompt come out
\* of reorder_indices next to each other and are split evenly over c3po_n distinct perturbations of
\* one mean (c3po_n calls of generate_sequences, noise_actor and denoise_actor around each, concat,
\* reorder, union).  With warm-up a checkpoint may hold a perturbed actor.
THEOREM GroupsAreSplitEvenly == ASSUME NoWarmup PROVE Spec => []GroupSplit
<1>1. Init => RowsInv
    BY StepPlaces DEF Init, RowsInv
<1>2. NoiseInv /\ TrainingInv /\ RowsInv /\ [Next]_vars => RowsInv'
    BY RowsNext
<1>3. RowsInv => GroupSplit
  <2>1. pc = "noiseAgain" /\ RowsInv => GroupSplit
      BY GroupedIsSplit DEF RowsInv
  <2>2. pc # "noiseAgain" => GroupSplit
      BY DEF GroupSplit
  <2> QED
      BY <2>1, <2>2
<1> QED
    BY <1>1, <1>2, <1>3, NoiseAlways, TrainingAlways, PTL DEF Spec

-----------------------------------------------------------------------------
(* B3PO and M3PO: the gradient is taken where the rollouts were made *)

\* one call a step, and the noise stays until the gradient is there
KeepsNoise == Chunks = 1 /\ DecoupledSamples = 1 /\ ~RolloutOnly

AtWeights == /\ Listed(batch) /\ Len(batch) = Rows
             /\ \A i \in 1..Rows : batch[i].weights = {Weights}

AtRollout(g) == g.rows = {{g.at}}

FreshInv ==
    miniBatches = 1 =>
        /\ pc \in {"noise", "sync", "generate"} => batch = <<>>
        /\ pc = "generate" => engine = {Weights}
        /\ pc \in {"denoise", "union", "noiseAgain", "backward"} => AtWeights
        /\ Listed(grad) /\ \A i \in DOMAIN grad : AtRollout(grad[i])

\* The steps that leave the gradients alone, or drop them.
LEMMA GradientsKept ==
    ASSUME FreshInv, UNCHANGED miniBatches, grad' = grad \/ grad' = <<>>
    PROVE  miniBatches' = 1 => Listed(grad)' /\ (\A i \in DOMAIN grad : AtRollout(grad[i]))'
<1> SUFFICES ASSUME miniBatches' = 1
             PROVE  Listed(grad)' /\ (\A i \in DOMAIN grad : AtRollout(grad[i]))'
    OBVIOUS
<1>1. Listed(grad) /\ \A i \in DOMAIN grad : AtRollout(grad[i])
    BY DEF FreshInv
<1>2. CASE grad' = grad
    BY <1>1, <1>2 DEF Listed, AtRollout
<1>3. CASE grad' = <<>>
  <2>1. DOMAIN grad' = {} /\ Listed(<<>>)
      BY <1>3, ListedEmpty
  <2> QED
      BY <1>3, <2>1 DEF Listed
<1> QED
    BY <1>2, <1>3

\* From the rollout to the backward pass the batch is of the weights of the moment.
LEMMA FreshBatch ==
    ASSUME KeepsNoise, TrainingInv, FreshInv,
           NoiseActor \/ SyncWeights \/ Generate \/ DenoiseActor \/ Union \/ NoiseAgain
    PROVE  FreshInv'
<1> SUFFICES ASSUME miniBatches' = 1 PROVE FreshInv'
    BY DEF FreshInv
<1>1. UNCHANGED <<grad, miniBatches>>
    BY DEF NoiseActor, SyncWeights, Generate, DenoiseActor, Union, NoiseAgain, SampleParams,
           RestoreParamAverage, ivonVars, counterVars
<1>2. Listed(grad)' /\ (\A i \in DOMAIN grad : AtRollout(grad[i]))'
    BY <1>1, GradientsKept
<1>3. miniBatches = 1
    BY <1>1
<1>4. CASE NoiseActor
  <2>1. pc = "noise" /\ pc' = "sync" /\ UNCHANGED batch
      BY <1>4 DEF NoiseActor, Goto
  <2> QED
      BY <1>2, <1>3, <2>1 DEF FreshInv
<1>5. CASE SyncWeights
  <2>1. pc = "sync" /\ pc' = "generate" /\ UNCHANGED <<batch, mean, offset>> /\ engine' = {Weights}
      BY <1>5 DEF SyncWeights, Goto, ivonVars, noiseVars
  <2>2. engine' = {Weights'}
      BY <2>1 DEF Weights
  <2> QED
      BY <1>2, <1>3, <2>1, <2>2 DEF FreshInv
<1>6. CASE Generate
  <2>1. /\ pc = "generate" /\ pc' = "denoise" /\ UNCHANGED <<mean, offset>>
        /\ batch' = batch \o [i \in 1..(Prompts * PerIter) |->
                                 [prompt |-> (i - 1) \div PerIter, weights |-> engine]]
      BY <1>6 DEF Generate, Goto, ivonVars, noiseVars
  <2>2. batch = <<>> /\ engine = {Weights}
      BY <1>3, <2>1 DEF FreshInv
  <2>3. PICK new : new = [i \in 1..Rows |-> [prompt |-> (i - 1) \div PerIter, weights |-> {Weights}]]
      OBVIOUS
  <2>4. Rows = Prompts * PerIter /\ Rows \in Nat
      BY Sizes DEF KeepsNoise, PerPass
  <2>5. Listed(new) /\ Len(new) = Rows
    <3>1. new = [i \in 1..Rows |-> new[i]]
        BY <2>3
    <3> QED
        BY <2>4, <3>1, ListedFunction
  <2>6. batch' = new
    <3>1. <<>> \o new = new
        BY <2>5, ConcatEmptySeq DEF Listed
    <3> QED
        BY <2>1, <2>2, <2>3, <2>4, <3>1
  <2>7. AtWeights'
    <3>1. Listed(batch)' /\ Len(batch') = Rows
        BY <2>5, <2>6 DEF Listed
    <3>2. \A i \in 1..Rows : new[i].weights = {Weights}
        BY <2>3
    <3>3. Weights' = Weights
        BY <2>1 DEF Weights
    <3> QED
        BY <2>6, <3>1, <3>2, <3>3 DEF AtWeights
  <2> QED
      BY <1>2, <2>1, <2>7 DEF FreshInv
<1>7. CASE DenoiseActor
  <2>1. pc = "denoise" /\ pc' = "union" /\ UNCHANGED <<mean, offset, batch>>
    <3>1. pc = "denoise" /\ pc' = IF chunk < Chunks THEN "noise" ELSE "union"
        BY <1>7 DEF DenoiseActor, Goto
    <3>2. ~(chunk < Chunks) /\ ~(Chunks > 1)
        BY TrainingAssumption DEF KeepsNoise, TrainingInv, LoopTypes, CounterTypes
    <3> QED
        BY <1>7, <3>1, <3>2 DEF DenoiseActor, KeepsNoise, ivonVars, noiseVars
  <2>2. AtWeights'
      BY <1>3, <2>1 DEF FreshInv, AtWeights, Listed, Weights
  <2> QED
      BY <1>2, <2>1, <2>2 DEF FreshInv
<1>8. CASE Union
  <2>1. /\ pc = "union" /\ pc' = "noiseAgain" /\ UNCHANGED <<mean, offset>>
        /\ batch' = [k \in 1..Len(batch) |-> batch[RowOf(k - 1) + 1]]
      BY <1>8 DEF Union, Goto, ivonVars, noiseVars
  <2>2. AtWeights
      BY <1>3, <2>1 DEF FreshInv
  <2>3. PICK rows : rows = [k \in 1..Rows |-> batch[RowOf(k - 1) + 1]]
      OBVIOUS
  <2>4. rows = batch' /\ Rows \in Nat
      BY <2>1, <2>2, <2>3, Sizes DEF AtWeights
  <2>5. Listed(rows) /\ Len(rows) = Rows
    <3>1. rows = [k \in 1..Rows |-> rows[k]]
        BY <2>3
    <3> QED
        BY <2>4, <3>1, ListedFunction
  <2>6. ASSUME NEW k \in 1..Rows PROVE rows[k].weights = {Weights}
    <3>1. k - 1 \in 0..(Rows - 1)
        BY <2>4
    <3>2. RowOf(k - 1) \in 0..(Rows - 1)
        BY <3>1, RowOfPlace
    <3>3. RowOf(k - 1) + 1 \in 1..Rows
        BY <2>4, <3>2
    <3> QED
        BY <2>2, <2>3, <3>3 DEF AtWeights
  <2>7. AtWeights'
    <3>1. Listed(batch)' /\ Len(batch') = Rows
        BY <2>4, <2>5 DEF Listed
    <3>2. Weights' = Weights
        BY <2>1 DEF Weights
    <3> QED
        BY <2>4, <2>6, <3>1, <3>2 DEF AtWeights
  <2> QED
      BY <1>2, <2>1, <2>7 DEF FreshInv
<1>9. CASE NoiseAgain
  <2>1. pc = "noiseAgain" /\ pc' \in {"backward", "save"} /\ UNCHANGED <<mean, offset, batch>>
    <3>1. ~(Chunks > 1 \/ DecoupledSamples > 1)
        BY DEF KeepsNoise
    <3> QED
        BY <1>9, <3>1 DEF NoiseAgain, Goto, ivonVars, noiseVars
  <2>2. AtWeights'
      BY <1>3, <2>1 DEF FreshInv, AtWeights, Listed, Weights
  <2> QED
      BY <1>2, <2>1, <2>2 DEF FreshInv
<1> QED
    BY <1>4, <1>5, <1>6, <1>7, <1>8, <1>9

\* The backward pass sees one batch, of the weights of the moment.
LEMMA FreshBackward ==
    ASSUME KeepsNoise, FreshInv, NEW finite \in BOOLEAN, Backward(finite) PROVE FreshInv'
<1> SUFFICES ASSUME miniBatches' = 1 PROVE FreshInv'
    BY DEF FreshInv
<1>1. /\ pc = "backward" /\ pc' = "restore" /\ miniBatches = 1
      /\ grad' = Append(IF IsMcSample THEN grad ELSE <<>>, Gradient(finite))
    BY DEF Backward, Goto, counterVars
<1>2. AtWeights /\ Listed(grad) /\ \A i \in DOMAIN grad : AtRollout(grad[i])
    BY <1>1 DEF FreshInv
<1>3. PICK g : g = Gradient(finite)
    OBVIOUS
<1>4. AtRollout(g)
  <2>1. DOMAIN batch = 1..Rows /\ 1 \in 1..Rows
    <3>1. DOMAIN batch = 1..Len(batch)
        BY <1>2 DEF AtWeights, Listed
    <3>2. Rows \in Nat \ {0} /\ Len(batch) = Rows
        BY <1>2, Sizes DEF AtWeights
    <3> QED
        BY <3>1, <3>2
  <2>2. {batch[i].weights : i \in DOMAIN batch} = {{Weights}}
      BY <1>2, <2>1 DEF AtWeights
  <2>3. g.at = Weights /\ g.rows = {batch[i].weights : i \in DOMAIN batch}
      BY <1>3 DEF Gradient
  <2> QED
      BY <2>2, <2>3 DEF AtRollout
<1>5. PICK sums : sums = IF IsMcSample THEN grad ELSE <<>>
    OBVIOUS
<1>6. Listed(sums) /\ \A i \in DOMAIN sums : AtRollout(sums[i])
  <2>1. Listed(<<>>) /\ DOMAIN <<>> = {}
      BY ListedEmpty
  <2> QED
      BY <1>2, <1>5, <2>1
<1>7. /\ Listed(Append(sums, g))
      /\ DOMAIN Append(sums, g) = 1..(Len(sums) + 1) /\ DOMAIN sums = 1..Len(sums) /\ Len(sums) \in Nat
      /\ \A i \in 1..Len(sums) : Append(sums, g)[i] = sums[i]
      /\ Append(sums, g)[Len(sums) + 1] = g
    BY <1>6, ListedAppend
<1>8. \A i \in DOMAIN Append(sums, g) : AtRollout(Append(sums, g)[i])
  <2>1. \A i \in DOMAIN Append(sums, g) : i \in 1..Len(sums) \/ i = Len(sums) + 1
      BY <1>7
  <2> QED
      BY <1>4, <1>6, <1>7, <2>1
<1>9. grad' = Append(sums, g)
    BY <1>1, <1>3, <1>5
<1>10. Listed(grad)' /\ (\A i \in DOMAIN grad : AtRollout(grad[i]))'
    BY <1>7, <1>8, <1>9 DEF Listed, AtRollout
<1> QED
    BY <1>1, <1>10 DEF FreshInv

LEMMA FreshNext == ASSUME KeepsNoise, TrainingInv, FreshInv, [Next]_vars PROVE FreshInv'
<1>1. CASE NextStep \/ NextSample
  <2>1. pc' \in {"noise", "done"} /\ batch' = <<>> /\ UNCHANGED <<grad, miniBatches>>
      BY <1>1 DEF NextStep, NextSample, Goto, ivonVars
  <2> QED
      BY <2>1, GradientsKept DEF FreshInv
<1>2. CASE Start \/ Test \/ Validate \/ Restore \/ TakeStep \/ UpdateActorDone \/ SaveBegin \/ SaveStep
             \/ EndStep \/ StepDone \/ Crash
  <2>1. UNCHANGED miniBatches /\ (grad' = grad \/ grad' = <<>>)
      BY <1>2 DEF Start, Test, Validate, Restore, RestoreParamAverage, TakeStep, OptimizerStep, Step,
             UpdateActorDone, SaveBegin, SaveStep, EndStep, StepDone, Crash, Load, Resume, ivonVars,
             counterVars
  <2>2. ~(decoupled < DecoupledSamples)
      BY TrainingAssumption DEF KeepsNoise, TrainingInv, LoopTypes, CounterTypes
  <2>3. pc' \notin Rolling \union {"backward"}
      BY <1>2, <2>2 DEF Start, Test, Validate, Restore, TakeStep, OptimizerStep, UpdateActorDone,
             SaveBegin, SaveStep, SaveFiles, EndStep, StepDone, Crash, Load, Resume, Goto, Rolling
  <2> QED
      BY <2>1, <2>3, StepPlaces, GradientsKept DEF FreshInv
<1>3. CASE NextMiniBatch
  <2>1. miniBatch < miniBatches /\ UNCHANGED miniBatches /\ miniBatch \in 1..miniBatches
      BY <1>3 DEF NextMiniBatch, TrainingInv, LoopTypes, CounterTypes
  <2>2. miniBatches' # 1
      BY <2>1
  <2> QED
      BY <2>2 DEF FreshInv
<1>4. CASE UNCHANGED vars
  <2>1. UNCHANGED <<pc, batch, engine, mean, offset, grad, miniBatches>>
      BY <1>4 DEF vars, ivonVars, noiseVars, counterVars
  <2>2. AtWeights => AtWeights'
      BY <2>1 DEF AtWeights, Listed, Weights
  <2>3. {Weights'} = {Weights}
      BY <2>1 DEF Weights
  <2> QED
      BY <2>1, <2>2, <2>3, GradientsKept DEF FreshInv
<1> QED
    BY <1>1, <1>2, <1>3, <1>4, FreshBatch, FreshBackward DEF Next, Ended

\* B3PO and M3PO with one mini batch a step: every gradient, whatever was saved, skipped or lost in a
\* crash, is taken at the one perturbation its whole batch was generated with (denoise_actor is not
\* called after the rollouts, noise_actor not again before update_actor).
THEOREM GradientsAreOfTheRollouts ==
    ASSUME KeepsNoise PROVE Spec => []GradientAtRolloutWeights
<1>1. Init => FreshInv
  <2>1. Init => pc = "start" /\ grad = <<>> /\ DOMAIN grad = {}
      BY DEF Init, IvonInit
  <2> QED
      BY <2>1, ListedEmpty DEF FreshInv
<1>2. TrainingInv /\ FreshInv /\ [Next]_vars => FreshInv'
    BY FreshNext
<1>3. FreshInv => GradientAtRolloutWeights
    BY DEF FreshInv, GradientAtRolloutWeights, AtRollout
<1> QED
    BY <1>1, <1>2, <1>3, TrainingAlways, PTL DEF Spec

=============================================================================
