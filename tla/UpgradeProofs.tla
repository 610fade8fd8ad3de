--------------------------- MODULE UpgradeProofs ---------------------------
(***************************************************************************)
(* What `cage upgrade` keeps, for any releases, any versions and any       *)
(* sequence of failures, kills and new attempts.                           *)
(*                                                                         *)
(* The invariant says what the files are at each step of the swap.  As an  *)
(* upgrade that failed or was killed leaves the files as they were at that *)
(* step, it is stated over the step an upgrade is at or ended at.          *)
(***************************************************************************)
EXTENDS Upgrade, TLAPS

At == IF pc \in {"err", "killed"} THEN failedAt ELSE pc

BeforeSwap == {"idle", "ok", "find", "checksums", "download", "rename new", "rename old"}

\* path holds an intact binary of version v.
Holds(path, v) == Intact(path) /\ files[path].version = v

\* path holds the new binary, which cannot be run yet.
Downloaded(path) == Holds(path, latest) /\ files[path].mode # "0755"

\* The versions: the upgrade replaces what was launched by something newer.
Newer == latest # 0 /\ (current = 0 \/ latest > current)

\* The binary at the target path until it is moved away.
TargetBeforeSwap ==
    At \in BeforeSwap =>
        /\ Runnable
        /\ ~Is("old")
        /\ At \notin {"idle", "ok"} => files["target"].version = current

\* The files from the download on.
FilesOfSwap ==
    /\ At \in Steps \ {"find"} => Newer
    /\ At = "find" => latest = 0
    /\ At = "rename new" => Downloaded("temp")
    /\ At = "rename old" => Downloaded("new")
    /\ At = "rename target" => ~Is("target") /\ Downloaded("new") /\ Holds("old", current)
    /\ At = "remove old" => Downloaded("target") /\ ~Is("new") /\ Holds("old", current)
    /\ At = "chmod" => Downloaded("target") /\ ~Is("new") /\ ~Is("old")

\* What a successful upgrade has left.
FilesAfterwards ==
    pc = "ok" /\ latest # 0 => files["target"].version = latest /\ ~Is("new")

SwapInv ==
    /\ UpgradeTypeOK
    /\ pc \in {"err", "killed"} => failedAt \in Steps
    /\ TargetBeforeSwap
    /\ FilesOfSwap
    /\ FilesAfterwards

-----------------------------------------------------------------------------

\* A file made executable is a file, and otherwise the same.
LEMMA ChmodFile ==
    ASSUME NEW f \in File
    PROVE  /\ [f EXCEPT !.mode = "0755"] \in File
           /\ [f EXCEPT !.mode = "0755"].version = f.version
           /\ [f EXCEPT !.mode = "0755"].content = f.content
           /\ [f EXCEPT !.mode = "0755"].mode = "0755"
BY DEF File

\* A file that is written is a file.
LEMMA WrittenFile ==
    ASSUME NEW v \in Version, NEW c \in Content, NEW m \in {"0600", "0755"}
    PROVE  [version |-> v, content |-> c, mode |-> m] \in File
BY DEF File

\* The types hold at first and are kept by every step.
LEMMA UpgradeTypes ==
    /\ Init => UpgradeTypeOK
    /\ UpgradeTypeOK /\ [Next]_vars => UpgradeTypeOK'
<1>1. ASSUME Init
      PROVE  UpgradeTypeOK
  <2>1. PICK v \in Version :
           files = [p \in Path |-> IF p = "target"
                                   THEN [version |-> v, content |-> "intact", mode |-> "0755"]
                                   ELSE NoFile]
    BY <1>1 DEF Init
  <2>2. files \in [Path -> File \cup {NoFile}]
    BY <2>1, WrittenFile DEF Content
  <2>3. current \in Version /\ latest \in Version
    BY <1>1, UpgradeAssumption DEF Init, Version
  <2>4. pc \in Steps \cup Ended /\ failedAt \in Steps \cup {"none"}
    BY <1>1 DEF Init, Steps, Ended
  <2>5. releases \in ReleaseLists /\ preRelease \in BOOLEAN
    BY <1>1 DEF Init
  <2> QED
    BY <2>2, <2>3, <2>4, <2>5 DEF UpgradeTypeOK
<1>2. ASSUME UpgradeTypeOK, [Next]_vars
      PROVE  UpgradeTypeOK'
  <2> USE <1>2 DEF UpgradeTypeOK
  <2>1. CASE Launch
    <3>1. current' \in Version
      BY <2>1 DEF Launch, Runnable, Intact, Is, File, Path
    <3>2. latest' \in Version
      BY <2>1, UpgradeAssumption DEF Launch, Version
    <3>3. preRelease' \in BOOLEAN
      BY <2>1 DEF Launch
    <3>4. pc' \in Steps \cup Ended /\ failedAt' \in Steps \cup {"none"}
      BY <2>1 DEF Launch, Steps
    <3> QED
      BY <2>1, <3>1, <3>2, <3>3, <3>4 DEF Launch
  <2>2. ASSUME pc \in Steps, Fail \/ Kill
        PROVE  UpgradeTypeOK'
    <3>1. pc' \in {"err", "killed"} /\ failedAt' = pc
      BY <2>2 DEF Fail, Kill
    <3>2. UNCHANGED <<releases, current, preRelease, latest, files>>
      BY <2>2 DEF Fail, Kill
    <3> QED
      BY <2>2, <3>1, <3>2 DEF Ended
  <2>3. CASE FindRelease /\ ~Fail
    <3>1. PICK i \in 1 .. Len(releases) :
             /\ IF UpToDate(releases[i].version)
                THEN pc' = "ok" /\ UNCHANGED latest
                ELSE pc' = "checksums" /\ latest' = releases[i].version
             /\ UNCHANGED <<releases, current, preRelease, files, failedAt>>
      BY <2>3 DEF FindRelease
    <3>2. releases \in Seq(Release)
      BY UpgradeAssumption
    <3>3. releases[i] \in Release
      BY <3>2
    <3>4. releases[i].version \in Version
      BY <3>3 DEF Release
    <3> QED
      BY <3>1, <3>4 DEF Steps, Ended
  <2>4. CASE ParseChecksums /\ ~Fail
    BY <2>4 DEF ParseChecksums, Steps
  <2>5. CASE UnzipArchive /\ ~Fail
    <3>1. PICK content \in Content :
             files' = [files EXCEPT !["temp"] =
                          [version |-> latest, content |-> content, mode |-> "0600"]]
      BY <2>5 DEF UnzipArchive
    <3>2. files' \in [Path -> File \cup {NoFile}]
      BY <3>1, WrittenFile DEF Path
    <3> QED
      BY <2>5, <3>2 DEF UnzipArchive, Steps
  <2>6. CASE RenameNew /\ ~Fail
    BY <2>6 DEF RenameNew, Rename, Is, Steps, Path
  <2>7. CASE RenameOld /\ ~Fail
    BY <2>7 DEF RenameOld, Rename, Is, Steps, Path
  <2>8. CASE RenameTarget /\ ~Fail
    BY <2>8 DEF RenameTarget, Rename, Is, Steps, Path
  <2>9. CASE RemoveOld /\ ~Fail
    BY <2>9 DEF RemoveOld, Steps, Path
  <2>10. CASE Chmod /\ ~Fail
    <3>1. files["target"] \in File
      BY <2>10 DEF Chmod, Is, Path
    <3>2. files' = [files EXCEPT !["target"] = [files["target"] EXCEPT !.mode = "0755"]]
      BY <2>10 DEF Chmod
    <3>3. files' \in [Path -> File \cup {NoFile}]
      BY <3>1, <3>2, ChmodFile
    <3> QED
      BY <2>10, <3>3 DEF Chmod, Ended
  <2>11. CASE Publish
    BY <2>11 DEF Publish
  <2>12. CASE UNCHANGED vars
    BY <2>12 DEF vars
  <2> QED
    BY <2>1, <2>2, <2>3, <2>4, <2>5, <2>6, <2>7, <2>8, <2>9, <2>10, <2>11, <2>12
    DEF Next, FindRelease, ParseChecksums, UnzipArchive, RenameNew, RenameOld, RenameTarget,
        RemoveOld, Chmod, Kill, Steps
<1> QED
  BY <1>1, <1>2

\* A failed step or a kill leaves the invariant as it was: At does not change.
LEMMA StoppingKeeps ==
    ASSUME SwapInv, pc \in Steps, Fail \/ Kill
    PROVE  SwapInv'
<1> USE DEF SwapInv
<1>1. UpgradeTypeOK'
  <2>1. Fail => UpgradeTypeOK'
    BY DEF Fail, UpgradeTypeOK, Steps, Ended
  <2> QED
    BY <2>1 DEF Kill, UpgradeTypeOK, Steps, Ended
<1>2. At' = At /\ At = pc
  BY DEF At, Fail, Kill, Steps
<1>3. UNCHANGED <<current, latest, files>> /\ pc' \in {"err", "killed"} /\ failedAt' = pc
  BY DEF Fail, Kill
<1>4. TargetBeforeSwap'
  BY <1>2, <1>3 DEF TargetBeforeSwap, Runnable, Intact, Is
<1>5. FilesOfSwap'
  BY <1>2, <1>3 DEF FilesOfSwap, Holds, Downloaded, Intact, Is, Newer
<1>6. FilesAfterwards'
  BY <1>3 DEF FilesAfterwards
<1> QED
  BY <1>1, <1>3, <1>4, <1>5, <1>6

\* The invariant holds at first and is kept by every step.
LEMMA SwapInvariant ==
    /\ Init => SwapInv
    /\ SwapInv /\ [Next]_vars => SwapInv'
<1>1. ASSUME Init
      PROVE  SwapInv
  <2>1. UpgradeTypeOK
    BY <1>1, UpgradeTypes
  <2>2. pc = "idle" /\ At = "idle"
    BY <1>1 DEF Init, At
  <2>3. Runnable /\ ~Is("old")
    <3>1. PICK v \in Version :
             files = [p \in Path |-> IF p = "target"
                                     THEN [version |-> v, content |-> "intact", mode |-> "0755"]
                                     ELSE NoFile]
      BY <1>1 DEF Init
    <3>2. files["target"] = [version |-> v, content |-> "intact", mode |-> "0755"]
          /\ files["old"] = NoFile
      BY <3>1 DEF Path
    <3>3. files["target"] # NoFile
      BY <3>2, UpgradeAssumption, WrittenFile DEF Content
    <3> QED
      BY <3>2, <3>3 DEF Runnable, Intact, Is
  <2> QED
    BY <2>1, <2>2, <2>3
    DEF SwapInv, TargetBeforeSwap, FilesOfSwap, FilesAfterwards, Steps
<1>2. ASSUME SwapInv, [Next]_vars
      PROVE  SwapInv'
  <2> DEFINE Stops == pc \in Steps /\ (Fail \/ Kill)
  <2>1. UpgradeTypeOK /\ UpgradeTypeOK'
    BY <1>2, UpgradeTypes DEF SwapInv
  <2>2. files \in [Path -> File \cup {NoFile}]
    BY <2>1 DEF UpgradeTypeOK
  <2>3. CASE Stops
    BY <1>2, <2>3, StoppingKeeps
  <2>4. CASE Launch
    <3>1. pc' = "find" /\ At' = "find" /\ Runnable' /\ latest' = 0
          /\ current' = files'["target"].version
      BY <2>4 DEF Launch, At, Runnable, Intact, Is
    <3>2. ~Is("old")'
      <4>1. At \notin {"rename target", "remove old", "chmod"}
        BY <1>2, <2>4 DEF SwapInv, FilesOfSwap, Downloaded, Launch, Runnable, Intact, Is
      <4>2. At \in BeforeSwap
        BY <1>2, <4>1 DEF SwapInv, UpgradeTypeOK, At, BeforeSwap, Steps, Ended
      <4> QED
        BY <1>2, <2>4, <4>2 DEF SwapInv, TargetBeforeSwap, Launch, Is
    <3> QED
      BY <2>1, <3>1, <3>2
      DEF SwapInv, TargetBeforeSwap, FilesOfSwap, FilesAfterwards, Steps
  <2>5. CASE FindRelease /\ ~Stops
    <3>1. pc = "find" /\ At = "find" /\ Runnable /\ ~Is("old") /\ files["target"].version = current
      BY <1>2, <2>5 DEF FindRelease, At, SwapInv, TargetBeforeSwap, BeforeSwap
    <3>2. PICK i \in 1 .. Len(releases) :
             /\ IsLatest(i)
             /\ IF UpToDate(releases[i].version)
                THEN pc' = "ok" /\ UNCHANGED latest
                ELSE pc' = "checksums" /\ latest' = releases[i].version
             /\ UNCHANGED <<releases, current, preRelease, files, failedAt>>
      BY <2>5, <3>1 DEF FindRelease, Steps
    <3>3. releases \in Seq(Release)
      BY <2>1, UpgradeAssumption DEF UpgradeTypeOK
    <3>4. releases[i] \in Release /\ releases[i].version # 0
      <4>1. releases[i] \in Release
        BY <3>3
      <4>2. releases[i].version # 0
        BY <3>2 DEF IsLatest, Candidates
      <4> QED
        BY <4>1, <4>2
    <3>5. releases[i].version \in Nat /\ current \in Nat
      <4>1. releases[i].version \in Version
        BY <3>4 DEF Release
      <4>2. current \in Version
        BY <2>1 DEF UpgradeTypeOK
      <4> QED
        BY <4>1, <4>2, UpgradeAssumption DEF Version
    <3>6. Runnable' /\ ~Is("old")' /\ files'["target"].version = current'
      BY <3>1, <3>2 DEF Runnable, Intact, Is
    <3>7. CASE UpToDate(releases[i].version)
      <4>1. pc' = "ok" /\ At' = "ok"
        BY <3>2, <3>7 DEF At
      <4>2. latest' = 0
        BY <1>2, <3>1, <3>2, <3>7 DEF SwapInv, FilesOfSwap
      <4> QED
        BY <2>1, <3>6, <4>1, <4>2
        DEF SwapInv, TargetBeforeSwap, FilesOfSwap, FilesAfterwards, Steps
    <3>8. CASE ~UpToDate(releases[i].version)
      <4>1. pc' = "checksums" /\ At' = "checksums"
        BY <3>2, <3>8 DEF At
      <4>2. Newer'
        BY <3>2, <3>4, <3>5, <3>8 DEF Newer, UpToDate
      <4> QED
        BY <2>1, <3>6, <4>1, <4>2
        DEF SwapInv, TargetBeforeSwap, FilesOfSwap, FilesAfterwards, Steps
    <3> QED
      BY <3>7, <3>8
  <2>6. CASE ParseChecksums /\ ~Stops
    <3>1. pc = "checksums" /\ pc' = "download" /\ At = "checksums" /\ At' = "download"
      BY <2>6 DEF ParseChecksums, At, Steps
    <3>2. UNCHANGED <<current, latest, files>>
      BY <2>6, <3>1 DEF ParseChecksums, Steps
    <3> QED
      BY <1>2, <2>1, <3>1, <3>2
      DEF SwapInv, TargetBeforeSwap, FilesOfSwap, FilesAfterwards, BeforeSwap, Newer,
          Runnable, Intact, Is, Steps
  <2>7. CASE UnzipArchive /\ ~Stops
    <3>1. pc = "download" /\ pc' = "rename new" /\ At = "download" /\ At' = "rename new"
      BY <2>7 DEF UnzipArchive, At, Steps
    <3>2. /\ files' = [files EXCEPT !["temp"] =
                          [version |-> latest, content |-> "intact", mode |-> "0600"]]
          /\ UNCHANGED <<current, latest>>
      BY <2>7, <3>1 DEF UnzipArchive, ChecksumCovers, Steps
    <3>3. Downloaded("temp")'
      <4>1. [version |-> latest, content |-> "intact", mode |-> "0600"] \in File
        BY <2>1, WrittenFile DEF UpgradeTypeOK, Content
      <4> QED
        BY <2>2, <3>2, <4>1, UpgradeAssumption DEF Downloaded, Holds, Intact, Is, Path
    <3> QED
      BY <1>2, <2>1, <2>2, <3>1, <3>2, <3>3
      DEF SwapInv, TargetBeforeSwap, FilesOfSwap, FilesAfterwards, BeforeSwap, Newer,
          Runnable, Intact, Is, Steps, Path
  <2>8. CASE RenameNew /\ ~Stops
    <3>1. pc = "rename new" /\ pc' = "rename old" /\ At = "rename new" /\ At' = "rename old"
      BY <2>8 DEF RenameNew, Rename, At, Steps
    <3>2. /\ files' = [files EXCEPT !["new"] = files["temp"], !["temp"] = NoFile]
          /\ UNCHANGED <<current, latest>>
      BY <2>8, <3>1 DEF RenameNew, Rename, Steps
    <3> QED
      BY <1>2, <2>1, <2>2, <3>1, <3>2
      DEF SwapInv, TargetBeforeSwap, FilesOfSwap, FilesAfterwards, BeforeSwap, Newer, Holds, Downloaded,
          Runnable, Intact, Is, Steps, Path
  <2>9. CASE RenameOld /\ ~Stops
    <3>1. pc = "rename old" /\ pc' = "rename target" /\ At = "rename old" /\ At' = "rename target"
      BY <2>9 DEF RenameOld, Rename, At, Steps
    <3>2. /\ files' = [files EXCEPT !["old"] = files["target"], !["target"] = NoFile]
          /\ UNCHANGED <<current, latest>>
      BY <2>9, <3>1 DEF RenameOld, Rename, Steps
    <3> QED
      BY <1>2, <2>1, <2>2, <3>1, <3>2
      DEF SwapInv, TargetBeforeSwap, FilesOfSwap, FilesAfterwards, BeforeSwap, Newer, Holds, Downloaded,
          Runnable, Intact, Is, Steps, Path
  <2>10. CASE RenameTarget /\ ~Stops
    <3>1. /\ pc = "rename target" /\ pc' = "remove old"
          /\ At = "rename target" /\ At' = "remove old"
      BY <2>10 DEF RenameTarget, Rename, At, Steps
    <3>2. /\ files' = [files EXCEPT !["target"] = files["new"], !["new"] = NoFile]
          /\ UNCHANGED <<current, latest>>
      BY <2>10, <3>1 DEF RenameTarget, Rename, Steps
    <3> QED
      BY <1>2, <2>1, <2>2, <3>1, <3>2
      DEF SwapInv, TargetBeforeSwap, FilesOfSwap, FilesAfterwards, BeforeSwap, Newer, Holds, Downloaded,
          Runnable, Intact, Is, Steps, Path
  <2>11. CASE RemoveOld /\ ~Stops
    <3>1. pc = "remove old" /\ pc' = "chmod" /\ At = "remove old" /\ At' = "chmod"
      BY <2>11 DEF RemoveOld, At, Steps
    <3>2. files' = [files EXCEPT !["old"] = NoFile] /\ UNCHANGED <<current, latest>>
      BY <2>11, <3>1 DEF RemoveOld, Steps
    <3> QED
      BY <1>2, <2>1, <2>2, <3>1, <3>2
      DEF SwapInv, TargetBeforeSwap, FilesOfSwap, FilesAfterwards, BeforeSwap, Newer, Holds, Downloaded,
          Runnable, Intact, Is, Steps, Path
  <2>12. CASE Chmod /\ ~Stops
    <3>1. pc = "chmod" /\ pc' = "ok" /\ At = "chmod" /\ At' = "ok"
      BY <2>12 DEF Chmod, At, Steps
    <3>2. /\ files' = [files EXCEPT !["target"] = [files["target"] EXCEPT !.mode = "0755"]]
          /\ UNCHANGED <<current, latest>>
      BY <2>12, <3>1 DEF Chmod, Steps
    <3>3. Holds("target", latest) /\ ~Is("new") /\ ~Is("old") /\ files["target"] \in File
      BY <1>2, <2>2, <3>1 DEF SwapInv, FilesOfSwap, Holds, Downloaded, Intact, Is, Path
    <3>4. Holds("target", latest)' /\ ~Is("new")' /\ ~Is("old")' /\ files'["target"].mode = "0755"
      BY <2>2, <3>2, <3>3, ChmodFile, UpgradeAssumption DEF Holds, Intact, Is, Path
    <3> QED
      BY <2>1, <3>1, <3>4
      DEF SwapInv, TargetBeforeSwap, FilesOfSwap, FilesAfterwards, Holds, Runnable, Steps
  <2>13. CASE Publish \/ UNCHANGED vars
    <3>1. UNCHANGED <<pc, current, latest, files, failedAt>>
      BY <2>13 DEF Publish, vars
    <3> QED
      BY <1>2, <2>1, <3>1
      DEF SwapInv, TargetBeforeSwap, FilesOfSwap, FilesAfterwards, At, Newer, Holds, Downloaded,
          Runnable, Intact, Is
  <2> QED
    BY <1>2, <2>3, <2>4, <2>5, <2>6, <2>7, <2>8, <2>9, <2>10, <2>11, <2>12, <2>13 DEF Next, Kill
<1> QED
  BY <1>1, <1>2

-----------------------------------------------------------------------------

\* The properties are consequences of the invariant.
LEMMA SwapInvSuffices ==
    SwapInv => BinarySurvives /\ OnlySwapEndangers /\ NilMeansUpgraded /\ NeverDowngrades
<1> SUFFICES ASSUME SwapInv
             PROVE  BinarySurvives /\ OnlySwapEndangers /\ NilMeansUpgraded /\ NeverDowngrades
  OBVIOUS
<1> USE DEF SwapInv, TargetBeforeSwap, FilesOfSwap, FilesAfterwards, At, BeforeSwap,
            Holds, Downloaded, Newer, Runnable, Intact, Is
<1>1. At \in BeforeSwap \cup {"rename target", "remove old", "chmod"}
  BY DEF UpgradeTypeOK, Steps, Ended
<1>2. BinarySurvives
  BY <1>1 DEF BinarySurvives
<1>3. OnlySwapEndangers
  BY <1>1 DEF OnlySwapEndangers, Steps
<1>4. NilMeansUpgraded
  BY DEF NilMeansUpgraded
<1>5. NeverDowngrades
  BY <1>1 DEF NeverDowngrades, Steps
<1> QED
  BY <1>2, <1>3, <1>4, <1>5

\* An intact binary is always left at the target path or beside it.
THEOREM SomeBinarySurvives == Spec => []BinarySurvives
<1>1. Spec => []SwapInv
  BY SwapInvariant, PTL DEF Spec
<1> QED
  BY <1>1, SwapInvSuffices, PTL

\* Only what happens after the old binary has been moved away can leave the
\* target path without a binary that runs.
THEOREM OnlyTheSwapEndangers == Spec => []OnlySwapEndangers
<1>1. Spec => []SwapInv
  BY SwapInvariant, PTL DEF Spec
<1> QED
  BY <1>1, SwapInvSuffices, PTL

\* An upgrade that returns nil has installed what it was to install.
THEOREM NilUpgradeIsDone == Spec => []NilMeansUpgraded
<1>1. Spec => []SwapInv
  BY SwapInvariant, PTL DEF Spec
<1> QED
  BY <1>1, SwapInvSuffices, PTL

\* Nothing is replaced by something older.
THEOREM UpgradesOnly == Spec => []NeverDowngrades
<1>1. Spec => []SwapInv
  BY SwapInvariant, PTL DEF Spec
<1> QED
  BY <1>1, SwapInvSuffices, PTL

=============================================================================
