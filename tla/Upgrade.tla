------------------------------ MODULE Upgrade ------------------------------
(***************************************************************************)
(* `cage upgrade` (cli/cage/upgrade/upgrade.go): the binary finds the      *)
(* latest release, downloads it into a temporary file, and swaps it with   *)
(* itself by three renames, a removal and a chmod.  Every step may fail,   *)
(* and the process may be killed between any two; the files stay as they   *)
(* are and only a binary that can still be run can upgrade again.          *)
(*                                                                         *)
(* A version is its rank in the order of semver; 0 stands for whatever is  *)
(* not a semantic version.                                                 *)
(***************************************************************************)
EXTENDS Integers, Sequences

CONSTANTS
    MaxVersion,     \* the highest version there is
    ReleaseLists,   \* what GitHub may list, newest first
    NoFile          \* a path without a file

Version == 0 .. MaxVersion

\* A release with the assets of this platform that are attached to it.
Release == [version : Version, prerelease : BOOLEAN, assets : SUBSET {"checksums", "binary"}]

\* A file holds a binary, intact or damaged, and has a mode.
Content == {"intact", "damaged"}
File == [version : Version, content : Content, mode : {"0600", "0755"}]

ASSUME UpgradeAssumption ==
    /\ MaxVersion \in Nat
    /\ ReleaseLists \subseteq Seq(Release)
    /\ NoFile \notin File

VARIABLES
    pc,          \* the step of the upgrade, or how the last one ended
    releases,    \* GitHub: the releases
    current,     \* CurrentVersion, compiled into the running binary
    preRelease,  \* the --pre-release flag
    latest,      \* the version this upgrade installs, 0 while there is none
    files,       \* the target path, its .new and .old, and the temporary file
    failedAt     \* history: the step that ended the last upgrade, or "none"

vars == <<pc, releases, current, preRelease, latest, files, failedAt>>

Path == {"target", "new", "old", "temp"}
Steps == {"find", "checksums", "download", "rename new", "rename old", "rename target",
          "remove old", "chmod"}
Ended == {"idle", "ok", "err", "killed"}

Is(path) == files[path] # NoFile
Intact(path) == Is(path) /\ files[path].content = "intact"
Runnable == Intact("target") /\ files["target"].mode = "0755"

Init ==
    /\ pc = "idle"
    /\ releases \in ReleaseLists
    /\ current = 0
    /\ preRelease = FALSE
    /\ latest = 0
    /\ \E v \in Version :
          files = [p \in Path |-> IF p = "target"
                                  THEN [version |-> v, content |-> "intact", mode |-> "0755"]
                                  ELSE NoFile]
    /\ failedAt = "none"

-----------------------------------------------------------------------------

\* The user runs `cage upgrade`: os.Executable is the target.
Launch ==
    /\ pc \in Ended
    /\ Runnable
    /\ pc' = "find"
    /\ current' = files["target"].version
    /\ preRelease' \in BOOLEAN
    /\ latest' = 0
    /\ failedAt' = "none"
    /\ UNCHANGED <<releases, files>>

\* Upgrade returns an error.
Fail ==
    /\ pc' = "err"
    /\ failedAt' = pc
    /\ UNCHANGED <<releases, current, preRelease, latest, files>>

\* findLatestRelease: the first of the list whose tag is a version and that is
\* not a pre-release, unless pre-releases are asked for.
Candidates ==
    {i \in 1 .. Len(releases) : releases[i].version # 0 /\ (releases[i].prerelease => preRelease)}

IsLatest(i) == i \in Candidates /\ \A j \in Candidates : i <= j

\* Mutant of UpToDate: out of date whenever the versions differ.
UpToDateIfEqual(v) == current = v

\* A current version that is not a semantic version is always out of date.
UpToDate(v) == current # 0 /\ current >= v

\* findAssets: both the checksums and the binary.
HasAssets(i) == releases[i].assets = {"checksums", "binary"}

FindRelease ==
    /\ pc = "find"
    /\ \/ Fail
       \/ \E i \in 1 .. Len(releases) :
             /\ IsLatest(i)
             /\ UpToDate(releases[i].version) \/ HasAssets(i)
             /\ IF UpToDate(releases[i].version)
                THEN pc' = "ok" /\ UNCHANGED latest
                ELSE pc' = "checksums" /\ latest' = releases[i].version
             /\ UNCHANGED <<releases, current, preRelease, files, failedAt>>

\* parseChecksums, which fails too when the file has no line for the binary.
ParseChecksums ==
    /\ pc = "checksums"
    /\ \/ Fail
       \/ /\ pc' = "download"
          /\ UNCHANGED <<releases, current, preRelease, latest, files, failedAt>>

\* Mutant of ChecksumCovers: not compared.
ChecksumUnchecked(content) == content \in Content

\* unzipArchive: an archive that is not the one the checksum covers is refused;
\* os.CreateTemp makes the file readable and writable only.
ChecksumCovers(content) == content = "intact"

UnzipArchive ==
    /\ pc = "download"
    /\ \/ Fail
       \/ \E content \in Content :
             /\ ChecksumCovers(content)
             /\ files' = [files EXCEPT !["temp"] =
                             [version |-> latest, content |-> content, mode |-> "0600"]]
             /\ pc' = "rename new"
             /\ UNCHANGED <<releases, current, preRelease, latest, failedAt>>

-----------------------------------------------------------------------------
(* swapFiles *)

Rename(from, to, next) ==
    /\ Is(from)
    /\ files' = [files EXCEPT ![to] = files[from], ![from] = NoFile]
    /\ pc' = next
    /\ UNCHANGED <<releases, current, preRelease, latest, failedAt>>

\* Mutant of RenameNew: the binary is moved away before the new one is there.
RenameNewLast == pc = "rename new" /\ (Fail \/ Rename("target", "old", "rename old"))

RenameNew == pc = "rename new" /\ (Fail \/ Rename("temp", "new", "rename old"))

RenameOld == pc = "rename old" /\ (Fail \/ Rename("target", "old", "rename target"))

RenameTarget == pc = "rename target" /\ (Fail \/ Rename("new", "target", "remove old"))

\* Mutant of RemoveOld: the error is ignored.
RemoveOldIgnored ==
    /\ pc = "remove old"
    /\ files' \in {files, [files EXCEPT !["old"] = NoFile]}
    /\ pc' = "chmod"
    /\ UNCHANGED <<releases, current, preRelease, latest, failedAt>>

RemoveOld ==
    /\ pc = "remove old"
    /\ \/ Fail
       \/ /\ Is("old")
          /\ files' = [files EXCEPT !["old"] = NoFile]
          /\ pc' = "chmod"
          /\ UNCHANGED <<releases, current, preRelease, latest, failedAt>>

Chmod ==
    /\ pc = "chmod"
    /\ \/ Fail
       \/ /\ Is("target")
          /\ files' = [files EXCEPT !["target"].mode = "0755"]
          /\ pc' = "ok"
          /\ UNCHANGED <<releases, current, preRelease, latest, failedAt>>

-----------------------------------------------------------------------------

\* A release is published.
Publish ==
    /\ \E list \in ReleaseLists :
          /\ Len(list) = Len(releases) + 1
          /\ Tail(list) = releases
          /\ releases' = list
    /\ UNCHANGED <<pc, current, preRelease, latest, files, failedAt>>

\* The process is killed.
Kill ==
    /\ pc \in Steps
    /\ pc' = "killed"
    /\ failedAt' = pc
    /\ UNCHANGED <<releases, current, preRelease, latest, files>>

Next ==
    \/ Launch \/ FindRelease \/ ParseChecksums \/ UnzipArchive
    \/ RenameNew \/ RenameOld \/ RenameTarget \/ RemoveOld \/ Chmod
    \/ Publish \/ Kill

Spec == Init /\ [][Next]_vars

-----------------------------------------------------------------------------
(* Properties *)

\* Types of the upgrade's state and of the files beside the binary.
UpgradeTypeOK ==
    /\ pc \in Steps \cup Ended
    /\ releases \in ReleaseLists
    /\ current \in Version
    /\ preRelease \in BOOLEAN
    /\ latest \in Version
    /\ files \in [Path -> File \cup {NoFile}]
    /\ failedAt \in Steps \cup {"none"}

\* Wherever an upgrade fails or is killed, an intact binary is left at the
\* target path or beside it: the order of the steps of swapFiles never has the
\* only one removed or overwritten.
BinarySurvives ==
    \E path \in {"target", "new", "old"} : Intact(path)

\* The binary stays runnable at its path until the old one is moved away, and
\* only a failure or a kill after that rename leaves it otherwise.
OnlySwapEndangers ==
    ~Runnable =>
        LET at == IF pc \in Steps THEN pc ELSE failedAt
        IN  at \in {"rename target", "remove old", "chmod"}

\* An upgrade that returns nil has left the binary runnable, and one that was
\* needed has installed the latest release with nothing beside it, whatever
\* earlier upgrades left there.
NilMeansUpgraded ==
    pc = "ok" =>
        /\ Runnable
        /\ latest # 0 =>
              /\ files["target"].version = latest
              /\ ~Is("new") /\ ~Is("old")

\* What replaces a binary is newer than it, unless that one had no version: a
\* list of releases that is not in order never brings an older one.
NeverDowngrades ==
    Is("target") /\ Is("old") =>
        \/ files["old"].version = 0
        \/ files["target"].version > files["old"].version
=============================================================================
