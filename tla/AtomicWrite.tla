----------------------------- MODULE AtomicWrite -----------------------------
(***************************************************************************)
(* evidence/_atomic.py: the write-then-rename helper under every ledger,   *)
(* called by several processes for files of one directory (the names carry *)
(* a uuid, so no two calls share a file), on a file system that keeps what *)
(* it is told in memory until it is told to flush it.                      *)
(*                                                                         *)
(* The file system is the environment.  fsync(file) hardens the content of *)
(* that file; fsync(directory) hardens every entry of that directory; the  *)
(* entry of a directory in its own parent is hardened by neither, but may  *)
(* reach the disk at any time, as may everything else.  A power loss keeps *)
(* what was hardened and any part of the rest.                             *)
(***************************************************************************)
CONSTANT Calls       \* calls of atomic_write_bytes

VARIABLES
    pc,              \* the line each call has reached
    parent,          \* path.parent: "absent", "made" in memory, "hard" on disk
    entry,           \* entry[c]: what the directory holds for the call
    hardEntry,       \*   ... and what of it is on the disk
    data,            \* the content of the file mkstemp created for the call
    hardData         \*   ... and what of it is on the disk

fsVars == <<parent, entry, hardEntry, data, hardData>>
vars == <<pc, fsVars>>

(* A directory may hold for one call nothing new, the temporary name next  *)
(* to the old file, or the new file under the final name.                  *)
Entry == {"old", "temp", "new"}
Data == {"empty", "torn", "whole"}

TypeOK ==
    /\ pc \in [Calls -> {"mkdir", "mkstemp", "write", "fsync", "replace", "fsyncdir",
                         "finally", "unwind", "returned", "raised", "littered", "dead"}]
    /\ parent \in {"absent", "made", "hard"}
    /\ entry \in [Calls -> Entry]
    /\ hardEntry \in [Calls -> Entry]
    /\ data \in [Calls -> Data]
    /\ hardData \in [Calls -> Data]

Init ==
    /\ pc = [c \in Calls |-> "mkdir"]
    /\ parent \in {"absent", "hard"}
    /\ entry = [c \in Calls |-> "old"]
    /\ hardEntry = [c \in Calls |-> "old"]
    /\ data = [c \in Calls |-> "empty"]
    /\ hardData = [c \in Calls |-> "empty"]

Goto(c, from, to) == pc[c] = from /\ pc' = [pc EXCEPT ![c] = to]

(* path.parent.mkdir(parents=True, exist_ok=True) *)
Mkdir(c) ==
    /\ Goto(c, "mkdir", "mkstemp")
    /\ parent' = IF parent = "absent" THEN "made" ELSE parent
    /\ UNCHANGED <<entry, hardEntry, data, hardData>>

(* tempfile.mkstemp: a new, empty file under a name no other call has. *)
Mkstemp(c) ==
    /\ Goto(c, "mkstemp", "write")
    /\ entry' = [entry EXCEPT ![c] = "temp"]
    /\ UNCHANGED <<parent, hardEntry, data, hardData>>

(* stream.write and stream.flush *)
WriteData(c) ==
    /\ Goto(c, "write", "fsync")
    /\ data' = [data EXCEPT ![c] = "whole"]
    /\ UNCHANGED <<parent, entry, hardEntry, hardData>>

(* Defect: the file itself is not flushed before the rename. *)
SkipFsync(c) == Goto(c, "fsync", "replace") /\ UNCHANGED fsVars

Fsync(c) ==
    /\ Goto(c, "fsync", "replace")
    /\ hardData' = [hardData EXCEPT ![c] = data[c]]
    /\ UNCHANGED <<parent, entry, hardEntry, data>>

(* os.replace: one step of the directory. *)
Replace(c) ==
    /\ Goto(c, "replace", "fsyncdir")
    /\ entry' = [entry EXCEPT ![c] = "new"]
    /\ UNCHANGED <<parent, hardEntry, data, hardData>>

(* Defect: the directory is not flushed after the rename. *)
SkipFsyncDirectory(c) == Goto(c, "fsyncdir", "finally") /\ UNCHANGED fsVars

(* Flushing the directory hardens the entries of the other calls as well. *)
FsyncDirectory(c) ==
    /\ Goto(c, "fsyncdir", "finally")
    /\ hardEntry' = entry
    /\ UNCHANGED <<parent, entry, data, hardData>>

(* Nothing is left to unlink on this path. *)
Return(c) == Goto(c, "finally", "returned") /\ UNCHANGED fsVars

(* mkdir or mkstemp raises before there is a file to clean up. *)
RaiseEarly(c) ==
    /\ Goto(c, "mkdir", "raised") \/ Goto(c, "mkstemp", "raised")
    /\ UNCHANGED fsVars

(* Defect: the exception is waited for in an except clause that is not     *)
(* there, instead of the finally clause.                                   *)
RaiseToExcept(c) ==
    /\ \/ Goto(c, "write", "except")
       \/ Goto(c, "fsync", "except")
       \/ Goto(c, "replace", "except")
       \/ Goto(c, "fsyncdir", "except")
    /\ UNCHANGED fsVars

(* Anything inside the try raises: a full disk may leave part of the data. *)
Raise(c) ==
    /\ \/ Goto(c, "write", "unwind")
       \/ Goto(c, "fsync", "unwind")
       \/ Goto(c, "replace", "unwind")
       \/ Goto(c, "fsyncdir", "unwind")
    /\ data' \in {data, [data EXCEPT ![c] = IF pc[c] = "write" THEN "torn" ELSE @]}
    /\ UNCHANGED <<parent, entry, hardEntry, hardData>>

(* Defect: no clean-up on the way out. *)
UnwindAndLeave(c) == Goto(c, "unwind", "raised") /\ UNCHANGED fsVars

(* finally: the temporary file goes if it is still there. *)
Unwind(c) ==
    /\ Goto(c, "unwind", "raised")
    /\ entry' = [entry EXCEPT ![c] = IF @ = "temp" THEN "old" ELSE @]
    /\ UNCHANGED <<parent, hardEntry, data, hardData>>

(* ... unless os.unlink raises too. *)
UnwindRaises(c) ==
    /\ entry[c] = "temp"
    /\ Goto(c, "unwind", "littered")
    /\ UNCHANGED fsVars

Finished == {"returned", "raised", "littered", "dead"}

(* The process is killed: what it told the file system stays told. *)
Kill(c) ==
    /\ pc[c] \notin Finished
    /\ pc' = [pc EXCEPT ![c] = "dead"]
    /\ UNCHANGED fsVars

(* The file system writes back on its own: the directory into its parent,  *)
(* entries of the directory, contents of files, as many as it likes.       *)
WriteBack ==
    /\ parent' \in {parent, IF parent = "made" THEN "hard" ELSE parent}
    /\ \E C \in SUBSET Calls :
          hardEntry' = [c \in Calls |-> IF c \in C THEN entry[c] ELSE hardEntry[c]]
    /\ \E C \in SUBSET Calls :
          hardData' = [c \in Calls |-> IF c \in C THEN data[c] ELSE hardData[c]]
    /\ UNCHANGED <<pc, entry, data>>

(* Per call the disk may have the hardened entry or the current one, and   *)
(* of content that was not flushed any part; of a directory that is not in *)
(* its parent on the disk nothing remains.                                 *)
PowerLoss ==
    /\ pc' = [c \in Calls |-> IF pc[c] \in Finished THEN pc[c] ELSE "dead"]
    /\ parent' = IF parent = "hard" THEN "hard" ELSE "absent"
    /\ entry' \in [Calls -> Entry]
    /\ \A c \in Calls : entry'[c] \in
          IF parent = "hard" THEN {hardEntry[c], entry[c]} ELSE {"old"}
    /\ data' \in [Calls -> Data]
    /\ \A c \in Calls : hardData[c] = "whole" => data'[c] = "whole"
    /\ hardEntry' = entry'
    /\ hardData' = data'

Step(c) ==
    \/ Mkdir(c) \/ Mkstemp(c) \/ WriteData(c) \/ Fsync(c) \/ Replace(c)
    \/ FsyncDirectory(c) \/ Return(c)
    \/ RaiseEarly(c) \/ Raise(c) \/ Unwind(c) \/ UnwindRaises(c)
    \/ Kill(c)

Next == (\E c \in Calls : Step(c)) \/ WriteBack \/ PowerLoss

Spec == Init /\ [][Next]_vars

-------------------------------------------------------------------------------
(* A reader (glob "*.json", which never matches the temporary name) finds  *)
(* under the final name the old file or all of the new one, at every       *)
(* moment and after every crash.                                           *)
ReadersSeeWhole == \A c \in Calls : entry[c] = "new" => data[c] = "whole"

(* A call that returns, or raises after its clean-up, leaves no temporary  *)
(* file behind: one outlives its call only where the process was killed,   *)
(* the power was lost or the clean-up itself raised.                       *)
NoTempLeft ==
    [][\A c \in Calls :
          pc[c] # pc'[c] /\ pc'[c] \in {"returned", "raised"}
              => entry'[c] # "temp"]_vars

(* "Crash-safe" (evidence/_atomic.py:1): what a call has returned for is   *)
(* still there after a power loss.                                         *)
AcknowledgedSurvives ==
    \A c \in Calls : pc[c] = "returned" => entry[c] = "new"

-------------------------------------------------------------------------------
(* The state of Store that this state stands for. *)
Content(c) ==
    IF entry[c] # "new" THEN "old" ELSE IF data[c] = "whole" THEN "new" ELSE "torn"

Safe(c) == entry[c] = "new" /\ hardEntry[c] = "new" /\ hardData[c] = "whole"

Status(c) ==
    CASE pc[c] \in {"returned", "dead"} -> pc[c]
      [] pc[c] \in {"raised", "littered"} -> "raised"
      [] OTHER -> "calling"

Implemented == INSTANCE Store WITH
    content <- [c \in Calls |-> Content(c)],
    safe <- [c \in Calls |-> Safe(c)],
    sound <- parent = "hard",
    status <- [c \in Calls |-> Status(c)]

(* The promise of Store: one step per call, and what a call has returned    *)
(* for survives, unless the directory was created by these calls and has   *)
(* not reached the disk (evidence/_atomic.py:1-4).                         *)
ImplementsStore == Implemented!StoreSpec
===============================================================================
