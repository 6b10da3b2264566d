-------------------------- MODULE AtomicWriteProofs --------------------------
(***************************************************************************)
(* The atomic write, for any number of calls: readers see whole files, no  *)
(* call leaves its temporary file, and the helper implements Store.        *)
(***************************************************************************)
EXTENDS AtomicWrite, TLAPS

(* What each line of atomic_write_bytes has established for its call when  *)
(* it is reached.  The content is on the disk before the name can change,  *)
(* so an entry under the final name, current or on the disk, means whole   *)
(* and flushed data.                                                       *)
CallInv(c) ==
    /\ pc[c] \in {"mkdir", "mkstemp"} => entry[c] = "old" /\ hardEntry[c] = "old"
    /\ pc[c] \in {"write", "fsync", "replace"} =>
          entry[c] = "temp" /\ hardEntry[c] # "new"
    /\ pc[c] \in {"fsync", "replace"} => data[c] = "whole"
    /\ pc[c] = "replace" => hardData[c] = "whole"
    /\ pc[c] \in {"fsyncdir", "finally"} => entry[c] = "new"
    /\ pc[c] = "finally" => hardEntry[c] = "new"
    /\ entry[c] = "new" => data[c] = "whole" /\ hardData[c] = "whole"
    /\ hardEntry[c] = "new" => entry[c] = "new"

IInv == TypeOK /\ \A c \in Calls : CallInv(c)

LEMMA IInvInit == Init => IInv
BY DEF Init, IInv, TypeOK, CallInv, Entry, Data

(* A call's step leaves the other calls alone, but for fsync of the        *)
(* directory.                                                              *)
LEMMA StepInv ==
    ASSUME IInv, NEW c \in Calls, Step(c)
    PROVE  IInv'
<1> USE DEF IInv, TypeOK, Entry, Data, Goto
<1>1. CASE Mkdir(c)
  BY <1>1 DEF Mkdir, CallInv
<1>2. CASE Mkstemp(c)
  BY <1>2 DEF Mkstemp, CallInv
<1>3. CASE WriteData(c)
  BY <1>3 DEF WriteData, CallInv
<1>4. CASE Fsync(c)
  BY <1>4 DEF Fsync, CallInv
<1>5. CASE Replace(c)
  BY <1>5 DEF Replace, CallInv
<1>6. CASE FsyncDirectory(c)
  BY <1>6 DEF FsyncDirectory, CallInv
<1>7. CASE Return(c)
  BY <1>7 DEF Return, CallInv, fsVars
<1>8. CASE RaiseEarly(c)
  BY <1>8 DEF RaiseEarly, CallInv, fsVars
<1>9. CASE Raise(c)
  <2>1. \/ data' = data
        \/ pc[c] = "write" /\ data' = [data EXCEPT ![c] = "torn"]
    BY <1>9 DEF Raise
  <2>2. pc' = [pc EXCEPT ![c] = "unwind"] /\ UNCHANGED <<parent, entry, hardEntry, hardData>>
    BY <1>9 DEF Raise
  <2> QED BY <2>1, <2>2 DEF CallInv
<1>10. CASE Unwind(c)
  BY <1>10 DEF Unwind, CallInv
<1>11. CASE UnwindRaises(c)
  BY <1>11 DEF UnwindRaises, CallInv, fsVars
<1>12. CASE Kill(c)
  BY <1>12 DEF Kill, CallInv, fsVars
<1> QED BY <1>1, <1>2, <1>3, <1>4, <1>5, <1>6, <1>7, <1>8, <1>9, <1>10, <1>11,
           <1>12 DEF Step

LEMMA WriteBackInv ==
    ASSUME IInv, WriteBack
    PROVE  IInv'
BY DEF IInv, TypeOK, CallInv, Entry, Data, WriteBack

LEMMA PowerLossInv ==
    ASSUME IInv, PowerLoss
    PROVE  IInv'
<1> USE DEF IInv, TypeOK, Entry, Data
<1>1. \A c \in Calls : pc'[c] \in Finished
  BY DEF PowerLoss, Finished
<1>2. TypeOK'
  BY DEF PowerLoss, Finished
<1>3. ASSUME NEW c \in Calls PROVE CallInv(c)'
  <2>1. entry'[c] = "new" => entry[c] = "new" \/ hardEntry[c] = "new"
    BY DEF PowerLoss
  <2>2. entry'[c] = "new" => data'[c] = "whole" /\ hardData'[c] = "whole"
    BY <2>1 DEF PowerLoss, CallInv
  <2>3. hardEntry'[c] = entry'[c]
    BY DEF PowerLoss
  <2> QED BY <1>1, <2>2, <2>3 DEF CallInv, Finished
<1> QED BY <1>2, <1>3

LEMMA IInvAlways == Spec => []IInv
<1>1. IInv /\ [Next]_vars => IInv'
  <2>1. ASSUME IInv, UNCHANGED vars PROVE IInv'
    BY <2>1 DEF IInv, TypeOK, CallInv, vars, fsVars
  <2> QED BY <2>1, StepInv, WriteBackInv, PowerLossInv DEF Next
<1> QED BY <1>1, IInvInit, PTL DEF Spec

(* Every variable keeps its type. *)
THEOREM TypeCorrect == Spec => []TypeOK
BY IInvAlways, PTL DEF IInv

(* Whoever opens the final name finds the old file or all of the new one,  *)
(* at every moment and after every crash: fsync comes before the rename.   *)
THEOREM ReadersSeeWholeHolds == Spec => []ReadersSeeWhole
<1>1. IInv => ReadersSeeWhole
  BY DEF IInv, CallInv, ReadersSeeWhole
<1> QED BY <1>1, IInvAlways, PTL

(* The finally clause leaves no temporary file on any path by which the    *)
(* call returns, or raises without the clean-up itself raising.            *)
THEOREM NoTempLeftHolds == Spec => NoTempLeft
<1> DEFINE Clean ==
        \A c \in Calls :
            pc[c] # pc'[c] /\ pc'[c] \in {"returned", "raised"} => entry'[c] # "temp"
<1>1. IInv /\ [Next]_vars => [Clean]_vars
  <2> SUFFICES ASSUME IInv, [Next]_vars, NEW d \in Calls,
                      pc[d] # pc'[d], pc'[d] \in {"returned", "raised"}
               PROVE  entry'[d] # "temp"
    OBVIOUS
  <2> USE DEF IInv, TypeOK
  <2>1. PICK c \in Calls : Step(c)
    BY DEF Next, vars, fsVars, WriteBack, PowerLoss, Finished
  <2>2. c = d /\ (Return(d) \/ RaiseEarly(d) \/ Unwind(d))
    BY <2>1 DEF Step, Goto, Mkdir, Mkstemp, WriteData, Fsync, Replace, FsyncDirectory,
       Return, RaiseEarly, Raise, Unwind, UnwindRaises, Kill
  <2>3. CASE Return(d)
    BY <2>3 DEF Return, Goto, CallInv, fsVars
  <2>4. CASE RaiseEarly(d)
    BY <2>4 DEF RaiseEarly, Goto, CallInv, fsVars
  <2>5. CASE Unwind(d)
    BY <2>5 DEF Unwind, Entry
  <2> QED BY <2>2, <2>3, <2>4, <2>5
<1> QED BY <1>1, IInvAlways, PTL DEF Spec, NoTempLeft

-------------------------------------------------------------------------------
(* Under the invariant the content is never torn, and an entry that is on  *)
(* the disk under the final name is safe.                                  *)
Mapped(c) ==
    /\ Content(c) = IF entry[c] = "new" THEN "new" ELSE "old"
    /\ Safe(c) <=> hardEntry[c] = "new"
    /\ hardEntry[c] = "new" => entry[c] = "new"

LEMMA MappedHere == ASSUME IInv PROVE \A c \in Calls : Mapped(c)
BY DEF IInv, CallInv, Mapped, Content, Safe

LEMMA MappedNext == ASSUME IInv' PROVE \A c \in Calls : Mapped(c)'
BY DEF IInv, CallInv, Mapped, Content, Safe

contents == [c \in Calls |-> Content(c)]
safes == [c \in Calls |-> Safe(c)]
statuses == [c \in Calls |-> Status(c)]

Silent == UNCHANGED <<contents, safes, parent = "hard", statuses>>

(* A step of a call that neither renames its file nor flushes the directory *)
(* shows in Store as an answer of the call or not at all.                  *)
LEMMA QuietStepMaps ==
    ASSUME IInv, IInv', NEW c \in Calls,
           pc[c] \notin Finished,
           \E to : pc' = [pc EXCEPT ![c] = to],
           \A d \in Calls : /\ entry'[d] = "new" <=> entry[d] = "new"
                            /\ hardEntry'[d] = "new" <=> hardEntry[d] = "new",
           parent' = "hard" <=> parent = "hard",
           pc'[c] = "returned" => hardEntry[c] = "new"
    PROVE  Silent \/ Implemented!Return(c) \/ Implemented!GiveUp(c)
<1>1. contents' = contents
  BY MappedHere, MappedNext DEF Mapped, contents
<1>2. safes' = safes
  <2>1. \A d \in Calls : Safe(d)' = Safe(d)
    BY MappedHere, MappedNext DEF Mapped, Safe
  <2> QED BY <2>1 DEF safes
<1>3. \A d \in Calls \ {c} : Status(d)' = Status(d)
  BY DEF IInv, TypeOK, Status
<1>4. Status(c) = "calling"
  BY DEF Status, Finished
<1>5. Status(c)' \in {"calling", "returned", "raised", "dead"}
  BY DEF Status
<1>6. CASE Status(c)' = "calling"
  BY <1>1, <1>2, <1>3, <1>4, <1>6 DEF Silent, statuses
<1>7. CASE Status(c)' \in {"raised", "dead"}
  <2>1. statuses' = [statuses EXCEPT ![c] = Status(c)']
    BY <1>3 DEF statuses
  <2> QED BY <1>1, <1>2, <1>4, <1>7, <2>1
          DEF Implemented!GiveUp, contents, safes, statuses
<1>8. CASE Status(c)' = "returned"
  <2>1. statuses' = [statuses EXCEPT ![c] = Status(c)']
    BY <1>3 DEF statuses
  <2>2. pc'[c] = "returned"
    BY <1>8 DEF Status
  <2>3. Content(c) = "new" /\ Safe(c)
    BY <2>2, MappedHere DEF Mapped
  <2> QED BY <1>1, <1>2, <1>4, <1>8, <2>1, <2>3
          DEF Implemented!Return, contents, safes, statuses
<1> QED BY <1>5, <1>6, <1>7, <1>8

(* os.replace is the moment the call takes effect. *)
LEMMA ReplaceMaps ==
    ASSUME IInv, IInv', NEW c \in Calls, Replace(c)
    PROVE  Implemented!TakeEffect(c)
<1> USE DEF IInv, TypeOK, Replace, Goto
<1>1. contents' = [contents EXCEPT ![c] = "new"]
  <2>1. Content(c)' = "new"
    BY MappedNext DEF Mapped
  <2>2. \A d \in Calls \ {c} : Content(d)' = Content(d)
    BY MappedHere, MappedNext DEF Mapped
  <2> QED BY <2>1, <2>2 DEF contents
<1>2. safes' = safes
  <2>1. \A d \in Calls : Safe(d)' = Safe(d)
    BY MappedHere, MappedNext DEF Mapped, Safe
  <2> QED BY <2>1 DEF safes
<1>3. statuses' = statuses /\ Status(c) = "calling"
  BY DEF Status, statuses
<1> QED BY <1>1, <1>2, <1>3 DEF Implemented!TakeEffect, contents, safes, statuses

(* Flushing the directory, and the write-back of the file system, show as   *)
(* the medium catching up.                                                 *)
LEMMA HardenMaps ==
    ASSUME IInv, IInv', UNCHANGED entry, statuses' = statuses,
           parent' \in {parent, IF parent = "made" THEN "hard" ELSE parent},
           \A d \in Calls : hardEntry'[d] \in {hardEntry[d], entry[d]}
    PROVE  Implemented!Harden
<1>1. contents' = contents
  BY MappedHere, MappedNext DEF Mapped, contents
<1>2. (parent = "hard")' \in {parent = "hard", TRUE}
  OBVIOUS
<1>3. safes' \in [Calls -> BOOLEAN]
  BY DEF safes, Safe
<1>4. ASSUME NEW d \in Calls
      PROVE  /\ safes[d] => safes'[d]
             /\ safes'[d] => contents[d] = "new"
  <2>1. safes[d] = Safe(d) /\ safes'[d] = Safe(d)' /\ contents[d] = Content(d)
    BY DEF safes, contents, Safe
  <2>2. /\ Safe(d) => Safe(d)'
        /\ Safe(d)' => Content(d) = "new"
    BY MappedHere, MappedNext DEF Mapped, Safe
  <2> QED BY <2>1, <2>2, Zenon
<1> QED BY <1>1, <1>2, <1>3, <1>4
        DEF Implemented!Harden, contents, safes, statuses

LEMMA PowerLossMaps ==
    ASSUME IInv, IInv', PowerLoss
    PROVE  Implemented!LosePower
<1> USE DEF IInv, TypeOK, PowerLoss
<1>1. ASSUME NEW c \in Calls
      PROVE  /\ Content(c)' \in {"old", "new"}
             /\ Content(c) = "old" => Content(c)' = "old"
             /\ parent = "hard" /\ Safe(c) => Content(c)' = "new"
             /\ Safe(c)' = (Content(c)' = "new")
  <2>1. entry'[c] \in IF parent = "hard" THEN {hardEntry[c], entry[c]} ELSE {"old"}
    OBVIOUS
  <2>2. hardEntry'[c] = entry'[c]
    OBVIOUS
  <2> QED BY <2>1, <2>2, MappedHere, MappedNext DEF Mapped, Safe
<1>2. \A c \in Calls :
         Status(c)' = IF Status(c) = "calling" THEN "dead" ELSE Status(c)
  BY DEF Status, Finished
<1>3. (parent = "hard")' = (parent = "hard")
  OBVIOUS
<1> QED BY <1>1, <1>2, <1>3 DEF Implemented!LosePower

LEMMA StepMaps ==
    ASSUME IInv, IInv', NEW c \in Calls, Step(c)
    PROVE  Silent \/ Implemented!StoreNext
<1> USE DEF IInv, TypeOK, Goto, Finished
<1>1. CASE Replace(c)
  BY <1>1, ReplaceMaps DEF Implemented!StoreNext
<1>2. CASE FsyncDirectory(c)
  <2>1. statuses' = statuses
    BY <1>2 DEF FsyncDirectory, statuses, Status
  <2> QED BY <1>2, <2>1, HardenMaps DEF FsyncDirectory, Implemented!StoreNext
<1>3. CASE ~Replace(c) /\ ~FsyncDirectory(c)
  <2>1. pc[c] \notin Finished /\ \E to : pc' = [pc EXCEPT ![c] = to]
    BY <1>3 DEF Step, Mkdir, Mkstemp, WriteData, Fsync, Return, RaiseEarly, Raise,
       Unwind, UnwindRaises, Kill
  <2>2. parent' = "hard" <=> parent = "hard"
    BY <1>3 DEF Step, Mkdir, Mkstemp, WriteData, Fsync, Return, RaiseEarly, Raise,
       Unwind, UnwindRaises, Kill, fsVars
  <2>3. UNCHANGED hardEntry
    BY <1>3 DEF Step, Mkdir, Mkstemp, WriteData, Fsync, Return, RaiseEarly, Raise,
       Unwind, UnwindRaises, Kill, fsVars
  <2>4. \A d \in Calls : entry'[d] = "new" <=> entry[d] = "new"
    <3>1. CASE Mkstemp(c)
      BY <3>1 DEF Mkstemp, CallInv
    <3>2. CASE Unwind(c)
      BY <3>2 DEF Unwind
    <3>3. CASE UNCHANGED entry
      BY <3>3
    <3> QED BY <1>3, <3>1, <3>2, <3>3 DEF Step, Mkdir, WriteData, Fsync, Return,
            RaiseEarly, Raise, UnwindRaises, Kill, fsVars
  <2>5. pc'[c] = "returned" => hardEntry[c] = "new"
    BY <1>3 DEF Step, Mkdir, Mkstemp, WriteData, Fsync, Return, RaiseEarly, Raise,
       Unwind, UnwindRaises, Kill, CallInv
  <2> QED BY <2>1, <2>2, <2>3, <2>4, <2>5, QuietStepMaps DEF Implemented!StoreNext
<1> QED BY <1>1, <1>2, <1>3

(* The helper implements the promise the ledgers rely on: one step per      *)
(* call, safe when it returns, for any number of concurrent calls.         *)
THEOREM ImplementsStoreHolds == Spec => ImplementsStore
<1>1. Init => Implemented!StoreInit
  BY DEF Init, Implemented!StoreInit, Content, Safe, Status
<1>2. IInv /\ IInv' /\ [Next]_vars => [Implemented!StoreNext]_(Implemented!storeVars)
  <2> SUFFICES ASSUME IInv, IInv', [Next]_vars
               PROVE  Silent \/ Implemented!StoreNext
    BY DEF Silent, contents, safes, statuses, Implemented!storeVars
  <2>1. ASSUME NEW c \in Calls, Step(c) PROVE Silent \/ Implemented!StoreNext
    BY <2>1, StepMaps
  <2>2. CASE WriteBack
    <3>1. statuses' = statuses
      BY <2>2 DEF WriteBack, statuses, Status
    <3>2. \A d \in Calls : hardEntry'[d] \in {hardEntry[d], entry[d]}
      BY <2>2 DEF WriteBack
    <3> QED BY <2>2, <3>1, <3>2, HardenMaps DEF WriteBack, Implemented!StoreNext
  <2>3. CASE PowerLoss
    BY <2>3, PowerLossMaps DEF Implemented!StoreNext
  <2>4. CASE UNCHANGED vars
    BY <2>4 DEF vars, fsVars, Silent, contents, safes, statuses, Content, Safe, Status
  <2> QED BY <2>1, <2>2, <2>3, <2>4 DEF Next
<1> QED BY <1>1, <1>2, IInvAlways, PTL DEF Spec, ImplementsStore, Implemented!StoreSpec
===============================================================================
