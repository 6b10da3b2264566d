---------------------------- MODULE LedgersProofs ----------------------------
(***************************************************************************)
(* Proofs about the append-only ledgers, for every set of callers and      *)
(* accounts, every number of points and calls, and every history of the    *)
(* clock.                                                                  *)
(***************************************************************************)
EXTENDS Ledgers, TotalsProofs, SequenceTheorems, FiniteSetTheorems, TLAPS

(***************************************************************************)
(* The inductive invariant behind the entries and their order.             *)
(***************************************************************************)
Active(c) == call[c].step # "none"

(* A caller that is in no call has nothing; the entry of a call carries a   *)
(* number that no other call has, and none that has ended.                 *)
CallsNumbered ==
    /\ \A c \in Callers : IF Active(c) THEN call[c].entry \in Entry ELSE call[c] = NoCall
    /\ \A c \in Callers : Active(c) =>
          /\ call[c].entry.number \in 1..begun
          /\ call[c].entry.number \notin returned \cup doubtful
    /\ \A c, d \in Callers :
          Active(c) /\ Active(d) /\ call[c].entry.number = call[d].entry.number => c = d

(* The entries whose stamp has been read off the clock. *)
Stamped(c) == call[c].step \in {"stamped", "placed"}
Stamps ==
    {files[i] : i \in DOMAIN files} \cup {call[c].entry : c \in {d \in Callers : Stamped(d)}}

(* No stamp is ahead of the clock, unless the clock was set back since. *)
NoneAhead ==
    \A f \in Stamps : f.epoch <= setBacks /\ (f.epoch = setBacks => f.stamp <= now)

(* What a call knows to have returned has returned. *)
AfterReturned ==
    /\ \A i \in DOMAIN files : files[i].after \subseteq returned
    /\ \A c \in Callers : Active(c) => call[c].entry.after \subseteq returned

(* Nothing is stamped before what had returned when its call began. *)
StampsOrdered ==
    \A i \in DOMAIN files : \A f \in Stamps :
        files[i].number \in f.after =>
            /\ files[i].epoch <= f.epoch
            /\ files[i].epoch = f.epoch => files[i].stamp <= f.stamp

LedgersInv ==
    /\ TypeOK
    /\ CallsNumbered
    /\ EntriesAccounted
    /\ NoneAhead
    /\ AfterReturned
    /\ StampsOrdered

-------------------------------------------------------------------------------
(***************************************************************************)
(* What each step does to the call it belongs to; the other calls stay.    *)
(***************************************************************************)
OthersKept(c) == \A d \in Callers : d # c => call'[d] = call[d]

Calls == [step : {"none", "listing", "begun", "stamped", "placed"},
          entry : Entry \cup {NoEntry},
          listed : 0..Len(files)]

LEMMA FilesTyped ==
    ASSUME TypeOK
    PROVE  /\ Len(files) \in Nat
           /\ DOMAIN files = 1..Len(files)
           /\ \A i \in DOMAIN files : files[i] \in Entry
BY LenProperties DEF TypeOK

LEMMA CallTyped ==
    ASSUME TypeOK, CallsNumbered, NEW c \in Callers
    PROVE  /\ call[c] \in Calls
           /\ Active(c) => call[c].entry \in Entry
           /\ ~Active(c) => call[c] = NoCall
           /\ call[c] # NoCall <=> Active(c)
<1>1. call[c] \in Calls
  BY DEF TypeOK, Calls
<1>2. call[c] = NoCall => ~Active(c)
  BY DEF NoCall, Active
<1> QED BY <1>1, <1>2 DEF CallsNumbered

LEMMA BeginEffect ==
    ASSUME TypeOK, CallsNumbered, NEW c \in Callers, Record(c) \/ Withdraw(c)
    PROVE  /\ \E e \in Entry, s \in {"listing", "begun"}, l \in 0..Len(files) :
                 /\ call'[c] = [step |-> s, entry |-> e, listed |-> l]
                 /\ e.number = begun + 1
                 /\ e.after = returned
                 /\ Checked(e.kind) => s = "listing" /\ l = Len(files)
                 /\ call' = [call EXCEPT ![c] = [step |-> s, entry |-> e, listed |-> l]]
           /\ OthersKept(c)
           /\ ~Active(c)
           /\ begun' = begun + 1
           /\ UNCHANGED <<files, now, setBacks, returned, doubtful>>
<1>1. PICK a \in Accounts, kind \in Kinds, points \in 1..MaxPoints :
         Begin(c, a, kind, points)
  BY DEF Record, Withdraw, Kinds
<1> DEFINE e == [account |-> a, kind |-> kind, points |-> points,
                 stamp |-> 0, epoch |-> 0, number |-> begun + 1, after |-> returned]
           s == IF Checked(kind) THEN "listing" ELSE "begun"
           l == IF Checked(kind) THEN Len(files) ELSE 0
<1>2. begun \in Nat /\ returned \subseteq Nat /\ Len(files) \in Nat
  BY FilesTyped DEF TypeOK
<1>3. e \in Entry
  BY <1>2 DEF Entry
<1>4. /\ e.number = begun + 1 /\ e.after = returned
      /\ Checked(e.kind) => s = "listing" /\ l = Len(files)
  OBVIOUS
<1>5. s \in {"listing", "begun"} /\ l \in 0..Len(files)
  BY <1>2
<1>6. call' = [call EXCEPT ![c] = [step |-> s, entry |-> e, listed |-> l]]
  BY <1>1 DEF Begin
<1>7. call \in [Callers -> Calls]
  BY DEF TypeOK, Calls
<1> HIDE DEF e, s, l
<1>8. call'[c] = [step |-> s, entry |-> e, listed |-> l] /\ OthersKept(c)
  BY <1>6, <1>7 DEF OthersKept
<1>9. ~Active(c)
  BY <1>1, CallTyped DEF Begin
<1> QED BY <1>1, <1>3, <1>4, <1>5, <1>6, <1>8, <1>9 DEF Begin

LEMMA ApproveEffect ==
    ASSUME TypeOK, CallsNumbered, NEW c \in Callers, Approve(c)
    PROVE  /\ Active(c) /\ call[c].step = "listing"
           /\ call' = [call EXCEPT ![c] =
                        [step |-> "begun", entry |-> call[c].entry, listed |-> 0]]
           /\ call'[c].step = "begun" /\ call'[c].entry = call[c].entry
           /\ OthersKept(c)
           /\ UNCHANGED <<files, now, setBacks, begun, returned, doubtful>>
<1>1. call \in [Callers -> Calls] /\ call[c] \in Calls
  BY DEF TypeOK, Calls
<1>2. call' = [call EXCEPT ![c] = [call[c] EXCEPT !.step = "begun", !.listed = 0]]
  BY <1>1 DEF Approve
<1>3. [call[c] EXCEPT !.step = "begun", !.listed = 0] =
        [step |-> "begun", entry |-> call[c].entry, listed |-> 0]
  <2>1. [call[c] EXCEPT !.step = "begun", !.listed = 0] =
           [[call[c] EXCEPT !.step = "begun"] EXCEPT !.listed = 0]
    OBVIOUS
  <2>2. [call[c] EXCEPT !.step = "begun"] =
           [step |-> "begun", entry |-> call[c].entry, listed |-> call[c].listed]
    BY <1>1 DEF Calls
  <2>3. \A e, l : [[step |-> "begun", entry |-> e, listed |-> l] EXCEPT !.listed = 0] =
                    [step |-> "begun", entry |-> e, listed |-> 0]
    OBVIOUS
  <2> QED BY <2>1, <2>2, <2>3
<1>4. call'[c] = [step |-> "begun", entry |-> call[c].entry, listed |-> 0]
  BY <1>1, <1>2, <1>3
<1>5. call'[c].step = "begun" /\ call'[c].entry = call[c].entry
  BY <1>4
<1> QED BY <1>1, <1>2, <1>3, <1>5 DEF Approve, Active, OthersKept

(* The entry with what the clock shows put in. *)
Dated(e) == [e EXCEPT !.stamp = now, !.epoch = setBacks]

LEMMA DatedEntry ==
    ASSUME TypeOK, NEW e \in Entry
    PROVE  /\ Dated(e) \in Entry
           /\ Dated(e).number = e.number
           /\ Dated(e).after = e.after
           /\ Dated(e).account = e.account
           /\ Dated(e).kind = e.kind
           /\ Dated(e).points = e.points
           /\ Dated(e).stamp = now
           /\ Dated(e).epoch = setBacks
BY DEF Dated, Entry, TypeOK

LEMMA StampEffect ==
    ASSUME TypeOK, CallsNumbered, NEW c \in Callers, Stamp(c)
    PROVE  /\ Active(c) /\ call[c].step = "begun"
           /\ call' = [call EXCEPT ![c] = [step |-> "stamped", entry |-> Dated(call[c].entry),
                                           listed |-> call[c].listed]]
           /\ call'[c].step = "stamped" /\ call'[c].entry = Dated(call[c].entry)
           /\ OthersKept(c)
           /\ UNCHANGED <<files, now, setBacks, begun, returned, doubtful>>
<1>1. call \in [Callers -> Calls] /\ call[c] \in Calls
  BY DEF TypeOK, Calls
<1>2. call' = [call EXCEPT ![c] = [call[c] EXCEPT !.step = "stamped",
                      !.entry.stamp = now, !.entry.epoch = setBacks]]
  BY <1>1 DEF Stamp
<1>3. [call[c] EXCEPT !.step = "stamped", !.entry.stamp = now, !.entry.epoch = setBacks] =
        [step |-> "stamped", entry |-> Dated(call[c].entry), listed |-> call[c].listed]
  <2>1. [call[c] EXCEPT !.step = "stamped", !.entry.stamp = now,
                        !.entry.epoch = setBacks] =
           [[call[c] EXCEPT !.step = "stamped"] EXCEPT !.entry = Dated(@)]
    BY <1>1 DEF Calls, Dated
  <2>2. [call[c] EXCEPT !.step = "stamped"] =
           [step |-> "stamped", entry |-> call[c].entry, listed |-> call[c].listed]
    BY <1>1 DEF Calls
  <2>3. \A e, l : [[step |-> "stamped", entry |-> e, listed |-> l]
                       EXCEPT !.entry = Dated(@)] =
                    [step |-> "stamped", entry |-> Dated(e), listed |-> l]
    OBVIOUS
  <2> QED BY <2>1, <2>2, <2>3
<1>4. call'[c] = [step |-> "stamped", entry |-> Dated(call[c].entry),
                  listed |-> call[c].listed]
  BY <1>1, <1>2, <1>3
<1>5. call'[c].step = "stamped" /\ call'[c].entry = Dated(call[c].entry)
  BY <1>4
<1> QED BY <1>1, <1>2, <1>3, <1>5 DEF Stamp, Active, OthersKept

LEMMA PlaceEffect ==
    ASSUME TypeOK, CallsNumbered, NEW c \in Callers, Place(c)
    PROVE  /\ Active(c) /\ call[c].step = "stamped" /\ call[c].entry \in Entry
           /\ call' = [call EXCEPT ![c] = [step |-> "placed", entry |-> call[c].entry,
                                           listed |-> call[c].listed]]
           /\ call'[c].step = "placed" /\ call'[c].entry = call[c].entry
           /\ OthersKept(c)
           /\ files' \in Seq(Entry)
           /\ Len(files') = Len(files) + 1
           /\ Len(files) + 1 \notin DOMAIN files
           /\ DOMAIN files' = DOMAIN files \cup {Len(files) + 1}
           /\ \A i \in DOMAIN files : files'[i] = files[i]
           /\ files'[Len(files) + 1] = call[c].entry
           /\ UNCHANGED <<now, setBacks, begun, returned, doubtful>>
<1>1. call \in [Callers -> Calls] /\ call[c] \in Calls
  BY DEF TypeOK, Calls
<1>2. /\ Active(c) /\ call[c].step = "stamped"
      /\ call' = [call EXCEPT ![c] = [step |-> "placed", entry |-> call[c].entry,
                                      listed |-> call[c].listed]]
      /\ call'[c].step = "placed" /\ call'[c].entry = call[c].entry
      /\ OthersKept(c)
  <2>1. call' = [call EXCEPT ![c] = [call[c] EXCEPT !.step = "placed"]]
    BY <1>1 DEF Place
  <2>2. [call[c] EXCEPT !.step = "placed"] =
          [step |-> "placed", entry |-> call[c].entry, listed |-> call[c].listed]
    BY <1>1 DEF Calls
  <2>3. call'[c] = [step |-> "placed", entry |-> call[c].entry,
                    listed |-> call[c].listed]
    BY <1>1, <2>1, <2>2
  <2>4. call'[c].step = "placed" /\ call'[c].entry = call[c].entry
    BY <2>3
  <2> QED BY <1>1, <2>1, <2>2, <2>4 DEF Place, Active, OthersKept
<1>3. call[c].entry \in Entry
  BY <1>2, CallTyped
<1>4. files' = Append(files, call[c].entry) /\ files \in Seq(Entry)
  BY DEF Place, TypeOK
<1>5. /\ files' \in Seq(Entry)
      /\ Len(files') = Len(files) + 1
      /\ \A i \in 1..Len(files) : files'[i] = files[i]
      /\ files'[Len(files) + 1] = call[c].entry
  BY <1>3, <1>4, AppendProperties
<1>6. /\ DOMAIN files = 1..Len(files) /\ Len(files) \in Nat
      /\ DOMAIN files' = 1..Len(files')
  BY <1>4, <1>5, LenProperties
<1>7. UNCHANGED <<now, setBacks, begun, returned, doubtful>>
  BY DEF Place
<1> QED BY <1>2, <1>3, <1>5, <1>6, <1>7

LEMMA EndEffect ==
    ASSUME TypeOK, CallsNumbered, NEW c \in Callers, Return(c) \/ Raise(c)
    PROVE  /\ Active(c)
           /\ call' = [call EXCEPT ![c] = NoCall]
           /\ call'[c] = NoCall
           /\ ~Active(c)'
           /\ OthersKept(c)
           /\ UNCHANGED <<files, now, setBacks, begun>>
           /\ \/ /\ call[c].step = "placed"
                 /\ returned' = returned \cup {call[c].entry.number}
                 /\ doubtful' = doubtful
              \/ /\ call[c].step = "placed"
                 /\ returned' = returned
                 /\ doubtful' = doubtful \cup {call[c].entry.number}
              \/ /\ call[c].step # "placed"
                 /\ returned' = returned
                 /\ doubtful' = doubtful
<1>1. call \in [Callers -> Calls]
  BY DEF TypeOK, Calls
<1>2. Active(c) /\ call' = [call EXCEPT ![c] = NoCall]
  BY CallTyped DEF Return, Raise, Active
<1>3. call'[c] = NoCall /\ OthersKept(c)
  BY <1>1, <1>2 DEF OthersKept
<1>4. ~Active(c)'
  BY <1>3 DEF Active, NoCall
<1> QED BY <1>2, <1>3, <1>4 DEF Return, Raise

(* Approving, stamping and placing carry one call on: its entry keeps        *)
(* everything but the date.                                                *)
CarriesOn(c) == Approve(c) \/ Stamp(c) \/ Place(c)

LEMMA CarryOnEffect ==
    ASSUME TypeOK, CallsNumbered, NEW c \in Callers, CarriesOn(c)
    PROVE  /\ Active(c) /\ Active(c)'
           /\ call[c].entry \in Entry
           /\ call'[c].entry \in Entry
           /\ call'[c].entry.number = call[c].entry.number
           /\ call'[c].entry.after = call[c].entry.after
           /\ OthersKept(c)
           /\ UNCHANGED <<now, setBacks, begun, returned, doubtful>>
<1>1. call'[c].step # "none" => Active(c)'
  BY DEF Active
<1>2. CASE Approve(c)
  <2>1. Active(c) /\ OthersKept(c) /\ UNCHANGED <<now, setBacks, begun, returned, doubtful>>
    BY <1>2, ApproveEffect
  <2>2. Active(c)' /\ call'[c].entry = call[c].entry
    BY <1>1, <1>2, ApproveEffect
  <2> QED BY <2>1, <2>2, CallTyped
<1>3. CASE Stamp(c)
  <2>1. Active(c) /\ OthersKept(c) /\ UNCHANGED <<now, setBacks, begun, returned, doubtful>>
    BY <1>3, StampEffect
  <2>2. Active(c)' /\ call'[c].entry = Dated(call[c].entry)
    BY <1>1, <1>3, StampEffect
  <2> QED BY <2>1, <2>2, CallTyped, DatedEntry
<1>4. CASE Place(c)
  <2>1. Active(c) /\ OthersKept(c) /\ UNCHANGED <<now, setBacks, begun, returned, doubtful>>
    BY <1>4, PlaceEffect
  <2>2. Active(c)' /\ call'[c].entry = call[c].entry
    BY <1>1, <1>4, PlaceEffect
  <2> QED BY <2>1, <2>2, CallTyped
<1> QED BY <1>2, <1>3, <1>4 DEF CarriesOn

LEMMA CallerStepKinds ==
    ASSUME NEW c \in Callers, CallerStep(c)
    PROVE  \/ Record(c) \/ Withdraw(c)
           \/ CarriesOn(c)
           \/ Return(c) \/ Raise(c)
BY DEF CallerStep, CarriesOn

-------------------------------------------------------------------------------
(***************************************************************************)
(* The steps keep the types.                                               *)
(***************************************************************************)
LEMMA CallSet ==
    ASSUME TypeOK, NEW s \in {"none", "listing", "begun", "stamped", "placed"},
           NEW e \in Entry \cup {NoEntry}, NEW l \in 0..Len(files)
    PROVE  [step |-> s, entry |-> e, listed |-> l] \in Calls
BY DEF Calls

LEMMA TypeKept ==
    ASSUME TypeOK, CallsNumbered, [Next]_vars
    PROVE  TypeOK'
<1>0. /\ files \in Seq(Entry) /\ call \in [Callers -> Calls]
      /\ now \in Nat /\ setBacks \in Nat /\ begun \in Nat
      /\ returned \subseteq 1..begun /\ doubtful \subseteq 1..begun
      /\ Len(files) \in Nat
  BY FilesTyped DEF TypeOK, Calls
<1>a. ASSUME NEW c \in Callers, NEW r \in Calls, call' = [call EXCEPT ![c] = r],
             UNCHANGED <<files, now, setBacks>>, begun' \in Nat,
             returned' \subseteq 1..begun', doubtful' \subseteq 1..begun'
      PROVE  TypeOK'
  <2>1. call' \in [Callers -> Calls]
    BY <1>0, <1>a
  <2>2. call' \in [Callers -> Calls']
    BY <2>1, <1>a DEF Calls
  <2> QED BY <1>0, <1>a, <2>2 DEF TypeOK, Calls
<1>1. ASSUME NEW c \in Callers, Record(c) \/ Withdraw(c) PROVE TypeOK'
  <2>1. /\ \E e \in Entry, s \in {"listing", "begun"}, l \in 0..Len(files) :
                 /\ call'[c] = [step |-> s, entry |-> e, listed |-> l]
                 /\ e.number = begun + 1
                 /\ e.after = returned
                 /\ Checked(e.kind) => s = "listing" /\ l = Len(files)
                 /\ call' = [call EXCEPT ![c] = [step |-> s, entry |-> e, listed |-> l]]
        /\ begun' = begun + 1
        /\ UNCHANGED <<files, now, setBacks, returned, doubtful>>
    BY <1>1, BeginEffect
  <2>2. PICK e \in Entry, s \in {"listing", "begun"}, l \in 0..Len(files) :
           call' = [call EXCEPT ![c] = [step |-> s, entry |-> e, listed |-> l]]
    BY <2>1
  <2>3. [step |-> s, entry |-> e, listed |-> l] \in Calls
    BY CallSet
  <2>4. begun' \in Nat /\ returned' \subseteq 1..begun' /\ doubtful' \subseteq 1..begun'
    BY <1>0, <2>1
  <2> QED BY <1>a, <2>1, <2>2, <2>3, <2>4
<1>2. ASSUME NEW c \in Callers, Approve(c) PROVE TypeOK'
  <2>1. [step |-> "begun", entry |-> call[c].entry, listed |-> 0] \in Calls
    BY <1>0, CallSet, CallTyped DEF Calls
  <2> QED BY <1>0, <1>a, <1>2, <2>1, ApproveEffect
<1>3. ASSUME NEW c \in Callers, Stamp(c) PROVE TypeOK'
  <2>1. Dated(call[c].entry) \in Entry
    BY <1>3, StampEffect, CallTyped, DatedEntry
  <2>2. call[c].listed \in 0..Len(files)
    BY <1>0 DEF Calls
  <2>3. [step |-> "stamped", entry |-> Dated(call[c].entry),
         listed |-> call[c].listed] \in Calls
    BY <2>1, <2>2, CallSet
  <2>4. /\ call' = [call EXCEPT ![c] = [step |-> "stamped", entry |-> Dated(call[c].entry),
                                        listed |-> call[c].listed]]
        /\ UNCHANGED <<files, now, setBacks, begun, returned, doubtful>>
    BY <1>3, StampEffect
  <2> QED BY <1>0, <1>a, <2>3, <2>4
<1>4. ASSUME NEW c \in Callers, Place(c) PROVE TypeOK'
  <2>1. /\ files' \in Seq(Entry) /\ Len(files') = Len(files) + 1
        /\ call' = [call EXCEPT ![c] = [step |-> "placed", entry |-> call[c].entry,
                                        listed |-> call[c].listed]]
        /\ UNCHANGED <<now, setBacks, begun, returned, doubtful>>
    BY <1>4, PlaceEffect
  <2>2. \A l \in 0..Len(files) : l \in 0..Len(files')
    BY <1>0, <2>1
  <2>3. \A r \in Calls : r \in Calls'
    BY <2>2 DEF Calls
  <2>4. [step |-> "placed", entry |-> call[c].entry, listed |-> call[c].listed] \in Calls
    BY <1>0, CallSet, CallTyped DEF Calls
  <2>5. call' \in [Callers -> Calls']
    BY <1>0, <2>1, <2>3, <2>4
  <2> QED BY <1>0, <2>1, <2>5 DEF TypeOK, Calls
<1>5. ASSUME NEW c \in Callers, Return(c) \/ Raise(c) PROVE TypeOK'
  <2>1. NoCall \in Calls
    BY <1>0, CallSet DEF NoCall
  <2>2. /\ call' = [call EXCEPT ![c] = NoCall] /\ Active(c)
        /\ UNCHANGED <<files, now, setBacks, begun>>
        /\ returned' \subseteq returned \cup {call[c].entry.number}
        /\ doubtful' \subseteq doubtful \cup {call[c].entry.number}
    BY <1>5, EndEffect
  <2>3. call[c].entry.number \in 1..begun
    BY <2>2 DEF CallsNumbered
  <2> QED BY <1>0, <1>a, <2>1, <2>2, <2>3
<1>6. CASE ClockMoves
  <2>1. now' \in Nat /\ setBacks' \in Nat
    BY <1>0, <1>6, LedgersAssumption DEF ClockMoves
  <2> QED BY <1>0, <1>6, <2>1 DEF ClockMoves, TypeOK
<1>7. CASE UNCHANGED vars
  BY <1>7 DEF vars, TypeOK
<1> QED BY <1>1, <1>2, <1>3, <1>4, <1>5, <1>6, <1>7 DEF Next, CallerStep

(***************************************************************************)
(* A number belongs to one call.                                           *)
(***************************************************************************)
LEMMA CallsNumberedKept ==
    ASSUME TypeOK, CallsNumbered, [Next]_vars
    PROVE  CallsNumbered'
<1>0. begun \in Nat /\ returned \cup doubtful \subseteq 1..begun
  BY DEF TypeOK
<1>1. ASSUME NEW c \in Callers, Record(c) \/ Withdraw(c) PROVE CallsNumbered'
  <2>1. PICK e \in Entry, s \in {"listing", "begun"}, l \in 0..Len(files) :
           /\ call'[c] = [step |-> s, entry |-> e, listed |-> l]
           /\ e.number = begun + 1
    BY <1>1, BeginEffect
  <2>2. /\ OthersKept(c) /\ begun' = begun + 1
        /\ returned' = returned /\ doubtful' = doubtful
    BY <1>1, BeginEffect
  <2>3. Active(c)' /\ call'[c].entry \in Entry /\ call'[c].entry.number = begun + 1
    BY <2>1 DEF Active
  <2>4. \A d \in Callers : d # c => (Active(d)' <=> Active(d)) /\ call'[d] = call[d]
    BY <2>2 DEF Active, OthersKept
  <2>5. \A d \in Callers : Active(d)' /\ d # c =>
           /\ call'[d].entry.number \in 1..begun
           /\ call'[d].entry.number \notin returned \cup doubtful
    BY <2>4 DEF CallsNumbered
  <2>6. \A d \in Callers : IF Active(d)' THEN call'[d].entry \in Entry ELSE call'[d] = NoCall
    BY <2>3, <2>4 DEF CallsNumbered
  <2>7. \A d \in Callers : Active(d)' =>
           /\ call'[d].entry.number \in 1..begun'
           /\ call'[d].entry.number \notin returned' \cup doubtful'
    BY <1>0, <2>2, <2>3, <2>5
  <2>8. ASSUME NEW d1 \in Callers, NEW d2 \in Callers, Active(d1)', Active(d2)',
               call'[d1].entry.number = call'[d2].entry.number
        PROVE  d1 = d2
    BY <1>0, <2>3, <2>4, <2>5, <2>8 DEF CallsNumbered
  <2> QED BY <2>6, <2>7, <2>8 DEF CallsNumbered, Active
<1>2. ASSUME NEW c \in Callers, CarriesOn(c) PROVE CallsNumbered'
  BY <1>2, CarryOnEffect DEF CallsNumbered, OthersKept, Active
<1>3. ASSUME NEW c \in Callers, Return(c) \/ Raise(c) PROVE CallsNumbered'
  <2>1. /\ call'[c] = NoCall /\ ~Active(c)' /\ Active(c) /\ OthersKept(c) /\ begun' = begun
        /\ returned' \cup doubtful' \subseteq
              returned \cup doubtful \cup {call[c].entry.number}
    BY <1>3, EndEffect
  <2>2. \A d \in Callers : d # c => (Active(d)' <=> Active(d)) /\ call'[d] = call[d]
    BY <2>1 DEF Active, OthersKept
  <2>3. \A d \in Callers : Active(d)' => Active(d) /\ call'[d] = call[d] /\ d # c
    BY <2>1, <2>2
  <2> QED BY <2>1, <2>2, <2>3 DEF CallsNumbered, Active
<1>4. CASE ClockMoves
  BY <1>4 DEF ClockMoves, CallsNumbered, Active
<1>5. CASE UNCHANGED vars
  BY <1>5 DEF vars, CallsNumbered, Active
<1> QED BY <1>1, <1>2, <1>3, <1>4, <1>5, CallerStepKinds DEF Next

-------------------------------------------------------------------------------
(***************************************************************************)
(* Every entry on disk is accounted for by its call.                       *)
(***************************************************************************)
Numbers == {files[i].number : i \in DOMAIN files}

LEMMA EntriesAccountedKept ==
    ASSUME TypeOK, CallsNumbered, EntriesAccounted, [Next]_vars
    PROVE  EntriesAccounted'
<1>1. ASSUME UNCHANGED <<files, returned, doubtful>>, InPlace' = InPlace
      PROVE  EntriesAccounted'
  BY <1>1 DEF EntriesAccounted
<1>2. ASSUME NEW c \in Callers, Record(c) \/ Withdraw(c) PROVE EntriesAccounted'
  <2>1. /\ \E e \in Entry, s \in {"listing", "begun"}, l \in 0..Len(files) :
                 /\ call'[c] = [step |-> s, entry |-> e, listed |-> l]
                 /\ e.number = begun + 1
                 /\ e.after = returned
                 /\ Checked(e.kind) => s = "listing" /\ l = Len(files)
                 /\ call' = [call EXCEPT ![c] = [step |-> s, entry |-> e, listed |-> l]]
        /\ OthersKept(c) /\ ~Active(c)
        /\ UNCHANGED <<files, now, setBacks, returned, doubtful>>
    BY <1>2, BeginEffect
  <2>2. call'[c].step # "placed" /\ call[c].step # "placed"
    BY <2>1 DEF Active
  <2>3. InPlace' = InPlace
    BY <2>1, <2>2 DEF InPlace, OthersKept
  <2> QED BY <1>1, <2>1, <2>3
<1>3. ASSUME NEW c \in Callers, Approve(c) \/ Stamp(c) PROVE EntriesAccounted'
  <2>1. /\ OthersKept(c)
        /\ call'[c].step # "placed" /\ call[c].step # "placed"
        /\ UNCHANGED <<files, returned, doubtful>>
    BY <1>3, ApproveEffect, StampEffect
  <2>2. InPlace' = InPlace
    BY <2>1 DEF InPlace, OthersKept
  <2> QED BY <1>1, <2>1, <2>2
<1>4. ASSUME NEW c \in Callers, Place(c) PROVE EntriesAccounted'
  <2> DEFINE n == call[c].entry.number
  <2>1. /\ OthersKept(c) /\ Active(c) /\ call[c].step = "stamped"
        /\ call'[c].step = "placed" /\ call'[c].entry = call[c].entry
        /\ Len(files) + 1 \notin DOMAIN files
        /\ DOMAIN files' = DOMAIN files \cup {Len(files) + 1}
        /\ \A i \in DOMAIN files : files'[i] = files[i]
        /\ files'[Len(files) + 1] = call[c].entry
        /\ UNCHANGED <<now, setBacks, begun, returned, doubtful>>
    BY <1>4, PlaceEffect
  <2>3. InPlace' = InPlace \cup {n}
    <3>1. \A d \in Callers : d # c => call'[d] = call[d]
      BY <2>1 DEF OthersKept
    <3>2. \A d \in Callers : call'[d].step = "placed" <=> d = c \/ call[d].step = "placed"
      BY <2>1, <3>1
    <3>3. \A d \in Callers : call'[d].entry.number = call[d].entry.number
      BY <2>1, <3>1
    <3> QED BY <3>2, <3>3 DEF InPlace
  <2>4. Numbers' = Numbers \cup {n}
    BY <2>1 DEF Numbers
  <2>5. n \notin returned \cup doubtful
    BY <2>1 DEF CallsNumbered
  <2>6. n \notin InPlace
    BY <2>1 DEF CallsNumbered, InPlace, Active
  <2>7. n \notin Numbers
    BY <2>5, <2>6 DEF EntriesAccounted, Numbers
  <2>8. Numbers' = returned' \cup doubtful' \cup InPlace'
    BY <2>1, <2>3, <2>4 DEF EntriesAccounted, Numbers
  <2>9. ASSUME NEW i \in DOMAIN files', NEW j \in DOMAIN files',
               files'[i].number = files'[j].number
        PROVE  i = j
    BY <2>1, <2>7, <2>9 DEF EntriesAccounted, Numbers
  <2> QED BY <2>1, <2>8, <2>9 DEF EntriesAccounted, Numbers
<1>5. ASSUME NEW c \in Callers, Return(c) \/ Raise(c) PROVE EntriesAccounted'
  <2> DEFINE n == call[c].entry.number
  <2>1. /\ Active(c) /\ call'[c] = NoCall /\ OthersKept(c) /\ files' = files
        /\ \/ /\ call[c].step = "placed"
              /\ returned' = returned \cup {call[c].entry.number}
              /\ doubtful' = doubtful
           \/ /\ call[c].step = "placed"
              /\ returned' = returned
              /\ doubtful' = doubtful \cup {call[c].entry.number}
           \/ /\ call[c].step # "placed"
              /\ returned' = returned
              /\ doubtful' = doubtful
    BY <1>5, EndEffect
  <2>2. call'[c].step # "placed"
    BY <2>1 DEF NoCall
  <2>3. n \notin returned \cup doubtful
    BY <2>1 DEF CallsNumbered
  <2>4. CASE call[c].step # "placed"
    <3>1. InPlace' = InPlace
      BY <2>1, <2>2, <2>4 DEF InPlace, OthersKept
    <3> QED BY <1>1, <2>1, <2>4, <3>1
  <2>5. CASE call[c].step = "placed"
    <3>1. n \in InPlace
      BY <2>5 DEF InPlace
    <3>2. \A d \in Callers : d # c /\ call[d].step = "placed" => call[d].entry.number # n
      BY <2>1 DEF CallsNumbered, Active
    <3>3. \A d \in Callers : call'[d].step = "placed" =>
             d # c /\ call'[d] = call[d]
      BY <2>1, <2>2 DEF OthersKept
    <3>4. InPlace' \subseteq InPlace \ {n}
      BY <3>2, <3>3 DEF InPlace
    <3>5. InPlace \ {n} \subseteq InPlace'
      BY <2>1 DEF InPlace, OthersKept
    <3> QED BY <2>1, <2>3, <2>5, <3>1, <3>4, <3>5 DEF EntriesAccounted
  <2> QED BY <2>4, <2>5
<1>6. CASE ClockMoves
  BY <1>1, <1>6 DEF ClockMoves, InPlace
<1>7. CASE UNCHANGED vars
  BY <1>1, <1>7 DEF vars, InPlace
<1> QED BY <1>2, <1>3, <1>4, <1>5, <1>6, <1>7 DEF Next, CallerStep

-------------------------------------------------------------------------------
(***************************************************************************)
(* Stamps: none ahead of the clock, and none before what had returned.     *)
(***************************************************************************)
LEMMA AfterReturnedKept ==
    ASSUME TypeOK, CallsNumbered, AfterReturned, [Next]_vars
    PROVE  AfterReturned'
<1>1. ASSUME NEW c \in Callers, Record(c) \/ Withdraw(c) PROVE AfterReturned'
  <2>1. PICK e \in Entry, s \in {"listing", "begun"}, l \in 0..Len(files) :
           /\ call'[c] = [step |-> s, entry |-> e, listed |-> l]
           /\ e.after = returned
    BY <1>1, BeginEffect
  <2>2. OthersKept(c) /\ files' = files /\ returned' = returned
    BY <1>1, BeginEffect
  <2> QED BY <2>1, <2>2 DEF AfterReturned, OthersKept, Active
<1>2. ASSUME NEW c \in Callers, CarriesOn(c) PROVE AfterReturned'
  <2>1. /\ OthersKept(c) /\ Active(c) /\ returned' = returned
        /\ call'[c].entry.after = call[c].entry.after
    BY <1>2, CarryOnEffect
  <2>2. \A i \in DOMAIN files' : files'[i].after \subseteq returned
    <3>1. CASE Place(c)
      <4>1. /\ DOMAIN files' = DOMAIN files \cup {Len(files) + 1}
            /\ \A i \in DOMAIN files : files'[i] = files[i]
            /\ files'[Len(files) + 1] = call[c].entry
        BY <3>1, PlaceEffect
      <4> QED BY <2>1, <4>1 DEF AfterReturned
    <3>2. CASE ~Place(c)
      <4>1. files' = files
        BY <1>2, <3>2, ApproveEffect, StampEffect DEF CarriesOn
      <4> QED BY <4>1 DEF AfterReturned
    <3> QED BY <3>1, <3>2
  <2> QED BY <2>1, <2>2 DEF AfterReturned, OthersKept, Active
<1>3. ASSUME NEW c \in Callers, Return(c) \/ Raise(c) PROVE AfterReturned'
  <2>1. /\ ~Active(c)' /\ OthersKept(c) /\ files' = files /\ returned \subseteq returned'
    BY <1>3, EndEffect
  <2>2. \A d \in Callers : Active(d)' => Active(d) /\ call'[d] = call[d]
    BY <2>1 DEF OthersKept, Active
  <2> QED BY <2>1, <2>2 DEF AfterReturned
<1>4. CASE ClockMoves
  BY <1>4 DEF ClockMoves, AfterReturned, Active
<1>5. CASE UNCHANGED vars
  BY <1>5 DEF vars, AfterReturned, Active
<1> QED BY <1>1, <1>2, <1>3, <1>4, <1>5, CallerStepKinds DEF Next

(* What a step adds to the stamps: at most the entry the clock was just     *)
(* read for; placing a file adds an entry that was stamped before.         *)
LEMMA NewStamps ==
    ASSUME TypeOK, CallsNumbered, NEW c \in Callers, CallerStep(c)
    PROVE  /\ Stamps' \subseteq Stamps \cup
                 (IF Stamp(c) THEN {Dated(call[c].entry)} ELSE {})
           /\ now' = now /\ setBacks' = setBacks
<1>1. CASE Record(c) \/ Withdraw(c)
  <2>1. PICK e \in Entry, s \in {"listing", "begun"}, l \in 0..Len(files) :
           call'[c] = [step |-> s, entry |-> e, listed |-> l]
    BY <1>1, BeginEffect
  <2>2. OthersKept(c) /\ UNCHANGED <<files, now, setBacks>>
    BY <1>1, BeginEffect
  <2>3. ~Stamped(c)'
    BY <2>1 DEF Stamped
  <2> QED BY <2>2, <2>3 DEF Stamps, Stamped, OthersKept
<1>2. CASE Approve(c)
  <2>1. /\ OthersKept(c) /\ UNCHANGED <<files, now, setBacks>>
        /\ call'[c].step = "begun"
    BY <1>2, ApproveEffect
  <2> QED BY <2>1 DEF Stamps, Stamped, OthersKept
<1>3. CASE Stamp(c)
  <2>1. /\ OthersKept(c) /\ UNCHANGED <<files, now, setBacks>>
        /\ call'[c].entry = Dated(call[c].entry)
    BY <1>3, StampEffect
  <2>2. Stamps' \subseteq Stamps \cup {Dated(call[c].entry)}
    BY <2>1 DEF Stamps, Stamped, OthersKept
  <2> QED BY <1>3, <2>1, <2>2
<1>4. CASE Place(c)
  <2>1. /\ OthersKept(c) /\ UNCHANGED <<now, setBacks>>
        /\ call[c].step = "stamped" /\ call'[c].entry = call[c].entry
        /\ DOMAIN files' = DOMAIN files \cup {Len(files) + 1}
        /\ \A i \in DOMAIN files : files'[i] = files[i]
        /\ files'[Len(files) + 1] = call[c].entry
    BY <1>4, PlaceEffect
  <2>2. call[c].entry \in Stamps
    BY <2>1 DEF Stamps, Stamped
  <2>3. \A i \in DOMAIN files' : files'[i] \in Stamps
    BY <2>1, <2>2 DEF Stamps
  <2>4. \A d \in Callers : Stamped(d)' => call'[d].entry \in Stamps
    BY <2>1, <2>2 DEF Stamps, Stamped, OthersKept
  <2> QED BY <2>1, <2>3, <2>4 DEF Stamps
<1>5. CASE Return(c) \/ Raise(c)
  <2>1. /\ OthersKept(c) /\ UNCHANGED <<files, now, setBacks>> /\ call'[c] = NoCall
    BY <1>5, EndEffect
  <2>2. ~Stamped(c)'
    BY <2>1 DEF Stamped, NoCall
  <2> QED BY <2>1, <2>2 DEF Stamps, Stamped, OthersKept
<1> QED BY <1>1, <1>2, <1>3, <1>4, <1>5 DEF CallerStep

LEMMA StampsTyped ==
    ASSUME TypeOK, CallsNumbered
    PROVE  Stamps \subseteq Entry
BY FilesTyped, CallTyped DEF Stamps, Stamped, Active

LEMMA NoneAheadKept ==
    ASSUME TypeOK, CallsNumbered, NoneAhead, [Next]_vars
    PROVE  NoneAhead'
<1>1. ASSUME NEW c \in Callers, CallerStep(c) PROVE NoneAhead'
  <2>1. CASE Stamp(c)
    <3>1. /\ Dated(call[c].entry).stamp = now /\ Dated(call[c].entry).epoch = setBacks
          /\ now \in Nat /\ setBacks \in Nat
      BY <2>1, StampEffect, CallTyped, DatedEntry DEF TypeOK
    <3>2. \A f \in Stamps' : f \in Stamps \/ f = Dated(call[c].entry)
      BY <1>1, <2>1, NewStamps
    <3> QED BY <1>1, <3>1, <3>2, NewStamps DEF NoneAhead
  <2>2. CASE ~Stamp(c)
    <3>1. Stamps' \subseteq Stamps /\ now' = now /\ setBacks' = setBacks
      BY <1>1, <2>2, NewStamps
    <3> QED BY <3>1 DEF NoneAhead
  <2> QED BY <2>1, <2>2
<1>2. CASE ClockMoves
  <2>1. Stamps' = Stamps
    BY <1>2 DEF ClockMoves, Stamps, Stamped
  <2>2. now \in Nat /\ setBacks \in Nat /\ now' \in Nat
    BY <1>2, LedgersAssumption DEF TypeOK, ClockMoves
  <2>3. \A f \in Stamps : f.stamp \in Nat /\ f.epoch \in Nat
    BY StampsTyped DEF Entry
  <2>4. CASE now' < now
    BY <1>2, <2>1, <2>2, <2>3, <2>4 DEF NoneAhead, ClockMoves
  <2>5. CASE ~(now' < now)
    BY <1>2, <2>1, <2>2, <2>3, <2>5 DEF NoneAhead, ClockMoves
  <2> QED BY <2>4, <2>5
<1>3. CASE UNCHANGED vars
  BY <1>3 DEF vars, NoneAhead, Stamps, Stamped
<1> QED BY <1>1, <1>2, <1>3 DEF Next

(* A file that appears is one that no call knows of yet.                    *)
LEMMA StampsOrderedKept ==
    ASSUME TypeOK, CallsNumbered, EntriesAccounted, NoneAhead, AfterReturned,
           StampsOrdered, [Next]_vars
    PROVE  StampsOrdered'
<1>1. ASSUME NEW c \in Callers, CallerStep(c) PROVE StampsOrdered'
  <2>1. CASE Stamp(c)
    <3>1. /\ Dated(call[c].entry).stamp = now /\ Dated(call[c].entry).epoch = setBacks
          /\ files' = files
      BY <2>1, StampEffect, CallTyped, DatedEntry
    <3>2. \A f \in Stamps' : f \in Stamps \/ f = Dated(call[c].entry)
      BY <1>1, <2>1, NewStamps
    <3>3. \A i \in DOMAIN files :
             files[i].epoch <= setBacks /\ (files[i].epoch = setBacks => files[i].stamp <= now)
      BY DEF NoneAhead, Stamps
    <3> QED BY <3>1, <3>2, <3>3 DEF StampsOrdered
  <2>2. CASE Place(c)
    <3> DEFINE n == call[c].entry.number
    <3>1. Stamps' \subseteq Stamps
      BY <1>1, <2>2, NewStamps DEF Stamp, Place
    <3>2. /\ DOMAIN files' = DOMAIN files \cup {Len(files) + 1}
          /\ \A i \in DOMAIN files : files'[i] = files[i]
          /\ files'[Len(files) + 1] = call[c].entry
          /\ Active(c)
      BY <2>2, PlaceEffect
    <3>3. n \notin returned
      BY <3>2 DEF CallsNumbered
    <3>4. \A f \in Stamps : f.after \subseteq returned
      BY DEF AfterReturned, Stamps, Stamped, Active
    <3>5. \A f \in Stamps : n \notin f.after
      BY <3>3, <3>4
    <3> QED BY <3>1, <3>2, <3>5 DEF StampsOrdered
  <2>3. CASE ~Stamp(c) /\ ~Place(c)
    <3>1. Stamps' \subseteq Stamps
      BY <1>1, <2>3, NewStamps
    <3>2. files' = files
      BY <1>1, <2>3, BeginEffect, ApproveEffect, EndEffect DEF CallerStep
    <3> QED BY <3>1, <3>2 DEF StampsOrdered
  <2> QED BY <2>1, <2>2, <2>3
<1>2. CASE ClockMoves
  BY <1>2 DEF ClockMoves, StampsOrdered, Stamps, Stamped
<1>3. CASE UNCHANGED vars
  BY <1>3 DEF vars, StampsOrdered, Stamps, Stamped
<1> QED BY <1>1, <1>2, <1>3 DEF Next

-------------------------------------------------------------------------------
(***************************************************************************)
(* The invariant holds always, and what follows from it.                   *)
(***************************************************************************)
LEMMA InitInv == Init => LedgersInv
<1> SUFFICES ASSUME Init PROVE LedgersInv
  OBVIOUS
<1>1. /\ files = <<>> /\ now = 0 /\ setBacks = 0 /\ begun = 0
      /\ returned = {} /\ doubtful = {}
      /\ call = [c \in Callers |-> NoCall]
  BY DEF Init
<1>2. Len(files) = 0 /\ DOMAIN files = {} /\ files \in Seq(Entry)
  BY <1>1
<1>3. \A c \in Callers : call[c] = NoCall /\ ~Active(c) /\ ~Stamped(c)
                            /\ call[c].step # "placed"
  BY <1>1 DEF NoCall, Active, Stamped
<1>4. TypeOK
  <2>1. NoCall \in Calls
    BY <1>2 DEF NoCall, Calls
  <2> QED BY <1>1, <1>2, <2>1 DEF TypeOK, Calls
<1>5. CallsNumbered
  BY <1>3 DEF CallsNumbered
<1>6. EntriesAccounted
  BY <1>1, <1>2, <1>3 DEF EntriesAccounted, InPlace
<1>7. Stamps = {}
  BY <1>2, <1>3 DEF Stamps
<1>8. NoneAhead /\ AfterReturned /\ StampsOrdered
  BY <1>2, <1>3, <1>7 DEF NoneAhead, AfterReturned, StampsOrdered
<1> QED BY <1>4, <1>5, <1>6, <1>8 DEF LedgersInv

LEMMA NextInv == LedgersInv /\ [Next]_vars => LedgersInv'
BY TypeKept, CallsNumberedKept, EntriesAccountedKept, NoneAheadKept, AfterReturnedKept,
   StampsOrderedKept DEF LedgersInv

LEMMA InvAlways == Spec => []LedgersInv
BY InitInv, NextInv, PTL DEF Spec

(* The variables keep the values the ledgers can hold: a caller is between  *)
(* two lines of one call, and what it listed is no more than there is.      *)
THEOREM TypeCorrect == Spec => []TypeOK
BY InvAlways, PTL DEF LedgersInv

(* An entry on disk belongs to one call and a call has one at most, for any *)
(* number of callers, whatever raises: evidence.py, ledger.py, meter.py and *)
(* the points and rewards lose nothing they returned and book nothing twice. *)
THEOREM BooksAreAccounted == Spec => []EntriesAccounted
BY InvAlways, PTL DEF LedgersInv

(* get_usage() and get_cost() answer with a record that no later call has   *)
(* outdated, as far as the clock can tell (meter.py:46, ledger.py:45).      *)
THEOREM LatestRecordIsNewest == Spec => []LatestIsNewest
<1>1. LedgersInv => LatestIsNewest
  <2> SUFFICES ASSUME LedgersInv, NEW a \in Accounts, NEW i \in Latest(a),
                      NEW j \in OfAccount(a),
                      files[i].number \in files[j].after, files[i].epoch = files[j].epoch
               PROVE  files[j].stamp = files[i].stamp
    BY DEF LatestIsNewest
  <2>1. /\ i \in DOMAIN files /\ j \in DOMAIN files
        /\ files[j].stamp <= files[i].stamp
    BY DEF Latest, OfAccount
  <2>2. files[i].stamp <= files[j].stamp
    BY <2>1 DEF LedgersInv, StampsOrdered, Stamps
  <2>3. files[i].stamp \in Nat /\ files[j].stamp \in Nat
    BY <2>1, FilesTyped DEF LedgersInv, Entry
  <2> QED BY <2>1, <2>2, <2>3
<1> QED BY <1>1, InvAlways, PTL

-------------------------------------------------------------------------------
(***************************************************************************)
(* The overdraft.  Held and Hope are sums over the files: what an account  *)
(* holds, and the most that a caller still listing may see of it.          *)
(***************************************************************************)
Movement == [i \in DOMAIN files |-> Signed(files[i])]

Held(a) == Total(Movement, OfAccount(a))

InFlight(c, a) ==
    /\ call[c].step \in {"listing", "begun", "stamped"}
    /\ Checked(call[c].entry.kind)
    /\ call[c].entry.account = a

Waiting(c, a) == InFlight(c, a) /\ call[c].step = "listing"

Best(c) ==
    {i \in OfAccount(call[c].entry.account) :
        i <= call[c].listed \/ files[i].kind = "earned"}

Hope(c) == Total(Movement, Best(c))

(* The call will take its points, or may be allowed to by what is there now. *)
Risky(c, a) ==
    InFlight(c, a) /\ (call[c].step = "listing" => Hope(c) >= call[c].entry.points)

(* What the calls on a numbered up to k are about to take. *)
Due(a, k) ==
    [c \in Callers |->
        IF InFlight(c, a) /\ call[c].entry.number <= k THEN call[c].entry.points ELSE 0]

Owed(a, k) == Total(Due(a, k), Callers)

Slack == (Cardinality(Callers) - 1) * MaxPoints

(* Every call that may still take its points is among the first k, and the  *)
(* account could pay them all within the slack; one that came later and    *)
(* was too early for the points it wants would be within the slack too, if  *)
(* the entries that it can see without came to be earned.                  *)
Backed(a, k) ==
    /\ \A c \in Callers : Risky(c, a) => call[c].entry.number <= k
    /\ Held(a) - Owed(a, k) >= -Slack
    /\ \A c \in Callers, n \in Nat : Waiting(c, a) /\ call[c].entry.number = n /\ n > k =>
          Hope(c) - Held(a) + Owed(a, n - 1) <= Slack

OverdraftInv == \A a \in Accounts : \E k \in 0..begun : Backed(a, k)

-------------------------------------------------------------------------------
LEMMA SumsTyped ==
    TypeOK =>
        /\ IsFiniteSet(DOMAIN files)
        /\ \A S \in SUBSET (DOMAIN files) : IsFiniteSet(S) /\ IntOn(Movement, S)
<1> SUFFICES ASSUME TypeOK
             PROVE  /\ IsFiniteSet(DOMAIN files)
                    /\ \A S \in SUBSET (DOMAIN files) :
                          IsFiniteSet(S) /\ IntOn(Movement, S)
  OBVIOUS
<1>1. IsFiniteSet(DOMAIN files)
  BY FilesTyped, FS_Interval
<1>2. \A i \in DOMAIN files : Movement[i] \in Int
  <2>1. ASSUME NEW i \in DOMAIN files PROVE Signed(files[i]) \in Int
    <3>1. files[i].points \in Int
      BY FilesTyped, LedgersAssumption DEF Entry
    <3> QED BY <3>1 DEF Signed
  <2> QED BY <2>1 DEF Movement
<1> QED BY <1>1, <1>2, FS_Subset DEF IntOn

(* balance() is the sum of the movements of what was listed. *)
LEMMA BalanceIsTotal ==
    ASSUME TypeOK, NEW a, NEW shown
    PROVE  BalanceOver(a, shown) = Total(Movement, OfAccount(a) \cap shown)
<1> DEFINE T == OfAccount(a) \cap shown
           P(g) == g = [s \in SUBSET T |->
                          IF s = {} THEN 0
                          ELSE Signed(files[Pick(s)]) + g[s \ {Pick(s)}]]
<1>1. T \subseteq DOMAIN files /\ IsFiniteSet(T)
  BY SumsTyped DEF OfAccount
<1>2. ASSUME NEW g PROVE P(g) <=> AddsUp(g, Movement, T)
  <2> DEFINE A == [s \in SUBSET T |->
                     IF s = {} THEN 0 ELSE Signed(files[Pick(s)]) + g[s \ {Pick(s)}]]
             B == [s \in SUBSET T |->
                     IF s = {} THEN 0 ELSE Movement[Pick(s)] + g[s \ {Pick(s)}]]
  <2>1. \A s \in SUBSET T : s # {} => Pick(s) \in DOMAIN files
    BY <1>1, PickIn
  <2>2. \A s \in SUBSET T : s # {} => Movement[Pick(s)] = Signed(files[Pick(s)])
    BY <2>1 DEF Movement
  <2> HIDE DEF T
  <2>3. A = B
    BY <2>2
  <2> QED BY <2>3 DEF AddsUp
<1>3. \E g : P(g)
  BY <1>1, <1>2, AddsUpExists
<1> DEFINE h == CHOOSE g : P(g)
<1>4. P(h)
  BY <1>3
<1>5. BalanceOver(a, shown) = h[T]
  BY DEF BalanceOver, MapThenSumSet, MapThenFoldSet, Pick
<1>6. PICK g : AddsUp(g, Movement, T) /\ Total(Movement, T) = g[T]
  BY <1>1, TotalOf
<1>7. AddsUp(h, Movement, T)
  BY <1>2, <1>4
<1> HIDE DEF h, T
<1>8. h[T] = g[T]
  BY <1>1, <1>6, <1>7, AddsUpUnique
<1> QED BY <1>5, <1>6, <1>8 DEF T

LEMMA HeldIsBalance ==
    ASSUME TypeOK, NEW a
    PROVE  Balance(a) = Held(a)
<1>1. OfAccount(a) \cap DOMAIN files = OfAccount(a)
  BY DEF OfAccount
<1> QED BY <1>1, BalanceIsTotal DEF Balance, Held

LEMMA OfAccountFiles ==
    ASSUME NEW a
    PROVE  OfAccount(a) \in SUBSET (DOMAIN files)
BY DEF OfAccount

LEMMA BestFiles ==
    ASSUME NEW c
    PROVE  Best(c) \in SUBSET (DOMAIN files)
BY DEF Best, OfAccount

LEMMA HeldTyped ==
    TypeOK => /\ \A a : Held(a) \in Int
              /\ \A c : Hope(c) \in Int
<1> SUFFICES ASSUME TypeOK PROVE /\ \A a : Held(a) \in Int
                                 /\ \A c : Hope(c) \in Int
  OBVIOUS
<1>1. \A S \in SUBSET (DOMAIN files) : Total(Movement, S) \in Int
  BY SumsTyped, TotalInt
<1> QED BY <1>1, OfAccountFiles, BestFiles DEF Held, Hope

LEMMA InFlightTyped ==
    TypeOK /\ CallsNumbered =>
        \A c \in Callers : \A a : InFlight(c, a) =>
            /\ Active(c)
            /\ call[c].entry \in Entry
            /\ call[c].entry.number \in 1..begun
            /\ call[c].entry.points \in 1..MaxPoints
<1> SUFFICES ASSUME TypeOK, CallsNumbered, NEW c \in Callers, NEW a, InFlight(c, a)
             PROVE  /\ Active(c)
                    /\ call[c].entry \in Entry
                    /\ call[c].entry.number \in 1..begun
                    /\ call[c].entry.points \in 1..MaxPoints
  OBVIOUS
<1>1. Active(c)
  BY DEF InFlight, Active
<1>2. call[c].entry \in Entry /\ call[c].entry.number \in 1..begun
  BY <1>1 DEF CallsNumbered
<1> QED BY <1>1, <1>2 DEF Entry

LEMMA DueTyped ==
    TypeOK /\ CallsNumbered =>
        \A a, k : \A c \in Callers :
            /\ Due(a, k)[c] = IF InFlight(c, a) /\ call[c].entry.number <= k
                              THEN call[c].entry.points ELSE 0
            /\ Due(a, k)[c] \in 0..MaxPoints
<1> SUFFICES ASSUME TypeOK, CallsNumbered, NEW a, NEW k, NEW c \in Callers
             PROVE  /\ Due(a, k)[c] = IF InFlight(c, a) /\ call[c].entry.number <= k
                                      THEN call[c].entry.points ELSE 0
                    /\ Due(a, k)[c] \in 0..MaxPoints
  OBVIOUS
<1>1. Due(a, k)[c] = IF InFlight(c, a) /\ call[c].entry.number <= k
                     THEN call[c].entry.points ELSE 0
  BY DEF Due
<1>2. InFlight(c, a) => call[c].entry.points \in 1..MaxPoints
  BY InFlightTyped
<1> QED BY <1>1, <1>2, LedgersAssumption

(* What one caller is due, and MaxPoints for each of the others. *)
LEMMA OwedBut ==
    ASSUME NEW f, \A c \in Callers : f[c] \in 0..MaxPoints, NEW c \in Callers
    PROVE  /\ Total(f, Callers) <= f[c] + Slack
           /\ Total(f, Callers) \in Nat
<1>1. /\ IsFiniteSet(Callers) /\ MaxPoints \in Nat /\ IntOn(f, Callers)
      /\ f[c] \in Int /\ \A d \in Callers : f[d] >= 0
  BY LedgersAssumption DEF IntOn
<1>2. /\ IsFiniteSet(Callers \ {c}) /\ IntOn(f, Callers \ {c})
      /\ Cardinality(Callers \ {c}) = Cardinality(Callers) - 1
  BY <1>1, FS_RemoveElement DEF IntOn
<1>3. Total(f, Callers \ {c}) <= Cardinality(Callers \ {c}) * MaxPoints
  BY <1>1, <1>2, TotalBound
<1>4. Total(f, Callers \ {c}) <= Slack
  BY <1>2, <1>3 DEF Slack
<1>5. Total(f, Callers \ {c}) \in Int /\ Total(f, Callers) \in Int /\ Total(f, Callers) >= 0
  BY <1>1, <1>2, TotalInt, TotalNonNegative
<1>6. Total(f, Callers) = f[c] + Total(f, Callers \ {c})
  BY <1>1, TotalPick
<1>7. Slack \in Int
  BY <1>1, FS_CardinalityType DEF Slack
<1> QED BY <1>1, <1>4, <1>5, <1>6, <1>7

LEMMA SlackTyped == Slack \in Nat
<1>1. Cardinality(Callers) \in Nat /\ Cardinality(Callers) # 0
  BY LedgersAssumption, FS_CardinalityType, FS_EmptySet
<1>2. Cardinality(Callers) - 1 \in Nat /\ MaxPoints \in Nat
  BY <1>1, LedgersAssumption
<1>3. \A m, n \in Nat : m * n \in Nat
  OBVIOUS
<1> QED BY <1>2, <1>3 DEF Slack

LEMMA OwedTyped ==
    TypeOK /\ CallsNumbered => \A a, k : Owed(a, k) \in Nat /\ IntOn(Due(a, k), Callers)
<1> SUFFICES ASSUME TypeOK, CallsNumbered, NEW a, NEW k
             PROVE  Owed(a, k) \in Nat /\ IntOn(Due(a, k), Callers)
  OBVIOUS
<1>1. \A c \in Callers : Due(a, k)[c] \in 0..MaxPoints
  BY DueTyped
<1>2. PICK c \in Callers : TRUE
  BY LedgersAssumption
<1> QED BY <1>1, <1>2, OwedBut, LedgersAssumption DEF Owed, IntOn

(* A balance is within the slack as soon as it is backed. *)
LEMMA BackedIsBounded == TypeOK /\ CallsNumbered /\ OverdraftInv => OverdraftBound
<1> SUFFICES ASSUME TypeOK, CallsNumbered, OverdraftInv, NEW a \in Accounts
             PROVE  Balance(a) >= -Slack
  BY DEF OverdraftBound, Slack
<1>1. PICK k \in 0..begun : Backed(a, k)
  BY DEF OverdraftInv
<1>2. Held(a) - Owed(a, k) >= -Slack
  BY <1>1 DEF Backed
<1> QED BY <1>2, HeldTyped, OwedTyped, SlackTyped, HeldIsBalance

LEMMA BackedAtFirst == Init => OverdraftInv
<1> SUFFICES ASSUME Init, NEW a \in Accounts PROVE Backed(a, 0) /\ 0 \in 0..begun
  BY DEF OverdraftInv
<1>1. TypeOK /\ CallsNumbered
  BY InitInv DEF LedgersInv
<1>2. \A c \in Callers : ~InFlight(c, a)
  BY DEF Init, InFlight, NoCall
<1>3. Held(a) = 0
  <2>1. OfAccount(a) = {}
    BY DEF Init, OfAccount
  <2> QED BY <2>1, TotalEmpty DEF Held
<1>4. Owed(a, 0) = 0
  <2>1. \A c \in Callers : Due(a, 0)[c] = 0
    BY <1>1, <1>2, DueTyped
  <2>2. IntOn(Due(a, 0), Callers) /\ IsFiniteSet(Callers) /\ IsFiniteSet({})
        /\ IntOn(Due(a, 0), {})
    BY <2>1, LedgersAssumption, FS_EmptySet DEF IntOn
  <2>3. \A c \in {} \cup Callers : Part(Due(a, 0), {}, c) = Part(Due(a, 0), Callers, c)
    BY <2>1 DEF Part
  <2>4. Total(Due(a, 0), {}) = Total(Due(a, 0), Callers)
    BY <2>2, <2>3, TotalEq
  <2> QED BY <2>4, TotalEmpty DEF Owed
<1>5. Backed(a, 0)
  BY <1>2, <1>3, <1>4, SlackTyped DEF Backed, Risky, Waiting
<1> QED BY <1>5 DEF Init

LEMMA TypesHereAndNext ==
    ASSUME TypeOK, CallsNumbered, TypeOK', CallsNumbered'
    PROVE  /\ \A a : Held(a) \in Int /\ Held(a)' \in Int
           /\ \A c : Hope(c) \in Int /\ Hope(c)' \in Int
           /\ \A a, m : Owed(a, m) \in Nat /\ Owed(a, m)' \in Nat
           /\ \A a, m : IntOn(Due(a, m), Callers) /\ IntOn(Due(a, m), Callers)'
           /\ \A c \in Callers : \A a, m :
                 /\ Due(a, m)[c] = IF InFlight(c, a) /\ call[c].entry.number <= m
                                   THEN call[c].entry.points ELSE 0
                 /\ Due(a, m)'[c] = IF InFlight(c, a)' /\ call'[c].entry.number <= m
                                    THEN call'[c].entry.points ELSE 0
                 /\ Due(a, m)[c] \in 0..MaxPoints
                 /\ Due(a, m)'[c] \in 0..MaxPoints
<1>1. (TypeOK => /\ \A a : Held(a) \in Int
                 /\ \A c : Hope(c) \in Int)'
  BY HeldTyped, PTL
<1>2. (TypeOK /\ CallsNumbered =>
         \A a, k : Owed(a, k) \in Nat /\ IntOn(Due(a, k), Callers))'
  BY OwedTyped, PTL
<1>3. (TypeOK /\ CallsNumbered =>
        \A a, k : \A c \in Callers :
            /\ Due(a, k)[c] = IF InFlight(c, a) /\ call[c].entry.number <= k
                              THEN call[c].entry.points ELSE 0
            /\ Due(a, k)[c] \in 0..MaxPoints)'
  BY DueTyped, PTL
<1>4. /\ \A a : Held(a) \in Int /\ Held(a)' \in Int
      /\ \A c : Hope(c) \in Int /\ Hope(c)' \in Int
  BY <1>1, HeldTyped
<1>5. \A a, m : /\ Owed(a, m) \in Nat /\ Owed(a, m)' \in Nat
                /\ IntOn(Due(a, m), Callers) /\ IntOn(Due(a, m), Callers)'
  BY <1>2, OwedTyped
<1>6. \A c \in Callers : \A a, m :
         /\ Due(a, m)[c] = IF InFlight(c, a) /\ call[c].entry.number <= m
                           THEN call[c].entry.points ELSE 0
         /\ Due(a, m)[c] \in 0..MaxPoints
  BY DueTyped
<1>7. \A c \in Callers : \A a, m :
         /\ Due(a, m)'[c] = IF InFlight(c, a)' /\ call'[c].entry.number <= m
                            THEN call'[c].entry.points ELSE 0
         /\ Due(a, m)'[c] \in 0..MaxPoints
  BY <1>3
<1> QED BY <1>4, <1>5, <1>6, <1>7

(* A step that lets no call become risky and leaves what the account holds  *)
(* as it is needs no more backing: the calls it owes are at most as many.  *)
LEMMA Quiet ==
    ASSUME TypeOK, CallsNumbered, TypeOK', CallsNumbered', NEW a, NEW k, Backed(a, k),
           Held(a)' = Held(a),
           \A c \in Callers : InFlight(c, a)' =>
              /\ InFlight(c, a)
              /\ call'[c].entry.number = call[c].entry.number
              /\ call'[c].entry.points = call[c].entry.points,
           \A c \in Callers : Waiting(c, a)' => Waiting(c, a) /\ Hope(c)' = Hope(c),
           \A c \in Callers : Risky(c, a)' => Risky(c, a)
    PROVE  Backed(a, k)'
<1>1. ASSUME NEW m PROVE Owed(a, m)' <= Owed(a, m)
  <2>1. \A c \in Callers : Due(a, m)'[c] <= Due(a, m)[c]
    BY TypesHereAndNext
  <2>2. IsFiniteSet(Callers) /\ IntOn(Due(a, m), Callers) /\ IntOn(Due(a, m), Callers)'
    BY TypesHereAndNext, LedgersAssumption
  <2>3. \A c \in Callers \cup Callers :
           Part(Due(a, m)', Callers, c) <= Part(Due(a, m), Callers, c)
    BY <2>1 DEF Part
  <2>4. IntOn(Due(a, m)', Callers)
    BY <2>2 DEF IntOn
  <2>5. Total(Due(a, m)', Callers) <= Total(Due(a, m), Callers)
    BY <2>2, <2>3, <2>4, TotalLeq
  <2>6. Owed(a, m)' = Total(Due(a, m)', Callers)
    BY DEF Owed
  <2> QED BY <2>5, <2>6 DEF Owed
<1>2. \A c \in Callers : Risky(c, a)' => call'[c].entry.number <= k
  <2>1. \A c \in Callers : Risky(c, a)' => InFlight(c, a)'
    BY DEF Risky
  <2> QED BY <2>1 DEF Backed
<1>3. Held(a)' - Owed(a, k)' >= -Slack
  BY <1>1, TypesHereAndNext, SlackTyped DEF Backed
<1>4. ASSUME NEW c \in Callers, NEW n \in Nat, Waiting(c, a)', call'[c].entry.number = n,
             n > k
      PROVE  Hope(c)' - Held(a)' + Owed(a, n - 1)' <= Slack
  <2>1. Waiting(c, a) /\ call[c].entry.number = n /\ Hope(c)' = Hope(c)
    BY <1>4 DEF Waiting
  <2>2. Hope(c) - Held(a) + Owed(a, n - 1) <= Slack
    BY <1>4, <2>1 DEF Backed
  <2>3. Owed(a, n - 1)' <= Owed(a, n - 1)
    BY <1>1
  <2> QED BY <2>1, <2>2, <2>3, TypesHereAndNext, SlackTyped
<1>5. Slack' = Slack
  BY DEF Slack
<1> QED BY <1>2, <1>3, <1>4, <1>5 DEF Backed

(* A step of c that writes no file changes nothing for the others.          *)
LEMMA OthersSame ==
    ASSUME NEW c \in Callers, OthersKept(c), files' = files
    PROVE  /\ \A a : Held(a)' = Held(a)
           /\ \A d \in Callers : \A a : d # c =>
                 /\ InFlight(d, a)' <=> InFlight(d, a)
                 /\ Waiting(d, a)' <=> Waiting(d, a)
                 /\ Risky(d, a)' <=> Risky(d, a)
                 /\ Hope(d)' = Hope(d)
                 /\ call'[d] = call[d]
<1>1. Movement' = Movement /\ \A a : OfAccount(a)' = OfAccount(a)
  BY DEF Movement, OfAccount
<1>2. \A a : Held(a)' = Held(a)
  BY <1>1 DEF Held
<1>3. ASSUME NEW d \in Callers, NEW a, d # c
      PROVE  /\ InFlight(d, a)' <=> InFlight(d, a)
             /\ Waiting(d, a)' <=> Waiting(d, a)
             /\ Risky(d, a)' <=> Risky(d, a)
             /\ Hope(d)' = Hope(d)
             /\ call'[d] = call[d]
  <2>1. call'[d] = call[d]
    BY <1>3 DEF OthersKept
  <2>2. InFlight(d, a)' <=> InFlight(d, a)
    BY <2>1 DEF InFlight
  <2>3. Waiting(d, a)' <=> Waiting(d, a)
    BY <2>1, <2>2 DEF Waiting
  <2>4. Best(d)' = Best(d)
    BY <2>1 DEF Best, OfAccount
  <2>5. Hope(d)' = Hope(d)
    BY <1>1, <2>4 DEF Hope
  <2> QED BY <2>1, <2>2, <2>3, <2>5 DEF Risky
<1> QED BY <1>2, <1>3

LEMMA QuietCall ==
    ASSUME TypeOK, CallsNumbered, TypeOK', CallsNumbered', NEW a, NEW k, Backed(a, k),
           NEW c \in Callers, OthersKept(c), files' = files,
           InFlight(c, a)' =>
              /\ InFlight(c, a)
              /\ call'[c].entry.number = call[c].entry.number
              /\ call'[c].entry.points = call[c].entry.points,
           ~Waiting(c, a)',
           Risky(c, a)' => Risky(c, a)
    PROVE  Backed(a, k)'
<1>1. \A d \in Callers : InFlight(d, a)' =>
         /\ InFlight(d, a)
         /\ call'[d].entry.number = call[d].entry.number
         /\ call'[d].entry.points = call[d].entry.points
  BY OthersSame
<1>2. \A d \in Callers : Waiting(d, a)' => Waiting(d, a) /\ Hope(d)' = Hope(d)
  BY OthersSame
<1>3. \A d \in Callers : Risky(d, a)' => Risky(d, a)
  BY OthersSame
<1>4. Held(a)' = Held(a)
  BY OthersSame
<1> QED BY <1>1, <1>2, <1>3, <1>4, Quiet

(* spend() and expire() go on only where the best that the listing may have *)
(* shown covers the points.                                                *)
LEMMA CoveredIsHoped ==
    ASSUME TypeOK, CallsNumbered, NEW c \in Callers, Active(c), Covered(c)
    PROVE  Hope(c) >= call[c].entry.points
<1>1. PICK shown \in Shown(c) :
         call[c].entry.points <= BalanceOver(call[c].entry.account, shown)
  BY DEF Covered
<1> DEFINE A == OfAccount(call[c].entry.account) \cap shown
           B == Best(c)
<1>2. BalanceOver(call[c].entry.account, shown) = Total(Movement, A)
  BY BalanceIsTotal
<1>3. /\ A \in SUBSET (DOMAIN files) /\ B \in SUBSET (DOMAIN files)
      /\ IsFiniteSet(A) /\ IsFiniteSet(B) /\ IntOn(Movement, A) /\ IntOn(Movement, B)
  BY OfAccountFiles, BestFiles, SumsTyped
<1>4. /\ call[c].listed \in 0..Len(files) /\ Len(files) \in Nat
      /\ DOMAIN files = 1..Len(files)
  BY CallTyped, FilesTyped DEF Calls
<1>5. 1..call[c].listed \subseteq shown
  BY DEF Shown
<1>6. ASSUME NEW i \in A \cup B PROVE Part(Movement, A, i) <= Part(Movement, B, i)
  <2>1. i \in DOMAIN files /\ files[i] \in Entry /\ i \in Nat /\ i >= 1
    BY <1>3, <1>4, FilesTyped
  <2>2. Movement[i] = IF Checked(files[i].kind) THEN -files[i].points ELSE files[i].points
    BY <2>1 DEF Movement, Signed, Checked
  <2>3. files[i].points \in Int /\ files[i].points >= 0 /\ files[i].kind \in Kinds
    BY <2>1, LedgersAssumption DEF Entry
  <2>4. CASE i \in A /\ i \in B
    BY <2>2, <2>3, <2>4 DEF Part
  <2>5. CASE i \in A /\ i \notin B
    <3>1. files[i].kind # "earned"
      BY <2>5 DEF Best
    <3> QED BY <2>2, <2>3, <2>5, <3>1 DEF Part, Checked, Kinds
  <2>6. CASE i \notin A /\ i \in B
    <3>1. i \notin shown
      BY <2>6 DEF Best
    <3>2. ~(i <= call[c].listed)
      BY <1>4, <1>5, <2>1, <3>1
    <3>3. files[i].kind = "earned"
      BY <2>6, <3>2 DEF Best
    <3> QED BY <2>2, <2>3, <2>6, <3>3 DEF Part, Checked
  <2> QED BY <2>4, <2>5, <2>6
<1>7. Total(Movement, A) <= Total(Movement, B)
  <2> HIDE DEF A, B
  <2> QED BY <1>3, <1>6, TotalLeq
<1>8. Total(Movement, A) \in Int /\ Total(Movement, B) \in Int
  BY <1>3, TotalInt
<1>9. call[c].entry.points \in Int
  BY CallTyped, LedgersAssumption DEF Entry
<1> HIDE DEF A, B
<1> QED BY <1>1, <1>2, <1>7, <1>8, <1>9 DEF Hope, B

LEMMA BackedWhenCarriedOn ==
    ASSUME TypeOK, CallsNumbered, TypeOK', CallsNumbered', NEW a, NEW k, Backed(a, k),
           NEW c \in Callers, Approve(c) \/ Stamp(c) \/ Return(c) \/ Raise(c)
    PROVE  Backed(a, k)'
<1>1. CASE Approve(c)
  <2>1. /\ Active(c) /\ call[c].step = "listing" /\ OthersKept(c) /\ files' = files
        /\ call'[c].step = "begun" /\ call'[c].entry = call[c].entry
    BY <1>1, ApproveEffect
  <2>2. Hope(c) >= call[c].entry.points
    BY <1>1, <2>1, CoveredIsHoped DEF Approve
  <2>3. InFlight(c, a)' => InFlight(c, a)
    BY <2>1 DEF InFlight
  <2>4. ~Waiting(c, a)'
    BY <2>1 DEF Waiting
  <2>5. Risky(c, a)' => Risky(c, a)
    BY <2>2, <2>3 DEF Risky
  <2> QED BY <2>1, <2>3, <2>4, <2>5, QuietCall
<1>2. CASE Stamp(c)
  <2>1. /\ Active(c) /\ call[c].step = "begun" /\ OthersKept(c) /\ files' = files
        /\ call'[c].step = "stamped" /\ call'[c].entry = Dated(call[c].entry)
    BY <1>2, StampEffect
  <2>2. /\ call'[c].entry.number = call[c].entry.number
        /\ call'[c].entry.points = call[c].entry.points
        /\ call'[c].entry.account = call[c].entry.account
        /\ call'[c].entry.kind = call[c].entry.kind
    BY <2>1, CallTyped, DatedEntry
  <2>3. InFlight(c, a)' => InFlight(c, a)
    BY <2>1, <2>2 DEF InFlight
  <2>4. ~Waiting(c, a)'
    BY <2>1 DEF Waiting
  <2>5. Risky(c, a)' => Risky(c, a)
    BY <2>1, <2>3 DEF Risky
  <2> QED BY <2>1, <2>2, <2>3, <2>4, <2>5, QuietCall
<1>3. CASE Return(c) \/ Raise(c)
  <2>1. OthersKept(c) /\ files' = files /\ call'[c] = NoCall
    BY <1>3, EndEffect
  <2>2. ~InFlight(c, a)'
    BY <2>1 DEF InFlight, NoCall
  <2>3. ~Waiting(c, a)' /\ ~Risky(c, a)'
    BY <2>2 DEF Waiting, Risky
  <2> QED BY <2>1, <2>2, <2>3, QuietCall
<1> QED BY <1>1, <1>2, <1>3

LEMMA OwedSame ==
    ASSUME TypeOK, CallsNumbered, TypeOK', CallsNumbered', NEW a, NEW m,
           \A c \in Callers : Due(a, m)'[c] = Due(a, m)[c]
    PROVE  Owed(a, m)' = Owed(a, m)
<1>1. IsFiniteSet(Callers) /\ IntOn(Due(a, m), Callers) /\ IntOn(Due(a, m)', Callers)
  BY TypesHereAndNext, LedgersAssumption DEF IntOn
<1>2. \A c \in Callers \cup Callers :
         Part(Due(a, m)', Callers, c) = Part(Due(a, m), Callers, c)
  BY DEF Part
<1>3. Total(Due(a, m)', Callers) = Total(Due(a, m), Callers)
  BY <1>1, <1>2, TotalEq
<1>4. Owed(a, m)' = Total(Due(a, m)', Callers)
  BY DEF Owed
<1> QED BY <1>3, <1>4 DEF Owed

(* A withdrawal begins.  If the account holds its points, the call and all  *)
(* before it are backed by them; if not, it comes after those that are.    *)
LEMMA BackedWhenBegun ==
    ASSUME TypeOK, CallsNumbered, TypeOK', CallsNumbered',
           NEW a, NEW k \in 0..begun, Backed(a, k),
           NEW c \in Callers, Record(c) \/ Withdraw(c)
    PROVE  \E m \in 0..begun + 1 : Backed(a, m)'
<1>0. PICK e \in Entry, s \in {"listing", "begun"}, l \in 0..Len(files) :
         /\ call'[c] = [step |-> s, entry |-> e, listed |-> l]
         /\ e.number = begun + 1
         /\ Checked(e.kind) => s = "listing" /\ l = Len(files)
  BY BeginEffect
<1>1. /\ OthersKept(c) /\ ~Active(c)
      /\ begun' = begun + 1 /\ files' = files
  BY BeginEffect
<1>2. call'[c].step = s /\ call'[c].entry = e /\ call'[c].listed = l
  BY <1>0
<1>3. begun \in Nat /\ k \in Int
  BY DEF TypeOK
<1>a. PICK n \in Nat : n = begun + 1
  BY <1>3
<1>4. CASE ~(Checked(e.kind) /\ e.account = a)
  <2>1. ~InFlight(c, a)'
    BY <1>2, <1>4 DEF InFlight, Checked
  <2>2. ~Waiting(c, a)' /\ ~Risky(c, a)'
    BY <2>1 DEF Waiting, Risky
  <2>3. Backed(a, k)'
    BY <1>1, <2>1, <2>2, QuietCall
  <2> QED BY <1>3, <2>3
<1>5. CASE Checked(e.kind) /\ e.account = a
  <2>1. call'[c].step = "listing" /\ call'[c].listed = Len(files)
    BY <1>0, <1>2, <1>5
  <2>2. InFlight(c, a)' /\ Waiting(c, a)' /\ ~InFlight(c, a)
    BY <1>1, <1>2, <1>5, <2>1 DEF InFlight, Waiting, Active, Checked
  <2>3. Hope(c)' = Held(a)
    <3>1. OfAccount(a)' = OfAccount(a) /\ Movement' = Movement
      BY <1>1 DEF OfAccount, Movement
    <3>2. \A i \in OfAccount(a) : i <= Len(files)
      BY FilesTyped DEF OfAccount
    <3>3. Best(c)' = OfAccount(a)
      BY <1>2, <1>5, <2>1, <3>1, <3>2 DEF Best
    <3> QED BY <3>1, <3>3 DEF Hope, Held
  <2>4. Held(a)' = Held(a)
    BY <1>1, OthersSame
  <2>5. \A d \in Callers : d # c =>
           /\ InFlight(d, a)' <=> InFlight(d, a)
           /\ Waiting(d, a)' <=> Waiting(d, a)
           /\ Risky(d, a)' <=> Risky(d, a)
           /\ Hope(d)' = Hope(d)
           /\ call'[d] = call[d]
    BY <1>1, OthersSame
  <2>6. \A d \in Callers : d # c /\ InFlight(d, a) => call[d].entry.number \in 1..begun
    BY InFlightTyped
  <2>7. e.points \in 1..MaxPoints /\ MaxPoints \in Nat
    BY LedgersAssumption DEF Entry
  <2>8. Slack' = Slack
    BY DEF Slack
  <2>9. \A m : /\ Owed(a, m)' = Total(Due(a, m)', Callers)
               /\ \A d \in Callers : Due(a, m)'[d] \in 0..MaxPoints
    BY TypesHereAndNext DEF Owed
  <2>10. \A d \in Callers : Risky(d, a)' => InFlight(d, a)'
    BY DEF Risky
  <2>11. \A d \in Callers : Waiting(d, a)' => InFlight(d, a)'
    BY DEF Waiting
  <2>12. CASE Held(a) >= e.points
    <3>1. Due(a, n)'[c] = e.points
      BY <1>0, <1>2, <1>3, <1>a, <2>2, TypesHereAndNext
    <3>2. Owed(a, n)' <= e.points + Slack
      BY <2>9, <3>1, OwedBut
    <3>3. Held(a)' - Owed(a, n)' >= -Slack
      BY <2>4, <2>7, <2>12, <3>2, TypesHereAndNext, SlackTyped
    <3>4. \A d \in Callers : InFlight(d, a)' =>
             call'[d].entry.number \in Nat /\ call'[d].entry.number <= n
      BY <1>0, <1>2, <1>3, <1>a, <2>5, <2>6
    <3>5. Backed(a, n)'
      BY <1>3, <2>8, <2>10, <2>11, <3>3, <3>4 DEF Backed
    <3> QED BY <1>3, <1>a, <3>5
  <2>13. CASE ~(Held(a) >= e.points)
    <3>1. ~Risky(c, a)'
      BY <1>2, <2>1, <2>3, <2>13 DEF Risky
    <3>2. ASSUME NEW m \in Int, m <= begun PROVE Owed(a, m)' = Owed(a, m)
      <4>1. Due(a, m)'[c] = 0 /\ Due(a, m)[c] = 0
        BY <1>0, <1>2, <1>3, <2>2, <3>2, TypesHereAndNext
      <4>2. \A d \in Callers : d # c => Due(a, m)'[d] = Due(a, m)[d]
        BY <2>5, TypesHereAndNext
      <4> QED BY <4>1, <4>2, OwedSame
    <3>3. \A d \in Callers : Risky(d, a)' => call'[d].entry.number <= k
      BY <2>5, <3>1 DEF Backed
    <3>4. Held(a)' - Owed(a, k)' >= -Slack
      BY <1>3, <2>4, <3>2 DEF Backed
    <3>5. ASSUME NEW d \in Callers, NEW j \in Nat, Waiting(d, a)',
                 call'[d].entry.number = j, j > k
          PROVE  Hope(d)' - Held(a)' + Owed(a, j - 1)' <= Slack
      <4>1. CASE d = c
        <5>1. j = n
          BY <1>0, <1>2, <1>a, <3>5, <4>1
        <5>2. Due(a, n - 1)'[c] = 0
          BY <1>0, <1>2, <1>a, TypesHereAndNext
        <5>3. Total(Due(a, n - 1)', Callers) <= 0 + Slack
          BY <2>9, <5>2, OwedBut
        <5>4. Owed(a, j - 1)' <= Slack
          BY <2>9, <5>1, <5>3, SlackTyped
        <5> QED BY <2>3, <2>4, <4>1, <5>4, TypesHereAndNext, SlackTyped
      <4>2. CASE d # c
        <5>1. Waiting(d, a) /\ call[d].entry.number = j /\ InFlight(d, a)
          BY <2>5, <3>5, <4>2 DEF Waiting
        <5>2. j - 1 <= begun
          BY <1>3, <2>6, <4>2, <5>1
        <5>3. Hope(d) - Held(a) + Owed(a, j - 1) <= Slack
          BY <3>5, <5>1 DEF Backed
        <5> QED BY <2>4, <2>5, <3>2, <4>2, <5>2, <5>3
      <4> QED BY <4>1, <4>2
    <3>6. Backed(a, k)'
      BY <2>8, <3>3, <3>4, <3>5 DEF Backed
    <3> QED BY <1>3, <3>6
  <2> QED BY <2>12, <2>13
<1> QED BY <1>4, <1>5

(* What a new file adds to the sums. *)
LEMMA PlacedSums ==
    ASSUME TypeOK, CallsNumbered, NEW c \in Callers, Place(c)
    PROVE  /\ \A a : Held(a)' =
                 Held(a) + (IF call[c].entry.account = a THEN Signed(call[c].entry) ELSE 0)
           /\ \A d \in Callers : \A a : d # c /\ Waiting(d, a) =>
                 Hope(d)' =
                    Hope(d) + (IF call[c].entry.account = a /\ call[c].entry.kind = "earned"
                               THEN Signed(call[c].entry) ELSE 0)
<1> DEFINE L == Len(files) + 1
           e == call[c].entry
<1>1. /\ OthersKept(c) /\ e \in Entry
      /\ Len(files') = Len(files) + 1
      /\ L \notin DOMAIN files
      /\ DOMAIN files' = DOMAIN files \cup {L}
      /\ \A i \in DOMAIN files : files'[i] = files[i]
      /\ files'[L] = e
  BY PlaceEffect
<1>2. Len(files) \in Nat /\ DOMAIN files = 1..Len(files)
  BY FilesTyped
<1> HIDE DEF L, e
<1>3. Movement' = [i \in DOMAIN files' |-> Signed(files'[i])]
  BY DEF Movement, Signed
<1>4. /\ \A i \in DOMAIN files : Movement'[i] = Movement[i]
      /\ Movement'[L] = Signed(e)
  BY <1>1, <1>3 DEF Movement
<1>5. Signed(e) \in Int
  BY <1>1, LedgersAssumption DEF Signed, Entry
<1>6. ASSUME NEW T \in SUBSET (DOMAIN files)
      PROVE  /\ Total(Movement', T) = Total(Movement, T)
             /\ Total(Movement', T \cup {L}) = Total(Movement, T) + Signed(e)
  <2>1. /\ IsFiniteSet(T) /\ IntOn(Movement, T) /\ IntOn(Movement', T) /\ L \notin T
    BY <1>1, <1>4, SumsTyped DEF IntOn
  <2>2. \A i \in T \cup T : Part(Movement', T, i) = Part(Movement, T, i)
    BY <1>4 DEF Part
  <2>3. Total(Movement', T) = Total(Movement, T)
    BY <2>1, <2>2, TotalEq
  <2>4. Total(Movement', T \cup {L}) = Movement'[L] + Total(Movement', T)
    BY <1>4, <1>5, <2>1, TotalAdd
  <2>5. Total(Movement, T) \in Int
    BY <2>1, TotalInt
  <2> QED BY <1>4, <1>5, <2>3, <2>4, <2>5
<1>7. ASSUME NEW a
      PROVE  Held(a)' = Held(a) + (IF e.account = a THEN Signed(e) ELSE 0)
  <2>1. Held(a)' = Total(Movement', OfAccount(a)') /\ Held(a) = Total(Movement, OfAccount(a))
    BY DEF Held
  <2>2. OfAccount(a)' = OfAccount(a) \cup (IF e.account = a THEN {L} ELSE {})
    BY <1>1 DEF OfAccount
  <2>3. OfAccount(a) \in SUBSET (DOMAIN files)
    BY OfAccountFiles
  <2>4. Held(a) \in Int
    BY HeldTyped
  <2>5. CASE e.account = a
    <3>1. OfAccount(a)' = OfAccount(a) \cup {L}
      BY <2>2, <2>5
    <3>2. Total(Movement', OfAccount(a) \cup {L}) = Total(Movement, OfAccount(a)) + Signed(e)
      BY <1>6, <2>3
    <3> QED BY <2>1, <2>5, <3>1, <3>2
  <2>6. CASE e.account # a
    <3>1. OfAccount(a)' = OfAccount(a)
      BY <2>2, <2>6
    <3>2. Total(Movement', OfAccount(a)) = Total(Movement, OfAccount(a))
      BY <1>6, <2>3
    <3> QED BY <2>1, <2>4, <2>6, <3>1, <3>2
  <2> QED BY <2>5, <2>6
<1>8. ASSUME NEW d \in Callers, NEW a, d # c, Waiting(d, a)
      PROVE  Hope(d)' = Hope(d) + (IF e.account = a /\ e.kind = "earned"
                                   THEN Signed(e) ELSE 0)
  <2>1. call'[d] = call[d]
    BY <1>1, <1>8 DEF OthersKept
  <2>2. call[d].listed \in 0..Len(files) /\ call[d].entry.account = a
    BY <1>8, CallTyped DEF Calls, Waiting, InFlight
  <2>3. ~(L <= call[d].listed) /\ L \in Int
    BY <1>2, <2>2 DEF L
  <2>4. Best(d)' = Best(d) \cup (IF e.account = a /\ e.kind = "earned" THEN {L} ELSE {})
    BY <1>1, <2>1, <2>2, <2>3 DEF Best, OfAccount
  <2>5. Hope(d)' = Total(Movement', Best(d)') /\ Hope(d) = Total(Movement, Best(d))
    BY DEF Hope
  <2>6. Best(d) \in SUBSET (DOMAIN files)
    BY BestFiles
  <2>7. Hope(d) \in Int
    BY HeldTyped
  <2>8. CASE e.account = a /\ e.kind = "earned"
    <3>1. Best(d)' = Best(d) \cup {L}
      BY <2>4, <2>8
    <3>2. Total(Movement', Best(d) \cup {L}) = Total(Movement, Best(d)) + Signed(e)
      BY <1>6, <2>6
    <3> QED BY <2>5, <2>8, <3>1, <3>2
  <2>9. CASE ~(e.account = a /\ e.kind = "earned")
    <3>1. Best(d)' = Best(d)
      BY <2>4, <2>9
    <3>2. Total(Movement', Best(d)) = Total(Movement, Best(d))
      BY <1>6, <2>6
    <3> QED BY <2>5, <2>7, <2>9, <3>1, <3>2
  <2> QED BY <2>8, <2>9
<1> QED BY <1>7, <1>8 DEF e

(* Points that are spent were backed, and are owed no longer. *)
LEMMA BackedWhenSpent ==
    ASSUME TypeOK, CallsNumbered, TypeOK', CallsNumbered', NEW a, NEW k \in Int,
           Backed(a, k), NEW c \in Callers, Place(c), InFlight(c, a)
    PROVE  Backed(a, k)'
<1>1. PICK p \in 1..MaxPoints : p = call[c].entry.points
  BY InFlightTyped
<1>2. PICK q \in Nat : q = call[c].entry.number
  BY InFlightTyped DEF TypeOK
<1>3. /\ OthersKept(c) /\ call[c].step = "stamped" /\ call'[c].step = "placed"
      /\ begun' = begun
  BY PlaceEffect
<1>4. call[c].entry.account = a /\ call[c].entry.kind # "earned"
      /\ Signed(call[c].entry) = -p
  BY <1>1 DEF InFlight, Checked, Signed
<1>5. q <= k
  BY <1>2, <1>3 DEF Backed, Risky
<1>6. ~InFlight(c, a)' /\ ~Waiting(c, a)' /\ ~Risky(c, a)'
  BY <1>3 DEF InFlight, Waiting, Risky
<1>7. p \in Int /\ Held(a)' = Held(a) - p
  BY <1>1, <1>4, PlacedSums, HeldTyped, LedgersAssumption
<1>8. ASSUME NEW d \in Callers, d # c
      PROVE  /\ call'[d] = call[d]
             /\ InFlight(d, a)' <=> InFlight(d, a)
             /\ Waiting(d, a)' <=> Waiting(d, a)
             /\ Waiting(d, a) => Hope(d)' = Hope(d)
             /\ Risky(d, a)' <=> Risky(d, a)
  <2>1. call'[d] = call[d]
    BY <1>3, <1>8 DEF OthersKept
  <2>2. InFlight(d, a)' <=> InFlight(d, a)
    BY <2>1 DEF InFlight
  <2>3. Waiting(d, a)' <=> Waiting(d, a)
    BY <2>1, <2>2 DEF Waiting
  <2>4. Waiting(d, a) => Hope(d)' = Hope(d)
    BY <1>4, <1>8, PlacedSums, HeldTyped
  <2> QED BY <2>1, <2>2, <2>3, <2>4 DEF Risky, Waiting
<1>9. ASSUME NEW m \in Int, m >= q PROVE Owed(a, m)' = Owed(a, m) - p
  <2>1. Due(a, m)[c] = p /\ Due(a, m)'[c] = 0
    BY <1>1, <1>2, <1>6, <1>9, TypesHereAndNext
  <2>2. \A d \in Callers : d # c => Due(a, m)'[d] = Due(a, m)[d]
    BY <1>8, TypesHereAndNext
  <2>3. /\ IsFiniteSet(Callers) /\ IntOn(Due(a, m), Callers) /\ IntOn(Due(a, m)', Callers)
        /\ Owed(a, m) \in Int
    BY TypesHereAndNext, LedgersAssumption DEF IntOn
  <2>4. Total(Due(a, m)', Callers) =
           Total(Due(a, m), Callers) + Due(a, m)'[c] - Due(a, m)[c]
    BY <2>2, <2>3, TotalUpdate
  <2>5. Owed(a, m)' = Total(Due(a, m)', Callers) /\ Owed(a, m) = Total(Due(a, m), Callers)
    BY DEF Owed
  <2> QED BY <1>7, <2>1, <2>3, <2>4, <2>5
<1>10. \A d \in Callers : Risky(d, a)' => call'[d].entry.number <= k
  BY <1>6, <1>8 DEF Backed
<1>11. Held(a)' - Owed(a, k)' >= -Slack
  BY <1>5, <1>7, <1>9, TypesHereAndNext, SlackTyped DEF Backed
<1>12. ASSUME NEW d \in Callers, NEW j \in Nat, Waiting(d, a)', call'[d].entry.number = j,
              j > k
       PROVE  Hope(d)' - Held(a)' + Owed(a, j - 1)' <= Slack
  <2>1. d # c /\ Waiting(d, a) /\ call[d].entry.number = j /\ Hope(d)' = Hope(d)
    BY <1>6, <1>8, <1>12
  <2>2. Hope(d) - Held(a) + Owed(a, j - 1) <= Slack
    BY <1>12, <2>1 DEF Backed
  <2>3. j - 1 >= q /\ j - 1 \in Int
    BY <1>5, <1>12
  <2>4. Owed(a, j - 1)' = Owed(a, j - 1) - p
    BY <1>9, <2>3
  <2> QED BY <1>7, <2>1, <2>2, <2>4, TypesHereAndNext, SlackTyped
<1>13. Slack' = Slack
  BY DEF Slack
<1> QED BY <1>10, <1>11, <1>12, <1>13 DEF Backed

(* The first j - 1 calls and the one numbered j. *)
LEMMA OwedOneMore ==
    ASSUME TypeOK, CallsNumbered, NEW a, NEW c \in Callers, InFlight(c, a),
           NEW j \in Nat, call[c].entry.number = j
    PROVE  Owed(a, j) = Owed(a, j - 1) + call[c].entry.points
<1>1. /\ Due(a, j)[c] = call[c].entry.points /\ Due(a, j - 1)[c] = 0
      /\ call[c].entry.points \in Int
  BY DueTyped, InFlightTyped
<1>2. ASSUME NEW d \in Callers, d # c PROVE Due(a, j)[d] = Due(a, j - 1)[d]
  <2>1. CASE InFlight(d, a)
    <3>1. call[d].entry.number # j /\ call[d].entry.number \in Int
      BY <1>2, <2>1, InFlightTyped DEF CallsNumbered, TypeOK
    <3> QED BY <3>1, DueTyped
  <2>2. CASE ~InFlight(d, a)
    BY <2>2, DueTyped
  <2> QED BY <2>1, <2>2
<1>3. /\ IsFiniteSet(Callers) /\ IntOn(Due(a, j), Callers) /\ IntOn(Due(a, j - 1), Callers)
      /\ Owed(a, j - 1) \in Int
  BY OwedTyped, LedgersAssumption
<1>4. Owed(a, j) = Owed(a, j - 1) + Due(a, j)[c] - Due(a, j - 1)[c]
  BY <1>2, <1>3, TotalUpdate DEF Owed
<1> QED BY <1>1, <1>3, <1>4

(* Points come in.  A call that was too early for what it wants may now be  *)
(* allowed to go on; then all the calls up to the last such are backed by   *)
(* the very points that it hopes for.                                      *)
LEMMA BackedWhenEarned ==
    ASSUME TypeOK, CallsNumbered, TypeOK', CallsNumbered',
           NEW a, NEW k \in 0..begun, Backed(a, k),
           NEW c \in Callers, Place(c), ~InFlight(c, a)
    PROVE  \E m \in 0..begun : Backed(a, m)'
<1>1. /\ OthersKept(c) /\ call[c].step = "stamped" /\ call'[c].step = "placed"
      /\ call[c].entry \in Entry
  BY PlaceEffect
<1>2. ~InFlight(c, a)' /\ ~Waiting(c, a)' /\ ~Risky(c, a)'
  BY <1>1 DEF InFlight, Waiting, Risky
<1>3. k \in Int /\ begun \in Nat
  BY DEF TypeOK
<1>4. ASSUME NEW d \in Callers, d # c
      PROVE  /\ call'[d] = call[d]
             /\ InFlight(d, a)' <=> InFlight(d, a)
             /\ Waiting(d, a)' <=> Waiting(d, a)
  <2>1. call'[d] = call[d]
    BY <1>1, <1>4 DEF OthersKept
  <2>2. InFlight(d, a)' <=> InFlight(d, a)
    BY <2>1 DEF InFlight
  <2> QED BY <2>1, <2>2 DEF Waiting
<1>5. CASE call[c].entry.account # a
  <2>1. Held(a)' = Held(a)
    BY <1>5, PlacedSums, HeldTyped
  <2>2. \A d \in Callers : InFlight(d, a)' =>
           /\ InFlight(d, a)
           /\ call'[d].entry.number = call[d].entry.number
           /\ call'[d].entry.points = call[d].entry.points
    BY <1>2, <1>4
  <2>3. \A d \in Callers : Waiting(d, a)' => Waiting(d, a) /\ Hope(d)' = Hope(d)
    BY <1>2, <1>4, <1>5, PlacedSums, HeldTyped
  <2>4. \A d \in Callers : Risky(d, a)' => Risky(d, a)
    BY <1>2, <1>4, <2>3 DEF Risky, Waiting
  <2> QED BY <2>1, <2>2, <2>3, <2>4, Quiet
<1>6. CASE call[c].entry.account = a
  <2>1. PICK p \in Int : p = Signed(call[c].entry)
    BY <1>1, LedgersAssumption DEF Entry, Signed
  <2>2. call[c].entry.kind = "earned"
    BY <1>1, <1>6 DEF InFlight, Checked, Entry, Kinds
  <2>3. Held(a)' = Held(a) + p
    BY <1>6, <2>1, PlacedSums
  <2>4. \A d \in Callers : Waiting(d, a)' => Hope(d)' = Hope(d) + p
    BY <1>2, <1>4, <1>6, <2>1, <2>2, PlacedSums
  <2>5. ASSUME NEW m PROVE Owed(a, m)' = Owed(a, m)
    <3>1. \A d \in Callers : Due(a, m)'[d] = Due(a, m)[d]
      BY <1>2, <1>4, TypesHereAndNext
    <3> QED BY <3>1, OwedSame
  <2>6. Slack' = Slack
    BY DEF Slack
  <2>7. ASSUME NEW d \in Callers, NEW j \in Nat, Waiting(d, a)', call'[d].entry.number = j,
               j > k
        PROVE  Hope(d)' - Held(a)' + Owed(a, j - 1)' <= Slack
    <3>1. Waiting(d, a) /\ call[d].entry.number = j
      BY <1>2, <1>4, <2>7
    <3>2. Hope(d) - Held(a) + Owed(a, j - 1) <= Slack
      BY <2>7, <3>1 DEF Backed
    <3>3. Hope(d)' = Hope(d) + p /\ Owed(a, j - 1)' = Owed(a, j - 1)
      BY <2>4, <2>5, <2>7
    <3> QED BY <2>3, <3>2, <3>3, TypesHereAndNext, SlackTyped
  <2>8. \A d \in Callers : Risky(d, a)' /\ ~Waiting(d, a)' => call'[d].entry.number <= k
    <3>1. ASSUME NEW d \in Callers, Risky(d, a)', ~Waiting(d, a)' PROVE Risky(d, a)
      BY <1>2, <1>4, <3>1 DEF Risky, Waiting
    <3> QED BY <1>2, <1>4, <3>1 DEF Backed
  <2> DEFINE New == {d \in Callers : Risky(d, a)' /\ call'[d].entry.number > k}
  <2>9. \A d \in Callers : Risky(d, a)' => InFlight(d, a) /\ d # c
    BY <1>2, <1>4 DEF Risky
  <2>10. \A d \in Callers : Risky(d, a)' => call'[d].entry.number \in 1..begun
    BY <1>4, <2>9, InFlightTyped
  <2>11. CASE New = {}
    <3>1. \A d \in Callers : Risky(d, a)' => call'[d].entry.number <= k
      BY <1>3, <2>10, <2>11
    <3>2. Held(a)' - Owed(a, k)' >= -Slack
      <4>1. Owed(a, k)' = Owed(a, k) /\ p >= 0
        BY <1>1, <2>1, <2>2, <2>5, LedgersAssumption DEF Signed, Entry
      <4>2. Held(a) - Owed(a, k) >= -Slack
        BY DEF Backed
      <4> QED BY <2>3, <4>1, <4>2, TypesHereAndNext, SlackTyped
    <3>3. Backed(a, k)'
      BY <2>6, <2>7, <3>1, <3>2 DEF Backed
    <3> QED BY <3>3
  <2>12. CASE New # {}
    <3>1. PICK x \in New :
             \A y \in New : call'[y].entry.number <= call'[x].entry.number
      <4> DEFINE f == [d \in New |-> call'[d].entry.number]
      <4>1. IsFiniteSet(New)
        BY LedgersAssumption, FS_Subset
      <4>2. \A d \in New : f[d] \in Int
        BY <1>3, <2>10
      <4>3. \A d \in New : f[d] = call'[d].entry.number
        OBVIOUS
      <4> HIDE DEF f, New
      <4>4. \E x \in New : \A y \in New : f[y] <= f[x]
        BY <2>12, <4>1, <4>2, LargestElement
      <4> QED BY <4>3, <4>4
    <3>2. PICK j \in Nat : j = call[x].entry.number
      BY <1>3, <1>4, <2>9, <2>10, <3>1
    <3>3. /\ x \in Callers /\ InFlight(x, a) /\ call'[x] = call[x]
          /\ j \in 0..begun /\ j > k /\ Risky(x, a)'
      BY <1>3, <1>4, <2>9, <2>10, <3>1, <3>2
    <3>4. Waiting(x, a)'
      BY <1>3, <2>8, <3>2, <3>3
    <3>5. Hope(x)' >= call[x].entry.points
      BY <3>3, <3>4 DEF Risky, Waiting
    <3>6. Hope(x)' - Held(a)' + Owed(a, j - 1)' <= Slack
      BY <2>7, <3>2, <3>3, <3>4
    <3>7. Owed(a, j)' = Owed(a, j - 1)' + call[x].entry.points
      BY <2>5, <3>2, <3>3, OwedOneMore
    <3>8. call[x].entry.points \in Int
      BY <3>3, InFlightTyped
    <3>9. Held(a)' - Owed(a, j)' >= -Slack
      BY <3>5, <3>6, <3>7, <3>8, TypesHereAndNext, SlackTyped
    <3>10. \A d \in Callers : Risky(d, a)' => call'[d].entry.number <= j
      <4>1. ASSUME NEW d \in Callers, Risky(d, a)' PROVE call'[d].entry.number <= j
        <5>1. CASE d \in New
          BY <3>1, <3>2, <3>3, <5>1
        <5>2. CASE d \notin New
          BY <1>3, <2>10, <3>3, <4>1, <5>2
        <5> QED BY <5>1, <5>2
      <4> QED BY <4>1
    <3>11. \A d \in Callers, i \in Nat :
              Waiting(d, a)' /\ call'[d].entry.number = i /\ i > j =>
                 Hope(d)' - Held(a)' + Owed(a, i - 1)' <= Slack
      BY <1>3, <2>7, <3>3
    <3>12. Backed(a, j)'
      BY <2>6, <3>9, <3>10, <3>11 DEF Backed
    <3> QED BY <3>3, <3>12
  <2> QED BY <2>11, <2>12
<1> QED BY <1>5, <1>6

(* Every step keeps some number of calls backed. *)
LEMMA OverdraftKept ==
    ASSUME TypeOK, CallsNumbered, OverdraftInv, [Next]_vars
    PROVE  OverdraftInv'
<1>1. TypeOK' /\ CallsNumbered'
  BY TypeKept, CallsNumberedKept
<1>2. ASSUME NEW a \in Accounts PROVE \E m \in 0..begun' : Backed(a, m)'
  <2>1. PICK k \in 0..begun : Backed(a, k)
    BY DEF OverdraftInv
  <2>2. k \in Int /\ begun \in Nat
    BY DEF TypeOK
  <2>3. ASSUME NEW c \in Callers, Record(c) \/ Withdraw(c)
        PROVE  \E m \in 0..begun' : Backed(a, m)'
    BY <1>1, <2>1, <2>3, BackedWhenBegun, BeginEffect
  <2>4. ASSUME NEW c \in Callers, Approve(c) \/ Stamp(c) \/ Return(c) \/ Raise(c)
        PROVE  \E m \in 0..begun' : Backed(a, m)'
    <3>1. begun' = begun
      BY <2>4, ApproveEffect, StampEffect, EndEffect
    <3>2. Backed(a, k)'
      BY <1>1, <2>1, <2>4, BackedWhenCarriedOn
    <3> QED BY <2>1, <3>1, <3>2
  <2>5. ASSUME NEW c \in Callers, Place(c)
        PROVE  \E m \in 0..begun' : Backed(a, m)'
    <3>1. begun' = begun
      BY <2>5, PlaceEffect
    <3>2. CASE InFlight(c, a)
      <4>1. Backed(a, k)'
        BY <1>1, <2>1, <2>2, <2>5, <3>2, BackedWhenSpent
      <4> QED BY <2>1, <3>1, <4>1
    <3>3. CASE ~InFlight(c, a)
      BY <1>1, <2>1, <2>5, <3>1, <3>3, BackedWhenEarned
    <3> QED BY <3>2, <3>3
  <2>6. CASE ClockMoves \/ UNCHANGED vars
    <3>1. files' = files /\ call' = call /\ begun' = begun
      BY <2>6 DEF ClockMoves, vars
    <3>2. PICK c \in Callers : TRUE
      BY LedgersAssumption
    <3>3. OthersKept(c)
      BY <3>1 DEF OthersKept
    <3>4. \A d \in Callers :
             /\ InFlight(d, a)' <=> InFlight(d, a)
             /\ Waiting(d, a)' <=> Waiting(d, a)
             /\ Risky(d, a)' <=> Risky(d, a)
             /\ Hope(d)' = Hope(d)
      BY <3>1 DEF InFlight, Waiting, Risky, Hope, Best, OfAccount, Movement
    <3>5. Held(a)' = Held(a)
      BY <3>1, <3>3, OthersSame
    <3>6. Backed(a, k)'
      BY <1>1, <2>1, <3>1, <3>4, <3>5, Quiet
    <3> QED BY <2>1, <3>1, <3>6
  <2> QED BY <2>3, <2>4, <2>5, <2>6 DEF Next, CallerStep
<1> QED BY <1>2 DEF OverdraftInv

(* spend() and expire() look at a balance that others may be spending, and  *)
(* take no lock: the account is overdrawn by one call's points for each    *)
(* caller but one at most, for any number of callers, points and calls.    *)
THEOREM OverdraftIsBounded == Spec => []OverdraftBound
<1>1. Init => LedgersInv /\ OverdraftInv
  BY InitInv, BackedAtFirst
<1>2. LedgersInv /\ OverdraftInv /\ [Next]_vars => (LedgersInv /\ OverdraftInv)'
  BY NextInv, OverdraftKept DEF LedgersInv
<1>3. LedgersInv /\ OverdraftInv => OverdraftBound
  BY BackedIsBounded DEF LedgersInv
<1> QED BY <1>1, <1>2, <1>3, PTL DEF Spec
===============================================================================
