--------------------------- MODULE SettlementProofs ---------------------------
(***************************************************************************)
(* Proofs about settlement and the treasury controls, for every number of  *)
(* clerks and obligations, every amount and every setting of the controls. *)
(***************************************************************************)
EXTENDS Settlement, FiniteSetTheorems, TLAPS

K == Cardinality(Clerks)

LEMMA ClerksCount == K \in Nat /\ K >= 1
BY SettlementAssumption, FS_CardinalityType, FS_EmptySet DEF K

LEMMA Product ==
    ASSUME NEW n \in Int, NEW m \in Nat
    PROVE  /\ n * m \in Int
           /\ (n + 1) * m = n * m + m
           /\ n >= 0 => n * m >= 0
<1>1. n * m \in Int /\ (n + 1) * m = n * m + m
  OBVIOUS
<1>2. ASSUME n >= 0 PROVE n * m >= 0
  BY <1>2
<1> QED BY <1>1, <1>2

LEMMA Overdraft == (K - 1) * MaxPayout \in Int /\ (K - 1) * MaxPayout >= 0
<1>1. K - 1 \in Int /\ K - 1 >= 0 /\ MaxPayout \in Nat
  BY ClerksCount, ControlsAssumption
<1> QED BY <1>1, Product

(***************************************************************************)
(* The argument behind both limits.  h is what may still be paid out; H    *)
(* the clerks that have read a positive h and not yet paid; draw[c] what   *)
(* the figures of c still let it pay.  The figures of the clerks in H may  *)
(* be stale, but one of them is at most one full payout per clerk outside  *)
(* H away from the truth: each payout takes its clerk out of H, and a      *)
(* clerk comes back only with fresh figures.                               *)
(***************************************************************************)
Headroom(h, H, draw) ==
    IF H = {} THEN h >= -((K - 1) * MaxPayout)
    ELSE \E c \in H : h >= draw[c] - (K - Cardinality(H)) * MaxPayout

Draws == [Clerks -> Int]

LEMMA SomeClerks ==
    ASSUME NEW H \in SUBSET Clerks
    PROVE  /\ IsFiniteSet(H)
           /\ Cardinality(H) \in Nat
           /\ Cardinality(H) <= K
           /\ H # {} => Cardinality(H) >= 1
BY SettlementAssumption, FS_Subset, FS_CardinalityType, FS_EmptySet DEF K

LEMMA OneLess ==
    ASSUME NEW H \in SUBSET Clerks, NEW c \in H
    PROVE  Cardinality(H \ {c}) = Cardinality(H) - 1
BY SomeClerks, FS_RemoveElement

LEMMA HeadroomBound ==
    ASSUME NEW h \in Int, NEW H \in SUBSET Clerks, NEW draw \in Draws,
           Headroom(h, H, draw), \A c \in H : draw[c] >= 0
    PROVE  h >= -((K - 1) * MaxPayout)
<1>1. CASE H = {}
  BY <1>1 DEF Headroom
<1>2. CASE H # {}
  <2>1. PICK c \in H : h >= draw[c] - (K - Cardinality(H)) * MaxPayout
    BY <1>2 DEF Headroom
  <2> DEFINE n == Cardinality(H)
  <2>2. n \in Nat /\ n >= 1 /\ K \in Nat /\ MaxPayout \in Nat /\ draw[c] \in Nat
    BY <1>2, <2>1, SomeClerks, ClerksCount, ControlsAssumption DEF Draws
  <2> HIDE DEF n
  <2>3. (K - n) * MaxPayout <= (K - 1) * MaxPayout
    <3>1. (n - 1) * MaxPayout >= 0
      BY <2>2, Product
    <3> QED BY <2>2, <3>1
  <2>4. h >= draw[c] - (K - n) * MaxPayout
    BY <2>1 DEF n
  <2>5. (K - n) * MaxPayout \in Int /\ (K - 1) * MaxPayout \in Int
    BY <2>2
  <2> QED BY <2>2, <2>3, <2>4, <2>5
<1> QED BY <1>1, <1>2

(* More headroom, and draws that agree where it counts. *)
LEMMA HeadroomGrows ==
    ASSUME NEW h \in Int, NEW g \in Int, g >= h, NEW H \in SUBSET Clerks,
           NEW draw \in Draws, NEW drawn \in Draws,
           \A c \in H : drawn[c] = draw[c],
           Headroom(h, H, draw)
    PROVE  Headroom(g, H, drawn)
<1> K \in Int /\ Cardinality(H) \in Int /\ MaxPayout \in Int
  BY ClerksCount, SomeClerks, ControlsAssumption
<1>1. CASE H = {}
  <2>1. (K - 1) * MaxPayout \in Int
    OBVIOUS
  <2> QED BY <1>1, <2>1 DEF Headroom
<1>2. CASE H # {}
  <2>1. PICK c \in H : h >= draw[c] - (K - Cardinality(H)) * MaxPayout
    BY <1>2 DEF Headroom
  <2>2. (K - Cardinality(H)) * MaxPayout \in Int /\ draw[c] \in Int
    BY DEF Draws
  <2>3. g >= drawn[c] - (K - Cardinality(H)) * MaxPayout
    BY <2>1, <2>2
  <2> QED BY <1>2, <2>3 DEF Headroom
<1> QED BY <1>1, <1>2

(* A clerk with fresh figures joins. *)
LEMMA HeadroomRead ==
    ASSUME NEW h \in Int, NEW H \in SUBSET Clerks, NEW c \in Clerks,
           NEW drawn \in Draws, drawn[c] <= h
    PROVE  Headroom(h, H \cup {c}, drawn)
<1> DEFINE J == H \cup {c}
           n == Cardinality(J)
<1>1. n \in Nat /\ n <= K /\ K \in Nat /\ MaxPayout \in Nat
  BY SomeClerks, ClerksCount, ControlsAssumption
<1>2. drawn[c] \in Int
  BY DEF Draws
<1> HIDE DEF n
<1>3. (K - n) * MaxPayout >= 0 /\ (K - n) * MaxPayout \in Int
  BY <1>1, Product
<1>4. h >= drawn[c] - (K - n) * MaxPayout
  BY <1>2, <1>3
<1> QED BY <1>4 DEF Headroom, n

(* A clerk pays what its figures allowed, or leaves without paying. *)
LEMMA HeadroomSpend ==
    ASSUME NEW h \in Int, NEW H \in SUBSET Clerks, NEW c \in H,
           NEW draw \in Draws, NEW drawn \in Draws,
           \A d \in H \ {c} : drawn[d] = draw[d],
           \A d \in H : draw[d] <= MaxPayout,
           NEW a \in Nat, a <= draw[c],
           Headroom(h, H, draw)
    PROVE  Headroom(h - a, H \ {c}, drawn)
<1> DEFINE n == Cardinality(H)
           J == H \ {c}
<1>1. Cardinality(J) = n - 1
  BY OneLess
<1>2. n \in Nat /\ n >= 1 /\ K \in Nat /\ MaxPayout \in Nat
  BY SomeClerks, ClerksCount, ControlsAssumption
<1>3. \A d \in H : draw[d] \in Int
  BY DEF Draws
<1>4. PICK w \in H : h >= draw[w] - (K - n) * MaxPayout
  BY DEF Headroom
<1> DEFINE s == (K - n) * MaxPayout
<1>5. s \in Int /\ (K - (n - 1)) * MaxPayout = s + MaxPayout
  <2>1. K - n \in Int /\ K - (n - 1) = (K - n) + 1
    BY <1>2
  <2> QED BY <1>2, <2>1, Product
<1>6. a <= MaxPayout
  BY <1>2, <1>3
<1>7. CASE J = {}
  <2>1. w = c
    BY <1>7
  <2>2. n = 1
    BY <1>1, <1>2, <1>7, FS_EmptySet
  <2>3. h - a >= -s
    BY <1>3, <1>4, <1>5, <2>1
  <2>4. -s = -((K - 1) * MaxPayout)
    BY <2>2
  <2> QED BY <1>7, <2>3, <2>4 DEF Headroom
<1>8. ASSUME NEW d \in J, h - a >= draw[d] - (s + MaxPayout)
      PROVE  Headroom(h - a, J, drawn)
  <2>1. h - a >= drawn[d] - (K - Cardinality(J)) * MaxPayout
    BY <1>1, <1>5, <1>8
  <2> QED BY <2>1 DEF Headroom
<1>9. CASE J # {} /\ w # c
  <2>1. h - a >= draw[w] - (s + MaxPayout)
    BY <1>2, <1>3, <1>4, <1>5, <1>6
  <2> QED BY <1>8, <1>9, <2>1
<1>10. CASE J # {} /\ w = c
  <2>1. PICK d \in J : TRUE
    BY <1>10
  <2>2. draw[d] <= MaxPayout /\ draw[d] \in Int
    BY <1>3
  <2>3. h - a >= draw[d] - (s + MaxPayout)
    BY <1>2, <1>3, <1>4, <1>5, <1>10, <2>2
  <2> QED BY <1>8, <2>3
<1> QED BY <1>7, <1>9, <1>10

-------------------------------------------------------------------------------
LEMMA WriteTyped ==
    ASSUME TypeOK, NEW o \in Obligations, NEW state \in {"recorded", "settled"},
           Write(o, state)
    PROVE  books' \in [Obligations -> SUBSET File]
<1>1. [stamp |-> now, state |-> state] \in File
  BY DEF TypeOK, File
<1> QED BY <1>1 DEF TypeOK, Write

LEMMA EndCallTyped ==
    ASSUME TypeOK, NEW c \in Clerks, EndCall(c)
    PROVE  /\ pc' \in [Clerks -> {"idle", "ready", "checked", "paid"}]
           /\ snap' \in [Clerks -> Figures]
<1>1. NoFigures \in Figures
  BY DEF NoFigures, Figures
<1> QED BY <1>1 DEF TypeOK, EndCall

LEMMA InterruptTyped ==
    ASSUME TypeOK, NEW o \in Obligations, Interrupt(o)
    PROVE  interrupted' \in [Obligations -> Nat]
BY DEF TypeOK, Interrupt

LEMMA GrantTyped ==
    ASSUME TypeOK, NEW c \in Clerks, NEW o \in Obligations, Grant(c, o)
    PROVE  /\ held' \in [Clerks -> [Obligations -> {"none", "recorded", "settled"}]]
           /\ grants' \in [Obligations -> Nat]
BY DEF TypeOK, Grant

(* What the controls let through stays let through: from the check to the  *)
(* payment the amount is positive and within the figures of the call.      *)
CheckedIsPermitted ==
    \A c \in Clerks : pc[c] = "checked" =>
        /\ Amount[target[c]] > 0
        /\ Amount[target[c]] <= MaxPayout
        /\ snap[c].paidToday + Amount[target[c]] <= MaxDailyPayout
        /\ snap[c].balance - Amount[target[c]] >= ReserveFloor

LEMMA MoveValueTyped ==
    ASSUME TypeOK, CheckedIsPermitted, NEW c \in Clerks, pc[c] = "checked",
           MoveValue(target[c])
    PROVE  /\ balance' \in Int
           /\ paidToday' \in Nat
           /\ paid' \in [Obligations -> Nat]
<1>1. target[c] \in Obligations
  BY DEF TypeOK
<1>2. Amount[target[c]] \in Int /\ Amount[target[c]] > 0
  BY <1>1, SettlementAssumption DEF CheckedIsPermitted
<1> QED BY <1>1, <1>2 DEF TypeOK, MoveValue

TypeInv == TypeOK /\ CheckedIsPermitted

LEMMA TypeInit == Init => TypeInv
<1> SUFFICES ASSUME Init PROVE TypeInv
  OBVIOUS
<1>1. (CHOOSE o \in Obligations : TRUE) \in Obligations
  BY SettlementAssumption
<1>2. NoFigures \in Figures
  BY DEF NoFigures, Figures
<1>3. TypeOK
  BY <1>1, <1>2, SettlementAssumption DEF Init, TypeOK
<1>4. CheckedIsPermitted
  BY DEF Init, CheckedIsPermitted
<1> QED BY <1>3, <1>4 DEF TypeInv

LEMMA TypeStep ==
    ASSUME TypeInv, [Next]_vars
    PROVE  TypeInv'
<1> USE DEF TypeInv
<1>1. ASSUME NEW c \in Clerks, ClerkStep(c) PROVE TypeOK'
  <2>t. target[c] \in Obligations
    BY DEF TypeOK
  <2>1. ASSUME NEW o \in Obligations, Record(c, o) PROVE TypeOK'
    BY <2>1, WriteTyped, GrantTyped DEF Record, TypeOK, treasuryVars
  <2>2. ASSUME NEW o \in Obligations, RecordUnacknowledged(c, o) PROVE TypeOK'
    BY <2>2, WriteTyped
       DEF RecordUnacknowledged, TypeOK, clerkVars, treasuryVars, historyVars
  <2>3. ASSUME NEW o \in Obligations, Load(c, o) PROVE TypeOK'
    BY <2>3, GrantTyped DEF Load, TypeOK, treasuryVars
  <2>4. ASSUME NEW o \in Obligations, ReadTreasury(c, o) PROVE TypeOK'
    BY <2>4 DEF ReadTreasury, TypeOK, Figures, treasuryVars, historyVars
  <2>5. ASSUME NEW approved \in BOOLEAN, Check(c, approved) PROVE TypeOK'
    BY <2>5 DEF Check, TypeOK, treasuryVars, historyVars
  <2>6. ASSUME NEW approved \in BOOLEAN, Refuse(c, approved) PROVE TypeOK'
    BY <2>6, EndCallTyped DEF Refuse, TypeOK, treasuryVars, historyVars
  <2>7. CASE Pay(c)
    <3>1. NoFigures \in Figures
      BY DEF NoFigures, Figures
    <3> QED BY <2>7, <3>1, MoveValueTyped DEF Pay, TypeOK
  <2>8. CASE PayFails(c)
    BY <2>8, EndCallTyped DEF PayFails, TypeOK, treasuryVars, historyVars
  <2>9. CASE PayUnacknowledged(c)
    BY <2>9, <2>t, EndCallTyped, InterruptTyped, MoveValueTyped
       DEF PayUnacknowledged, TypeOK
  <2>10. CASE Finish(c)
    <3>1. held' \in [Clerks -> [Obligations -> {"none", "recorded", "settled"}]]
      BY <2>10, <2>t DEF Finish, TypeOK
    <3> QED BY <2>10, <2>t, <3>1, EndCallTyped, WriteTyped
            DEF Finish, TypeOK, treasuryVars, historyVars
  <2>11. CASE WriteFails(c)
    BY <2>11, <2>t, EndCallTyped, InterruptTyped, WriteTyped
       DEF WriteFails, TypeOK, treasuryVars
  <2>12. CASE Crash(c)
    <3>1. interrupted' \in [Obligations -> Nat]
      BY <2>12, <2>t, InterruptTyped DEF Crash, TypeOK
    <3> QED BY <2>12, <3>1, EndCallTyped DEF Crash, TypeOK, treasuryVars
  <2> QED BY <1>1, <2>1, <2>2, <2>3, <2>4, <2>5, <2>6, <2>7, <2>8, <2>9, <2>10,
             <2>11, <2>12 DEF ClerkStep
<1>2. ASSUME NEW c \in Clerks, ClerkStep(c) PROVE CheckedIsPermitted'
  <2> SUFFICES ASSUME NEW d \in Clerks, pc'[d] = "checked"
               PROVE  /\ Amount[target'[d]] > 0
                      /\ Amount[target'[d]] <= MaxPayout
                      /\ snap'[d].paidToday + Amount[target'[d]] <= MaxDailyPayout
                      /\ snap'[d].balance - Amount[target'[d]] >= ReserveFloor
    BY DEF CheckedIsPermitted
  <2>1. CASE d # c
    <3>1. pc'[d] = pc[d] /\ target'[d] = target[d] /\ snap'[d] = snap[d]
      BY <1>2, <2>1 DEF ClerkStep, Record, RecordUnacknowledged, Load, ReadTreasury,
         Check, Refuse, Pay, PayFails, PayUnacknowledged, Finish, WriteFails, Crash,
         EndCall, clerkVars, TypeOK
    <3> QED BY <3>1 DEF CheckedIsPermitted
  <2>2. CASE d = c
    <3>1. \E approved \in BOOLEAN : Check(c, approved)
      BY <1>2, <2>2 DEF ClerkStep, Record, RecordUnacknowledged, Load, ReadTreasury,
         Refuse, Pay, PayFails, PayUnacknowledged, Finish, WriteFails, Crash,
         EndCall, clerkVars, TypeOK
    <3> QED BY <2>2, <3>1 DEF Check, Permits
  <2> QED BY <2>1, <2>2
<1>3. CASE World
  <2>1. TypeOK'
    BY <1>3 DEF World, TopUp, Midnight, ClockMoves, TypeOK, clerkVars,
       treasuryVars, historyVars
  <2>2. CheckedIsPermitted'
    BY <1>3 DEF World, TopUp, Midnight, ClockMoves, CheckedIsPermitted,
       clerkVars
  <2> QED BY <2>1, <2>2
<1>4. CASE UNCHANGED vars
  BY <1>4 DEF vars, clerkVars, treasuryVars, historyVars, TypeOK, CheckedIsPermitted
<1> QED BY <1>1, <1>2, <1>3, <1>4 DEF Next

LEMMA TypeInvAlways == Spec => []TypeInv
BY TypeInit, TypeStep, PTL DEF Spec

(* The type invariant of settlement, with any clerks doing anything.       *)
THEOREM TypeCorrect == Spec => []TypeOK
<1>1. TypeInv => TypeOK
  BY DEF TypeInv
<1> QED BY <1>1, TypeInvAlways, PTL

-------------------------------------------------------------------------------
(* The steps of Next as the treasury sees them.                            *)
Live(c) == pc[c] \in {"ready", "checked"}

Others(c) ==
    \A d \in Clerks \ {c} : pc'[d] = pc[d] /\ snap'[d] = snap[d]

Reads(c) ==
    /\ ~Live(c) /\ Live(c)'
    /\ snap'[c].balance = balance
    /\ ReportsPaidToday => snap'[c].paidToday = paidToday
    /\ Others(c)
    /\ UNCHANGED treasuryVars

Spends(c) ==
    /\ pc[c] = "checked" /\ ~Live(c)'
    /\ balance' = balance - Amount[target[c]]
    /\ paidToday' = paidToday + Amount[target[c]]
    /\ Others(c)

Leaves(c) == ~Live(c)' /\ Others(c) /\ UNCHANGED treasuryVars

Eases ==
    /\ \A c \in Clerks : Live(c)' = Live(c) /\ snap'[c] = snap[c]
    /\ balance' >= balance
    /\ paidToday' <= paidToday

LEMMA TreasuryStepKinds ==
    ASSUME TypeInv, [Next]_vars
    PROVE  Eases \/ \E c \in Clerks : Reads(c) \/ Spends(c) \/ Leaves(c)
<1> USE DEF TypeInv, TypeOK, Live, Others
<1>1. ASSUME NEW c \in Clerks, ClerkStep(c)
      PROVE  Eases \/ Reads(c) \/ Spends(c) \/ Leaves(c)
  <2>1. ASSUME NEW o \in Obligations, Record(c, o) \/ Load(c, o) PROVE Eases
    BY <2>1 DEF Record, Load, Eases, treasuryVars
  <2>2. ASSUME NEW o \in Obligations, RecordUnacknowledged(c, o) PROVE Eases
    BY <2>2 DEF RecordUnacknowledged, Eases, clerkVars, treasuryVars
  <2>3. ASSUME NEW o \in Obligations, ReadTreasury(c, o) PROVE Reads(c)
    BY <2>3 DEF ReadTreasury, Reads, treasuryVars
  <2>4. ASSUME NEW approved \in BOOLEAN, Check(c, approved) PROVE Eases
    <3>1. \A d \in Clerks : Live(d)' = Live(d)
      BY <2>4 DEF Check
    <3> QED BY <2>4, <3>1 DEF Check, Eases, treasuryVars
  <2>5. ASSUME NEW approved \in BOOLEAN, Refuse(c, approved) PROVE Leaves(c)
    BY <2>5 DEF Refuse, EndCall, Leaves
  <2>6. CASE Pay(c)
    BY <2>6 DEF Pay, MoveValue, Spends
  <2>7. CASE PayUnacknowledged(c)
    BY <2>7 DEF PayUnacknowledged, MoveValue, EndCall, Spends
  <2>8. CASE PayFails(c) \/ Finish(c) \/ WriteFails(c) \/ Crash(c)
    BY <2>8 DEF PayFails, Finish, WriteFails, Crash, EndCall, Leaves
  <2> QED BY <1>1, <2>1, <2>2, <2>3, <2>4, <2>5, <2>6, <2>7, <2>8 DEF ClerkStep
<1>2. CASE World
  BY <1>2 DEF World, TopUp, Midnight, ClockMoves, Eases, clerkVars,
     treasuryVars
<1>3. CASE UNCHANGED vars
  BY <1>3 DEF vars, clerkVars, treasuryVars, Eases
<1> QED BY <1>1, <1>2, <1>3 DEF Next

LEMMA DifferenceMonotone ==
    ASSUME NEW x \in Int, NEW y \in Int, x >= y, NEW r \in Int
    PROVE  x - r >= y - r /\ r - x <= r - y
OBVIOUS

Least(a, b) == IF a <= b THEN a ELSE b

LEMMA LeastBelow ==
    ASSUME NEW a \in Int, NEW b \in Int
    PROVE  Least(a, b) \in Int /\ Least(a, b) <= b
BY DEF Least

-------------------------------------------------------------------------------
(* The reserve floor.                                                       *)
FloorLive == {c \in Clerks : Live(c) /\ snap[c].balance > ReserveFloor}
FloorDraw ==
    [c \in Clerks |-> Least(MaxPayout, snap[c].balance - ReserveFloor)]
FloorInv == Headroom(balance - ReserveFloor, FloorLive, FloorDraw)

LEMMA FloorTyped ==
    ASSUME TypeInv
    PROVE  /\ balance - ReserveFloor \in Int
           /\ FloorLive \in SUBSET Clerks
           /\ FloorDraw \in Draws
           /\ \A c \in FloorLive : 0 <= FloorDraw[c] /\ FloorDraw[c] <= MaxPayout
BY ControlsAssumption
   DEF TypeInv, TypeOK, Figures, FloorLive, FloorDraw, Draws, Least

LEMMA FloorStep ==
    ASSUME TypeInv, TypeInv', FloorInv, [Next]_vars
    PROVE  FloorInv'
<1> DEFINE h == balance - ReserveFloor
           g == balance' - ReserveFloor
<1>t. /\ h \in Int /\ g \in Int
      /\ FloorLive \in SUBSET Clerks /\ FloorLive' \in SUBSET Clerks
      /\ FloorDraw \in Draws /\ FloorDraw' \in Draws
      /\ \A c \in FloorLive : 0 <= FloorDraw[c] /\ FloorDraw[c] <= MaxPayout
      /\ balance \in Int /\ balance' \in Int
  <2>1. FloorDraw' \in Draws
    BY ControlsAssumption DEF TypeInv, TypeOK, Figures, FloorDraw, Draws, Least
  <2>2. g \in Int /\ balance \in Int /\ balance' \in Int
    BY ControlsAssumption DEF TypeInv, TypeOK
  <2>3. FloorLive' \in SUBSET Clerks
    BY DEF FloorLive
  <2> QED BY <2>1, <2>2, <2>3, FloorTyped
<1>h. Headroom(h, FloorLive, FloorDraw)
  BY DEF FloorInv
<1>d. ASSUME NEW d \in Clerks, snap'[d] = snap[d]
      PROVE  FloorDraw'[d] = FloorDraw[d]
  BY <1>d DEF FloorDraw
<1>c. ReserveFloor \in Int /\ MaxDailyPayout \in Int /\ MaxPayout \in Int
  BY ControlsAssumption
<1> DEFINE Kept ==
             FloorLive' = FloorLive /\ g >= h /\ \A d \in FloorLive : FloorDraw'[d] = FloorDraw[d]
           Fresh(c) == FloorLive' = FloorLive \cup {c} /\ FloorDraw'[c] <= g
           Gone(c, a) ==
             /\ c \in FloorLive /\ a <= FloorDraw[c] /\ FloorLive' = FloorLive \ {c} /\ g = h - a
             /\ \A d \in FloorLive' : FloorDraw'[d] = FloorDraw[d]
<1>1. ASSUME Eases PROVE Kept
  <2>1. FloorLive' = FloorLive
    BY <1>1 DEF Eases, FloorLive
  <2>2. g >= h
    BY <1>1, <1>t, <1>c, DifferenceMonotone DEF Eases
  <2>3. \A d \in FloorLive : FloorDraw'[d] = FloorDraw[d]
    BY <1>1, <1>d, <1>t DEF Eases
  <2> QED BY <2>1, <2>2, <2>3
<1>2. ASSUME NEW c \in Clerks, Reads(c) PROVE Kept \/ Fresh(c)
  <2>1. g = h /\ snap'[c].balance = balance /\ c \notin FloorLive
    BY <1>2 DEF Reads, treasuryVars, FloorLive
  <2>2. CASE balance > ReserveFloor
    <3>1. FloorLive' = FloorLive \cup {c}
      BY <1>2, <2>1, <2>2 DEF Reads, Others, FloorLive, Live
    <3>2. FloorDraw'[c] = Least(MaxPayout, h)
      BY <2>1 DEF FloorDraw
    <3>3. Least(MaxPayout, h) <= h
      BY <1>t, <1>c, LeastBelow
    <3>4. FloorDraw'[c] <= g
      BY <2>1, <3>2, <3>3
    <3> QED BY <3>1, <3>4
  <2>3. CASE ~(balance > ReserveFloor)
    <3>1. FloorLive' = FloorLive
      BY <1>2, <2>1, <2>3 DEF Reads, Others, FloorLive, Live
    <3>2. \A d \in FloorLive : FloorDraw'[d] = FloorDraw[d]
      BY <1>2, <1>d, <1>t, <2>1 DEF Reads, Others
    <3>3. g >= h
      BY <1>t, <2>1
    <3> QED BY <3>1, <3>2, <3>3
  <2> QED BY <2>2, <2>3
<1>3. ASSUME NEW c \in Clerks, ~Live(c)', Others(c)
      PROVE  /\ FloorLive' = FloorLive \ {c}
             /\ \A d \in FloorLive' : FloorDraw'[d] = FloorDraw[d]
  <2>1. FloorLive' = FloorLive \ {c}
    BY <1>3 DEF Others, FloorLive, Live
  <2> QED BY <1>3, <1>d, <1>t, <2>1 DEF Others
<1>4. ASSUME NEW c \in Clerks, Spends(c) PROVE \E a \in Nat : Gone(c, a)
  <2> DEFINE a == Amount[target[c]]
  <2>1. a \in Nat /\ a > 0 /\ a <= MaxPayout
    BY <1>4, SettlementAssumption DEF Spends, TypeInv, TypeOK, CheckedIsPermitted
  <2>2. snap[c].balance - a >= ReserveFloor
    BY <1>4 DEF Spends, TypeInv, CheckedIsPermitted
  <2>3. snap[c].balance \in Int
    BY DEF TypeInv, TypeOK, Figures
  <2>4. balance' = balance - a
    BY <1>4 DEF Spends
  <2>5. FloorDraw[c] = Least(MaxPayout, snap[c].balance - ReserveFloor)
    BY DEF FloorDraw
  <2> HIDE DEF a
  <2>6. c \in FloorLive
    BY <1>4, <1>c, <2>1, <2>2, <2>3 DEF Spends, FloorLive, Live
  <2>7. a <= FloorDraw[c]
    BY <1>c, <2>1, <2>2, <2>3, <2>5 DEF Least
  <2>8. g = h - a
    BY <1>t, <1>c, <2>1, <2>4
  <2> QED BY <1>3, <1>4, <2>1, <2>6, <2>7, <2>8 DEF Spends
<1>5. ASSUME NEW c \in Clerks, Leaves(c) PROVE Kept \/ Gone(c, 0)
  <2>1. g = h
    BY <1>5 DEF Leaves, treasuryVars
  <2>2. g = h - 0 /\ g >= h
    BY <1>t, <2>1
  <2>3. CASE c \in FloorLive
    BY <1>3, <1>5, <1>t, <2>2, <2>3 DEF Leaves
  <2>4. CASE c \notin FloorLive
    <3>1. FloorLive \ {c} = FloorLive
      BY <2>4
    <3> QED BY <1>3, <1>5, <2>2, <3>1 DEF Leaves
  <2> QED BY <2>3, <2>4
<1> HIDE DEF Kept, Fresh, Gone
<1>6. \/ Kept
      \/ \E c \in Clerks : Fresh(c)
      \/ \E c \in Clerks, a \in Nat : Gone(c, a)
  BY <1>1, <1>2, <1>4, <1>5, TreasuryStepKinds
<1> USE DEF Kept, Fresh, Gone
<1> HIDE DEF h, g
<1>7. ASSUME Kept PROVE Headroom(g, FloorLive', FloorDraw')
  BY <1>7, <1>t, <1>h, HeadroomGrows
<1>8. ASSUME NEW c \in Clerks, Fresh(c) PROVE Headroom(g, FloorLive', FloorDraw')
  BY <1>8, <1>t, HeadroomRead
<1>9. ASSUME NEW c \in Clerks, NEW a \in Nat, Gone(c, a)
      PROVE  Headroom(g, FloorLive', FloorDraw')
  <2>1. Headroom(h - a, FloorLive \ {c}, FloorDraw')
    BY <1>9, <1>t, <1>h, HeadroomSpend
  <2> QED BY <1>9, <2>1
<1>10. Headroom(g, FloorLive', FloorDraw')
  BY <1>6, <1>7, <1>8, <1>9
<1> QED BY <1>10 DEF FloorInv, g

(* However many clerks settle at once, on however old a reading of the     *)
(* balance, the treasury is never more than one full payout for each clerk *)
(* but one below its reserve floor; a single clerk never breaks it.        *)
THEOREM FloorBoundHolds == Spec => []FloorBound
<1>1. Init => FloorInv
  <2> SUFFICES ASSUME Init PROVE FloorInv
    OBVIOUS
  <2>1. FloorLive = {} /\ balance - ReserveFloor >= 0
    BY SettlementAssumption, ControlsAssumption DEF Init, FloorLive, Live
  <2>2. (K - 1) * MaxPayout >= 0 /\ (K - 1) * MaxPayout \in Int
    BY Overdraft
  <2>3. balance - ReserveFloor \in Int
    BY SettlementAssumption, ControlsAssumption DEF Init
  <2>4. balance - ReserveFloor >= -((K - 1) * MaxPayout)
    BY <2>1, <2>2, <2>3
  <2> QED BY <2>1, <2>4 DEF FloorInv, Headroom
<1>2. TypeInv /\ TypeInv' /\ FloorInv /\ [Next]_vars => FloorInv'
  BY FloorStep
<1>3. TypeInv /\ FloorInv => FloorBound
  <2> SUFFICES ASSUME TypeInv, FloorInv PROVE FloorBound
    OBVIOUS
  <2>1. balance - ReserveFloor >= -((K - 1) * MaxPayout)
    BY FloorTyped, HeadroomBound DEF FloorInv
  <2>2. (K - 1) * MaxPayout \in Int /\ balance \in Int /\ ReserveFloor \in Int
    BY ClerksCount, ControlsAssumption DEF TypeInv, TypeOK
  <2> QED BY <2>1, <2>2 DEF FloorBound, K
<1> QED BY <1>1, <1>2, <1>3, TypeInvAlways, PTL DEF Spec

-------------------------------------------------------------------------------
(* The daily ceiling.                                                       *)
DailyLive == {c \in Clerks : Live(c) /\ snap[c].paidToday < MaxDailyPayout}
DailyDraw ==
    [c \in Clerks |-> Least(MaxPayout, MaxDailyPayout - snap[c].paidToday)]
DailyInv == Headroom(MaxDailyPayout - paidToday, DailyLive, DailyDraw)

LEMMA DailyTyped ==
    ASSUME TypeInv
    PROVE  /\ MaxDailyPayout - paidToday \in Int
           /\ DailyLive \in SUBSET Clerks
           /\ DailyDraw \in Draws
           /\ \A c \in DailyLive : 0 <= DailyDraw[c] /\ DailyDraw[c] <= MaxPayout
BY ControlsAssumption
   DEF TypeInv, TypeOK, Figures, DailyLive, DailyDraw, Draws, Least

LEMMA DailyStep ==
    ASSUME ReportsPaidToday, TypeInv, TypeInv', DailyInv, [Next]_vars
    PROVE  DailyInv'
<1> DEFINE h == MaxDailyPayout - paidToday
           g == MaxDailyPayout - paidToday'
<1>t. /\ h \in Int /\ g \in Int
      /\ DailyLive \in SUBSET Clerks /\ DailyLive' \in SUBSET Clerks
      /\ DailyDraw \in Draws /\ DailyDraw' \in Draws
      /\ \A c \in DailyLive : 0 <= DailyDraw[c] /\ DailyDraw[c] <= MaxPayout
      /\ paidToday \in Int /\ paidToday' \in Int
  <2>1. DailyDraw' \in Draws
    BY ControlsAssumption DEF TypeInv, TypeOK, Figures, DailyDraw, Draws, Least
  <2>2. g \in Int /\ paidToday \in Int /\ paidToday' \in Int
    BY ControlsAssumption DEF TypeInv, TypeOK
  <2>3. DailyLive' \in SUBSET Clerks
    BY DEF DailyLive
  <2> QED BY <2>1, <2>2, <2>3, DailyTyped
<1>h. Headroom(h, DailyLive, DailyDraw)
  BY DEF DailyInv
<1>d. ASSUME NEW d \in Clerks, snap'[d] = snap[d]
      PROVE  DailyDraw'[d] = DailyDraw[d]
  BY <1>d DEF DailyDraw
<1>c. ReserveFloor \in Int /\ MaxDailyPayout \in Int /\ MaxPayout \in Int
  BY ControlsAssumption
<1> DEFINE Kept ==
             DailyLive' = DailyLive /\ g >= h /\ \A d \in DailyLive : DailyDraw'[d] = DailyDraw[d]
           Fresh(c) == DailyLive' = DailyLive \cup {c} /\ DailyDraw'[c] <= g
           Gone(c, a) ==
             /\ c \in DailyLive /\ a <= DailyDraw[c] /\ DailyLive' = DailyLive \ {c} /\ g = h - a
             /\ \A d \in DailyLive' : DailyDraw'[d] = DailyDraw[d]
<1>1. ASSUME Eases PROVE Kept
  <2>1. DailyLive' = DailyLive
    BY <1>1 DEF Eases, DailyLive
  <2>2. g >= h
    BY <1>1, <1>t, <1>c, DifferenceMonotone DEF Eases
  <2>3. \A d \in DailyLive : DailyDraw'[d] = DailyDraw[d]
    BY <1>1, <1>d, <1>t DEF Eases
  <2> QED BY <2>1, <2>2, <2>3
<1>2. ASSUME NEW c \in Clerks, Reads(c) PROVE Kept \/ Fresh(c)
  <2>1. g = h /\ snap'[c].paidToday = paidToday /\ c \notin DailyLive
    BY <1>2 DEF Reads, treasuryVars, DailyLive
  <2>2. CASE paidToday < MaxDailyPayout
    <3>1. DailyLive' = DailyLive \cup {c}
      BY <1>2, <2>1, <2>2 DEF Reads, Others, DailyLive, Live
    <3>2. DailyDraw'[c] = Least(MaxPayout, h)
      BY <2>1 DEF DailyDraw
    <3>3. Least(MaxPayout, h) <= h
      BY <1>t, <1>c, LeastBelow
    <3>4. DailyDraw'[c] <= g
      BY <2>1, <3>2, <3>3
    <3> QED BY <3>1, <3>4
  <2>3. CASE ~(paidToday < MaxDailyPayout)
    <3>1. DailyLive' = DailyLive
      BY <1>2, <2>1, <2>3 DEF Reads, Others, DailyLive, Live
    <3>2. \A d \in DailyLive : DailyDraw'[d] = DailyDraw[d]
      BY <1>2, <1>d, <1>t, <2>1 DEF Reads, Others
    <3>3. g >= h
      BY <1>t, <2>1
    <3> QED BY <3>1, <3>2, <3>3
  <2> QED BY <2>2, <2>3
<1>3. ASSUME NEW c \in Clerks, ~Live(c)', Others(c)
      PROVE  /\ DailyLive' = DailyLive \ {c}
             /\ \A d \in DailyLive' : DailyDraw'[d] = DailyDraw[d]
  <2>1. DailyLive' = DailyLive \ {c}
    BY <1>3 DEF Others, DailyLive, Live
  <2> QED BY <1>3, <1>d, <1>t, <2>1 DEF Others
<1>4. ASSUME NEW c \in Clerks, Spends(c) PROVE \E a \in Nat : Gone(c, a)
  <2> DEFINE a == Amount[target[c]]
  <2>1. a \in Nat /\ a > 0 /\ a <= MaxPayout
    BY <1>4, SettlementAssumption DEF Spends, TypeInv, TypeOK, CheckedIsPermitted
  <2>2. snap[c].paidToday + a <= MaxDailyPayout
    BY <1>4 DEF Spends, TypeInv, CheckedIsPermitted
  <2>3. snap[c].paidToday \in Int
    BY DEF TypeInv, TypeOK, Figures
  <2>4. paidToday' = paidToday + a
    BY <1>4 DEF Spends
  <2>5. DailyDraw[c] = Least(MaxPayout, MaxDailyPayout - snap[c].paidToday)
    BY DEF DailyDraw
  <2> HIDE DEF a
  <2>6. c \in DailyLive
    BY <1>4, <1>c, <2>1, <2>2, <2>3 DEF Spends, DailyLive, Live
  <2>7. a <= DailyDraw[c]
    BY <1>c, <2>1, <2>2, <2>3, <2>5 DEF Least
  <2>8. g = h - a
    BY <1>t, <1>c, <2>1, <2>4
  <2> QED BY <1>3, <1>4, <2>1, <2>6, <2>7, <2>8 DEF Spends
<1>5. ASSUME NEW c \in Clerks, Leaves(c) PROVE Kept \/ Gone(c, 0)
  <2>1. g = h
    BY <1>5 DEF Leaves, treasuryVars
  <2>2. g = h - 0 /\ g >= h
    BY <1>t, <2>1
  <2>3. CASE c \in DailyLive
    BY <1>3, <1>5, <1>t, <2>2, <2>3 DEF Leaves
  <2>4. CASE c \notin DailyLive
    <3>1. DailyLive \ {c} = DailyLive
      BY <2>4
    <3> QED BY <1>3, <1>5, <2>2, <3>1 DEF Leaves
  <2> QED BY <2>3, <2>4
<1> HIDE DEF Kept, Fresh, Gone
<1>6. \/ Kept
      \/ \E c \in Clerks : Fresh(c)
      \/ \E c \in Clerks, a \in Nat : Gone(c, a)
  BY <1>1, <1>2, <1>4, <1>5, TreasuryStepKinds
<1> USE DEF Kept, Fresh, Gone
<1> HIDE DEF h, g
<1>7. ASSUME Kept PROVE Headroom(g, DailyLive', DailyDraw')
  BY <1>7, <1>t, <1>h, HeadroomGrows
<1>8. ASSUME NEW c \in Clerks, Fresh(c) PROVE Headroom(g, DailyLive', DailyDraw')
  BY <1>8, <1>t, HeadroomRead
<1>9. ASSUME NEW c \in Clerks, NEW a \in Nat, Gone(c, a)
      PROVE  Headroom(g, DailyLive', DailyDraw')
  <2>1. Headroom(h - a, DailyLive \ {c}, DailyDraw')
    BY <1>9, <1>t, <1>h, HeadroomSpend
  <2> QED BY <1>9, <2>1
<1>10. Headroom(g, DailyLive', DailyDraw')
  BY <1>6, <1>7, <1>8, <1>9
<1> QED BY <1>10 DEF DailyInv, g

(* The same for the daily ceiling, when the clerks report what was paid    *)
(* that day instead of leaving paid_today at its default.                  *)
THEOREM DailyBoundHolds ==
    ASSUME ReportsPaidToday
    PROVE  Spec => []DailyBound
<1>1. Init => DailyInv
  <2> SUFFICES ASSUME Init PROVE DailyInv
    OBVIOUS
  <2>1. DailyLive = {} /\ paidToday = 0
    BY DEF Init, DailyLive, Live
  <2>2. (K - 1) * MaxPayout >= 0 /\ (K - 1) * MaxPayout \in Int
    BY Overdraft
  <2>3. MaxDailyPayout - paidToday \in Nat
    BY <2>1, ControlsAssumption
  <2>4. MaxDailyPayout - paidToday >= -((K - 1) * MaxPayout)
    BY <2>2, <2>3
  <2> QED BY <2>1, <2>4 DEF DailyInv, Headroom
<1>2. TypeInv /\ TypeInv' /\ DailyInv /\ [Next]_vars => DailyInv'
  BY DailyStep
<1>3. TypeInv /\ DailyInv => DailyBound
  <2> SUFFICES ASSUME TypeInv, DailyInv PROVE DailyBound
    OBVIOUS
  <2>1. MaxDailyPayout - paidToday >= -((K - 1) * MaxPayout)
    BY DailyTyped, HeadroomBound DEF DailyInv
  <2>2. (K - 1) * MaxPayout \in Int /\ paidToday \in Int /\ MaxDailyPayout \in Int
    BY ClerksCount, ControlsAssumption DEF TypeInv, TypeOK
  <2> QED BY <2>1, <2>2 DEF DailyBound, K
<1> QED BY <1>1, <1>2, <1>3, TypeInvAlways, PTL DEF Spec

-------------------------------------------------------------------------------
(* The steps of Next as the books see them: a file is added, or none is.   *)
Adds(o, state) ==
    books' = [books EXCEPT ![o] = @ \cup {[stamp |-> now, state |-> state]}]

Opens(c, o) ==
    /\ books[o] = {} /\ Adds(o, "recorded")
    /\ UNCHANGED <<pc, target, now, paid, interrupted>>

Closes(c) ==
    /\ pc[c] = "paid" /\ Adds(target[c], "settled")
    /\ pc' = [pc EXCEPT ![c] = "idle"]
    /\ UNCHANGED <<target, now, paid>>
    /\ \A o \in Obligations : interrupted'[o] >= interrupted[o]

Moves(c) ==
    /\ pc[c] = "checked" /\ pc' \in {[pc EXCEPT ![c] = "paid"], [pc EXCEPT ![c] = "idle"]}
    /\ paid' = [paid EXCEPT ![target[c]] = @ + 1]
    /\ pc'[c] = "idle" => interrupted'[target[c]] > 0
    /\ \A o \in Obligations : interrupted'[o] >= interrupted[o]
    /\ UNCHANGED <<books, target, now>>

Rest ==
    /\ UNCHANGED <<books, paid>>
    /\ \A o \in Obligations : interrupted'[o] >= interrupted[o]
    /\ \A c \in Clerks :
          /\ pc'[c] = "paid" => pc[c] = "paid" /\ target'[c] = target[c]
          /\ pc[c] = "paid" /\ target[c] \in Obligations =>
                \/ pc'[c] = "paid" /\ target'[c] = target[c]
                \/ interrupted'[target[c]] > 0
    /\ ClockMayStepBack \/ now' >= now

LEMMA BookStepKinds ==
    ASSUME TypeOK, [Next]_vars
    PROVE  \/ Rest
           \/ \E c \in Clerks : Closes(c) \/ Moves(c)
           \/ \E c \in Clerks, o \in Obligations : Opens(c, o)
<1> USE DEF TypeOK
<1>1. ASSUME NEW c \in Clerks, ClerkStep(c)
      PROVE  Rest \/ Closes(c) \/ Moves(c) \/ \E o \in Obligations : Opens(c, o)
  <2>t. target[c] \in Obligations /\ \A o \in Obligations : interrupted[o] \in Nat
    OBVIOUS
  <2>1. ASSUME NEW o \in Obligations, Record(c, o) \/ RecordUnacknowledged(c, o)
        PROVE  Opens(c, o)
    BY <2>1 DEF Record, RecordUnacknowledged, Write, Opens, Adds, clerkVars, historyVars
  <2>2. ASSUME NEW o \in Obligations, Load(c, o) PROVE Rest
    BY <2>2 DEF Load, Rest
  <2>3. ASSUME NEW o \in Obligations, ReadTreasury(c, o) PROVE Rest
    BY <2>3 DEF ReadTreasury, Rest, historyVars
  <2>4. ASSUME NEW approved \in BOOLEAN, Check(c, approved) PROVE Rest
    BY <2>4 DEF Check, Rest, historyVars
  <2>5. ASSUME NEW approved \in BOOLEAN, Refuse(c, approved) PROVE Rest
    BY <2>5 DEF Refuse, EndCall, Rest, historyVars
  <2>6. CASE Pay(c)
    BY <2>6 DEF Pay, MoveValue, Moves
  <2>7. CASE PayUnacknowledged(c)
    BY <2>7, <2>t DEF PayUnacknowledged, MoveValue, Interrupt, EndCall, Moves
  <2>8. CASE PayFails(c)
    BY <2>8 DEF PayFails, EndCall, Rest, historyVars
  <2>9. CASE Finish(c)
    BY <2>9 DEF Finish, Write, Adds, EndCall, Closes, historyVars
  <2>10. CASE WriteFails(c)
    <3>1. \A o \in Obligations : interrupted'[o] >= interrupted[o]
      BY <2>10, <2>t DEF WriteFails, Interrupt
    <3>2. interrupted'[target[c]] > 0
      BY <2>10, <2>t DEF WriteFails, Interrupt
    <3>3. CASE Write(target[c], "settled")
      BY <2>10, <3>1, <3>3 DEF WriteFails, Write, Adds, EndCall, Closes
    <3>4. CASE UNCHANGED books
      BY <2>10, <3>1, <3>2, <3>4 DEF WriteFails, EndCall, Rest
    <3> QED BY <2>10, <3>3, <3>4 DEF WriteFails
  <2>11. CASE Crash(c)
    <3>1. \A o \in Obligations : interrupted'[o] >= interrupted[o]
      BY <2>11, <2>t DEF Crash, Interrupt
    <3>2. pc[c] = "paid" => interrupted'[target[c]] > 0
      BY <2>11, <2>t DEF Crash, Interrupt
    <3> QED BY <2>11, <3>1, <3>2 DEF Crash, EndCall, Rest
  <2> QED BY <1>1, <2>1, <2>2, <2>3, <2>4, <2>5, <2>6, <2>7, <2>8, <2>9, <2>10,
             <2>11 DEF ClerkStep
<1>2. CASE World
  BY <1>2 DEF World, TopUp, Midnight, ClockMoves, Rest, clerkVars,
     historyVars
<1>3. CASE UNCHANGED vars
  BY <1>3 DEF vars, clerkVars, historyVars, Rest
<1> QED BY <1>1, <1>2, <1>3 DEF Next

-------------------------------------------------------------------------------
(* What BooksTruthful needs beside itself: a call about to write the       *)
(* settled record has moved the value.                                     *)
BooksInv ==
    /\ BooksTruthful
    /\ \A c \in Clerks : pc[c] = "paid" => paid[target[c]] > 0

LEMMA BooksStep ==
    ASSUME TypeOK, TypeOK', BooksInv, [Next]_vars
    PROVE  BooksInv'
<1>1. CASE Rest
  BY <1>1 DEF Rest, BooksInv, BooksTruthful, Booked
<1>2. ASSUME NEW c \in Clerks, NEW o \in Obligations, Opens(c, o) PROVE BooksInv'
  <2>1. \A p \in Obligations : Booked(p, "settled")' => Booked(p, "settled")
    BY <1>2 DEF Opens, Adds, Booked, TypeOK
  <2> QED BY <1>2, <2>1 DEF Opens, BooksInv, BooksTruthful
<1>3. ASSUME NEW c \in Clerks, Closes(c) PROVE BooksInv'
  <2>1. \A p \in Obligations :
           Booked(p, "settled")' => Booked(p, "settled") \/ p = target[c]
    BY <1>3 DEF Closes, Adds, Booked, TypeOK
  <2>2. paid[target[c]] > 0
    BY <1>3 DEF Closes, BooksInv
  <2>3. \A d \in Clerks : pc'[d] = "paid" => pc[d] = "paid"
    BY <1>3 DEF Closes, TypeOK
  <2> QED BY <1>3, <2>1, <2>2, <2>3 DEF Closes, BooksInv, BooksTruthful
<1>4. ASSUME NEW c \in Clerks, Moves(c) PROVE BooksInv'
  <2>1. \A p \in Obligations : paid[p] \in Nat /\ paid'[p] \in Nat
    BY DEF TypeOK
  <2>2. target[c] \in Obligations
    BY DEF TypeOK
  <2>3. \A p \in Obligations : paid'[p] = IF p = target[c] THEN paid[p] + 1 ELSE paid[p]
    BY <1>4, <2>2 DEF Moves, TypeOK
  <2>4. paid'[target[c]] > 0 /\ \A p \in Obligations : paid[p] > 0 => paid'[p] > 0
    BY <2>1, <2>2, <2>3
  <2>5. \A p \in Obligations : Booked(p, "settled")' = Booked(p, "settled")
    BY <1>4 DEF Moves, Booked
  <2>6. \A d \in Clerks : pc'[d] = "paid" => pc[d] = "paid" \/ d = c
    BY <1>4 DEF Moves, TypeOK
  <2> QED BY <1>4, <2>4, <2>5, <2>6 DEF Moves, BooksInv, BooksTruthful, TypeOK
<1> QED BY <1>1, <1>2, <1>3, <1>4, BookStepKinds

(* The books never claim a payment that did not happen.                    *)
THEOREM BooksTruthfulHolds == Spec => []BooksTruthful
<1>1. Init => BooksInv
  BY DEF Init, BooksInv, BooksTruthful, Booked
<1>2. TypeOK /\ TypeOK' /\ BooksInv /\ [Next]_vars => BooksInv'
  BY BooksStep
<1>3. BooksInv => BooksTruthful
  BY DEF BooksInv
<1> QED BY <1>1, <1>2, <1>3, TypeCorrect, PTL DEF Spec

(* A payment is missing from the books only in mid-call or by a fault.     *)
THEOREM PaidIsBookedHolds == Spec => []PaidIsBooked
<1>1. Init => PaidIsBooked
  BY DEF Init, PaidIsBooked
<1>2. TypeOK /\ TypeOK' /\ PaidIsBooked /\ [Next]_vars => PaidIsBooked'
  <2> SUFFICES ASSUME TypeOK, TypeOK', PaidIsBooked, [Next]_vars,
                      NEW o \in Obligations, paid'[o] > 0, ~Booked(o, "settled")'
               PROVE  \/ interrupted'[o] > 0
                      \/ \E c \in Clerks : pc'[c] = "paid" /\ target'[c] = o
    BY DEF PaidIsBooked
  <2>t. interrupted[o] \in Nat /\ interrupted'[o] \in Nat
    BY DEF TypeOK
  <2>1. CASE Rest
    <3>1. paid[o] > 0 /\ ~Booked(o, "settled")
      BY <2>1 DEF Rest, Booked
    <3>2. CASE interrupted[o] > 0
      BY <2>1, <2>t, <3>2 DEF Rest
    <3>3. ASSUME NEW c \in Clerks, pc[c] = "paid", target[c] = o
          PROVE  interrupted'[o] > 0 \/ (pc'[c] = "paid" /\ target'[c] = o)
      BY <2>1, <3>3 DEF Rest
    <3> QED BY <3>1, <3>2, <3>3 DEF PaidIsBooked
  <2>2. ASSUME NEW c \in Clerks, NEW p \in Obligations, Opens(c, p)
        PROVE  \/ interrupted'[o] > 0
               \/ \E d \in Clerks : pc'[d] = "paid" /\ target'[d] = o
    <3>1. ~Booked(o, "settled")
      BY <2>2 DEF Opens, Adds, Booked, TypeOK
    <3> QED BY <2>2, <3>1 DEF Opens, PaidIsBooked
  <2>3. ASSUME NEW c \in Clerks, Closes(c)
        PROVE  \/ interrupted'[o] > 0
               \/ \E d \in Clerks : pc'[d] = "paid" /\ target'[d] = o
    <3>t. target[c] \in Obligations
      BY DEF TypeOK
    <3> DEFINE new == [stamp |-> now, state |-> "settled"]
    <3>1. books'[target[c]] = books[target[c]] \cup {new}
      BY <2>3, <3>t DEF Closes, Adds, TypeOK
    <3>2. new \in books'[target[c]] /\ new.state = "settled"
      BY <3>1
    <3>3. o # target[c]
      BY <3>2 DEF Booked
    <3>4. ~Booked(o, "settled")
      BY <2>3, <3>3 DEF Closes, Adds, Booked, TypeOK
    <3>5. CASE interrupted[o] > 0
      BY <2>3, <2>t, <3>5 DEF Closes
    <3>6. ASSUME NEW d \in Clerks, pc[d] = "paid", target[d] = o
          PROVE  pc'[d] = "paid" /\ target'[d] = o
      BY <2>3, <3>3, <3>6 DEF Closes, TypeOK
    <3> QED BY <2>3, <3>4, <3>5, <3>6 DEF Closes, PaidIsBooked
  <2>4. ASSUME NEW c \in Clerks, Moves(c)
        PROVE  \/ interrupted'[o] > 0
               \/ \E d \in Clerks : pc'[d] = "paid" /\ target'[d] = o
    <3>1. CASE o = target[c]
      <4>1. pc'[c] = "paid" \/ pc'[c] = "idle"
        BY <2>4 DEF Moves, TypeOK
      <4> QED BY <2>4, <3>1, <4>1 DEF Moves
    <3>2. CASE o # target[c]
      <4>1. paid[o] > 0 /\ ~Booked(o, "settled")
        BY <2>4, <3>2 DEF Moves, Booked, TypeOK
      <4>2. CASE interrupted[o] > 0
        BY <2>4, <2>t, <4>2 DEF Moves
      <4>3. ASSUME NEW d \in Clerks, pc[d] = "paid", target[d] = o
            PROVE  pc'[d] = "paid" /\ target'[d] = o
        BY <2>4, <4>3 DEF Moves, TypeOK
      <4> QED BY <4>1, <4>2, <4>3 DEF PaidIsBooked
    <3> QED BY <3>1, <3>2
  <2> QED BY <2>1, <2>2, <2>3, <2>4, BookStepKinds
<1> QED BY <1>1, <1>2, TypeCorrect, PTL DEF Spec

-------------------------------------------------------------------------------
(* An obligation is opened once, under a fresh id: its files are one        *)
(* recorded record and settled ones.                                       *)
OpenedOnce ==
    \A o \in Obligations : \A f, g \in books[o] :
        f.state = "recorded" /\ g.state = "recorded" => f = g

LEMMA OpenedOnceStep ==
    ASSUME TypeOK, OpenedOnce, [Next]_vars
    PROVE  OpenedOnce'
<1>1. CASE UNCHANGED books
  BY <1>1 DEF OpenedOnce
<1>2. ASSUME NEW o \in Obligations, NEW state, Adds(o, state),
             \/ state = "recorded" /\ books[o] = {}
             \/ state = "settled"
      PROVE  OpenedOnce'
  <2> DEFINE new == [stamp |-> now, state |-> state]
  <2>1. books'[o] = books[o] \cup {new}
        /\ \A p \in Obligations \ {o} : books'[p] = books[p]
    BY <1>2 DEF Adds, TypeOK
  <2>2. new.state = state
    OBVIOUS
  <2> HIDE DEF new
  <2> QED BY <1>2, <2>1, <2>2 DEF OpenedOnce
<1>3. CASE Rest
  BY <1>1, <1>3 DEF Rest
<1>4. ASSUME NEW c \in Clerks, Closes(c) \/ Moves(c) PROVE OpenedOnce'
  <2>1. target[c] \in Obligations
    BY DEF TypeOK
  <2> QED BY <1>1, <1>2, <1>4, <2>1 DEF Closes, Moves
<1>5. ASSUME NEW c \in Clerks, NEW o \in Obligations, Opens(c, o) PROVE OpenedOnce'
  BY <1>2, <1>5 DEF Opens
<1> QED BY <1>3, <1>4, <1>5, BookStepKinds

THEOREM OpenedOnceHolds == Spec => []OpenedOnce
<1>1. Init => OpenedOnce
  BY DEF Init, OpenedOnce
<1>2. TypeOK /\ OpenedOnce /\ [Next]_vars => OpenedOnce'
  BY OpenedOnceStep
<1> QED BY <1>1, <1>2, TypeCorrect, PTL DEF Spec

(* Whatever the clock does, an obligation without a settled record is       *)
(* outstanding: its only file is the recorded one.                         *)
LEMMA UnsettledIsOutstanding ==
    ASSUME TypeOK, OpenedOnce,
           NEW o \in Obligations, Booked(o, "recorded"), ~Booked(o, "settled")
    PROVE  Outstanding(o)
<1>1. \A f \in books[o] : f.state \in {"recorded", "settled"}
  BY DEF TypeOK, File
<1>2. PICK f \in books[o] : f.state = "recorded"
  BY DEF Booked
<1>3. \A g \in books[o] : g = f
  BY <1>1, <1>2 DEF Booked, OpenedOnce
<1>4. \A g \in books[o] : NotAfter(g, f)
  BY <1>2, <1>3 DEF NotAfter
<1> QED BY <1>2, <1>4 DEF Outstanding

(* However the wall clock jumps, what was recorded and never paid stays     *)
(* outstanding: outstanding() errs by overstating only.                    *)
THEOREM NeverForgottenHolds == Spec => []NeverForgotten
<1>1. TypeOK /\ OpenedOnce /\ BooksTruthful => NeverForgotten
  <2> SUFFICES ASSUME TypeOK, OpenedOnce, BooksTruthful, NEW o \in Obligations,
                      Booked(o, "recorded"), paid[o] = 0
               PROVE  Outstanding(o)
    BY DEF NeverForgotten
  <2>1. ~Booked(o, "settled")
    BY DEF BooksTruthful
  <2> QED BY <2>1, UnsettledIsOutstanding
<1> QED BY <1>1, TypeCorrect, OpenedOnceHolds, BooksTruthfulHolds, PTL

(* A payment adds a settled record and nothing else, so what is no longer   *)
(* outstanding is not outstanding again, wherever the clock is set.        *)
THEOREM OutStaysOut == Spec => OutForGood
<1>1. TypeOK /\ [Next]_vars =>
         [\A o \in Obligations : books[o] # {} /\ ~Outstanding(o) => ~Outstanding(o)']_vars
  <2> SUFFICES ASSUME TypeOK, [Next]_vars, NEW o \in Obligations,
                      books[o] # {}, Outstanding(o)'
               PROVE  Outstanding(o)
    OBVIOUS
  <2>1. ASSUME books[o] \subseteq books'[o],
               \A f \in books'[o] : f.state = "recorded" => f \in books[o]
        PROVE  Outstanding(o)
    <3>1. PICK f \in books'[o] :
             f.state = "recorded" /\ \A g \in books'[o] : NotAfter(g, f)
      BY DEF Outstanding
    <3> QED BY <2>1, <3>1 DEF Outstanding
  <2>2. CASE Rest
    BY <2>1, <2>2 DEF Rest
  <2>3. ASSUME NEW p \in Obligations, NEW state, Adds(p, state),
               p = o => state # "recorded"
        PROVE  Outstanding(o)
    <3> DEFINE new == [stamp |-> now, state |-> state]
    <3>1. books'[o] = IF p = o THEN books[o] \cup {new} ELSE books[o]
      BY <2>3 DEF Adds, TypeOK
    <3>2. new.state = state
      OBVIOUS
    <3> HIDE DEF new
    <3> QED BY <2>1, <2>3, <3>1, <3>2
  <2>4. ASSUME NEW c \in Clerks, Closes(c) \/ Moves(c) PROVE Outstanding(o)
    <3>1. target[c] \in Obligations
      BY DEF TypeOK
    <3> QED BY <2>1, <2>3, <2>4, <3>1 DEF Closes, Moves
  <2>5. ASSUME NEW c \in Clerks, NEW p \in Obligations, Opens(c, p) PROVE Outstanding(o)
    BY <2>3, <2>5 DEF Opens
  <2> QED BY <2>2, <2>4, <2>5, BookStepKinds
<1> QED BY <1>1, TypeCorrect, PTL DEF Spec, OutForGood

(* The order of the files, on a clock that never goes back: nothing is     *)
(* stamped in the future, and the settled record of an obligation is not   *)
(* stamped before its recorded one.                                        *)
StampsInOrder ==
    \A o \in Obligations :
        /\ \A f \in books[o] : f.stamp <= now
        /\ \A f, g \in books[o] :
              f.state = "recorded" /\ g.state = "settled" => f.stamp <= g.stamp

LEMMA StampsStep ==
    ASSUME ~ClockMayStepBack, TypeOK, TypeOK', StampsInOrder, [Next]_vars
    PROVE  StampsInOrder'
<1>t. /\ now \in Nat /\ now' \in Nat
      /\ \A o \in Obligations : books[o] \subseteq File
      /\ \A f \in File : f.stamp \in Nat
  BY DEF TypeOK, File
<1>1. CASE UNCHANGED books /\ now' >= now
  <2>1. \A o \in Obligations : \A f \in books[o] : f.stamp <= now'
    BY <1>t, <1>1 DEF StampsInOrder
  <2> QED BY <1>1, <2>1 DEF StampsInOrder
<1>2. ASSUME NEW o \in Obligations, NEW state, Adds(o, state), now' = now,
             \/ state = "recorded" /\ books[o] = {}
             \/ state = "settled"
      PROVE  StampsInOrder'
  <2> DEFINE new == [stamp |-> now, state |-> state]
  <2>1. books'[o] = books[o] \cup {new}
        /\ \A p \in Obligations \ {o} : books'[p] = books[p]
    BY <1>2 DEF Adds, TypeOK
  <2>2. new.stamp = now /\ new.state = state
    OBVIOUS
  <2> HIDE DEF new
  <2>3. now <= now
    BY <1>t
  <2>4. ASSUME NEW p \in Obligations \ {o} PROVE
            /\ \A f \in books'[p] : f.stamp <= now'
            /\ \A f, g \in books'[p] :
                  f.state = "recorded" /\ g.state = "settled" => f.stamp <= g.stamp
    BY <1>2, <2>1, <2>4 DEF StampsInOrder
  <2>5. \A f \in books'[o] : f.stamp <= now'
    BY <1>2, <2>1, <2>2, <2>3 DEF StampsInOrder
  <2>6. \A f, g \in books'[o] :
           f.state = "recorded" /\ g.state = "settled" => f.stamp <= g.stamp
    BY <1>2, <2>1, <2>2 DEF StampsInOrder
  <2> QED BY <2>4, <2>5, <2>6 DEF StampsInOrder
<1>3. CASE Rest
  BY <1>1, <1>3 DEF Rest
<1>4. ASSUME NEW c \in Clerks, Closes(c) \/ Moves(c) PROVE StampsInOrder'
  <2>1. target[c] \in Obligations
    BY DEF TypeOK
  <2>2. CASE Closes(c)
    BY <1>2, <2>1, <2>2 DEF Closes
  <2>3. CASE Moves(c)
    <3>1. now' >= now
      BY <1>t, <2>3 DEF Moves
    <3> QED BY <1>1, <2>3, <3>1 DEF Moves
  <2> QED BY <1>4, <2>2, <2>3
<1>5. ASSUME NEW c \in Clerks, NEW o \in Obligations, Opens(c, o) PROVE StampsInOrder'
  BY <1>2, <1>5 DEF Opens
<1> QED BY <1>3, <1>4, <1>5, BookStepKinds

(* outstanding() tells the truth as long as the wall clock does not go     *)
(* back, however the writes of the clerks fall on its ticks.               *)
THEOREM OutstandingAccurateHolds ==
    ASSUME ~ClockMayStepBack
    PROVE  Spec => []OutstandingAccurate
<1>1. Init => StampsInOrder
  BY DEF Init, StampsInOrder
<1>2. TypeOK /\ TypeOK' /\ StampsInOrder /\ [Next]_vars => StampsInOrder'
  BY StampsStep
<1>3. TypeOK /\ OpenedOnce /\ StampsInOrder => OutstandingAccurate
  <2> SUFFICES ASSUME TypeOK, OpenedOnce, StampsInOrder,
                      NEW o \in Obligations
               PROVE  Outstanding(o) <=> Booked(o, "recorded") /\ ~Booked(o, "settled")
    BY DEF OutstandingAccurate
  <2>t. \A f \in books[o] : f.stamp \in Nat /\ f.state \in {"recorded", "settled"}
    BY DEF TypeOK, File
  <2>1. ASSUME NEW f \in books[o], f.state = "recorded",
               NEW g \in books[o], g.state = "settled"
        PROVE  ~NotAfter(g, f)
    <3>1. f.stamp <= g.stamp
      BY <2>1 DEF StampsInOrder
    <3> QED BY <2>1, <2>t, <3>1 DEF NotAfter
  <2>2. Outstanding(o) => Booked(o, "recorded") /\ ~Booked(o, "settled")
    BY <2>1 DEF Outstanding, Booked
  <2>3. Booked(o, "recorded") /\ ~Booked(o, "settled") => Outstanding(o)
    BY UnsettledIsOutstanding
  <2> QED BY <2>2, <2>3
<1> QED BY <1>1, <1>2, <1>3, TypeCorrect, OpenedOnceHolds, PTL DEF Spec

-------------------------------------------------------------------------------
(* Who may still cause a payment of o: the clerks that hold an object      *)
(* awaiting settlement, unless they have paid and are about to write.      *)
Waiting(o) ==
    {c \in Clerks : held[c][o] = "recorded" /\ ~(pc[c] = "paid" /\ target[c] = o)}

PaymentsInv ==
    /\ \A o \in Obligations :
          paid[o] + Cardinality(Waiting(o)) <= grants[o] + interrupted[o]
    /\ \A c \in Clerks :
          pc[c] \in {"checked", "paid"} => held[c][target[c]] = "recorded"

LEMMA CountOnce ==
    ASSUME NEW W \in SUBSET Clerks, NEW V \in SUBSET Clerks, NEW c \in Clerks
    PROVE  /\ Cardinality(W) \in Nat
           /\ V \subseteq W => Cardinality(V) <= Cardinality(W)
           /\ V = W \ {c} /\ c \in W => Cardinality(V) = Cardinality(W) - 1
           /\ V \subseteq W \cup {c} => Cardinality(V) <= Cardinality(W) + 1
<1>1. IsFiniteSet(W) /\ IsFiniteSet(V)
  BY SettlementAssumption, FS_Subset
<1>2. Cardinality(W) \in Nat
  BY <1>1, FS_CardinalityType
<1>3. V \subseteq W => Cardinality(V) <= Cardinality(W)
  BY <1>1, FS_Subset
<1>4. V = W \ {c} /\ c \in W => Cardinality(V) = Cardinality(W) - 1
  BY <1>1, FS_RemoveElement
<1>5. ASSUME V \subseteq W \cup {c} PROVE Cardinality(V) <= Cardinality(W) + 1
  <2>1. IsFiniteSet(W \cup {c}) /\ Cardinality(W \cup {c}) \in {Cardinality(W), Cardinality(W) + 1}
    BY <1>1, FS_AddElement
  <2>2. Cardinality(V) <= Cardinality(W \cup {c})
    BY <1>5, <2>1, FS_Subset
  <2>3. Cardinality(V) \in Nat
    BY <1>1, FS_CardinalityType
  <2> QED BY <1>2, <2>1, <2>2, <2>3
<1> QED BY <1>2, <1>3, <1>4, <1>5

LEMMA PaymentsStep ==
    ASSUME ~KeepsHandle, TypeOK, TypeOK', PaymentsInv, [Next]_vars
    PROVE  PaymentsInv'
<1> DEFINE Sum(o) == paid[o] + Cardinality(Waiting(o)) <= grants[o] + interrupted[o]
           Holds(c) == pc[c] \in {"checked", "paid"} => held[c][target[c]] = "recorded"
<1>t. \A o \in Obligations :
         /\ {paid[o], grants[o], interrupted[o]} \subseteq Nat
         /\ {paid'[o], grants'[o], interrupted'[o]} \subseteq Nat
         /\ Waiting(o) \in SUBSET Clerks /\ Waiting(o)' \in SUBSET Clerks
  BY DEF TypeOK, Waiting
<1>h. (\A o \in Obligations : Sum(o)) /\ \A c \in Clerks : Holds(c)
  BY DEF PaymentsInv
<1>1. ASSUME NEW o \in Obligations,
             Waiting(o)' \subseteq Waiting(o), paid'[o] = paid[o],
             grants'[o] >= grants[o], interrupted'[o] >= interrupted[o]
      PROVE  Sum(o)'
  <2> DEFINE w == Cardinality(Waiting(o))
             v == Cardinality(Waiting(o)')
  <2>1. v <= w /\ v \in Nat /\ w \in Nat
    BY <1>1, <1>t, SettlementAssumption, FS_Subset, FS_CardinalityType
  <2>2. paid[o] + w <= grants[o] + interrupted[o]
    BY <1>h
  <2> HIDE DEF v, w
  <2>3. paid'[o] + v <= grants'[o] + interrupted'[o]
    BY <1>1, <1>t, <2>1, <2>2
  <2> QED BY <2>3 DEF v
<1>2. ASSUME NEW o \in Obligations, NEW c \in Clerks,
             Waiting(o)' \subseteq Waiting(o) \cup {c}, paid'[o] = paid[o],
             grants'[o] + interrupted'[o] = grants[o] + interrupted[o] + 1
      PROVE  Sum(o)'
  <2> DEFINE w == Cardinality(Waiting(o))
             v == Cardinality(Waiting(o)')
  <2>1. v <= w + 1 /\ v \in Nat /\ w \in Nat
    BY <1>2, <1>t, CountOnce
  <2>2. paid[o] + w <= grants[o] + interrupted[o]
    BY <1>h
  <2> HIDE DEF v, w
  <2>3. paid'[o] + v <= grants'[o] + interrupted'[o]
    BY <1>2, <1>t, <2>1, <2>2
  <2> QED BY <2>3 DEF v
<1>3. ASSUME NEW o \in Obligations, NEW c \in Clerks, paid'[o] = paid[o] + 1,
             grants'[o] = grants[o],
             \/ /\ c \in Waiting(o) /\ Waiting(o)' = Waiting(o) \ {c}
                /\ interrupted'[o] = interrupted[o]
             \/ Waiting(o)' = Waiting(o) /\ interrupted'[o] = interrupted[o] + 1
      PROVE  Sum(o)'
  <2> DEFINE w == Cardinality(Waiting(o))
             v == Cardinality(Waiting(o)')
  <2>1. /\ v \in Nat /\ w \in Nat
        /\ \/ v = w - 1 /\ interrupted'[o] = interrupted[o]
           \/ v = w /\ interrupted'[o] = interrupted[o] + 1
    BY <1>3, <1>t, CountOnce
  <2>2. paid[o] + w <= grants[o] + interrupted[o]
    BY <1>h
  <2> HIDE DEF v, w
  <2>3. paid'[o] + v <= grants'[o] + interrupted'[o]
    BY <1>3, <1>t, <2>1, <2>2
  <2> QED BY <2>3 DEF v
<1>n. \A o \in Obligations :
         /\ {paid[o], grants[o], interrupted[o]} \subseteq Int
         /\ grants[o] >= grants[o] /\ interrupted[o] >= interrupted[o]
         /\ interrupted[o] + 1 >= interrupted[o]
         /\ grants[o] + 1 + interrupted[o] = grants[o] + interrupted[o] + 1
         /\ grants[o] + (interrupted[o] + 1) = grants[o] + interrupted[o] + 1
  BY <1>t
<1>4. ASSUME NEW c \in Clerks, ClerkStep(c) PROVE \A o \in Obligations : Sum(o)'
  <2> SUFFICES ASSUME NEW o \in Obligations PROVE Sum(o)'
    OBVIOUS
  <2> HIDE DEF Sum, Holds
  <2>t. target[c] \in Obligations
    BY DEF TypeOK
  <2>w. ASSUME pc'[c] # "paid" \/ target'[c] # o, UNCHANGED held,
               \A d \in Clerks \ {c} : pc'[d] = pc[d] /\ target'[d] = target[d]
        PROVE  /\ Waiting(o)' \subseteq Waiting(o) \cup {c}
               /\ ~(pc[c] = "paid" /\ target[c] = o) => Waiting(o)' = Waiting(o)
    BY <2>w DEF Waiting
  <2>1. ASSUME NEW p \in Obligations, Record(c, p) \/ Load(c, p) PROVE Sum(o)'
    <3>1. CASE p = o
      <4>1. Waiting(o)' \subseteq Waiting(o) \cup {c}
        BY <2>1, <3>1 DEF Record, Load, Grant, Waiting, TypeOK
      <4> QED BY <1>2, <1>n, <2>1, <3>1, <4>1 DEF Record, Load, Grant, TypeOK
    <3>2. CASE p # o
      <4>0. \A d \in Clerks : held'[d][o] = held[d][o]
        <5>1. Grant(c, p) /\ held \in [Clerks -> [Obligations -> {"none", "recorded", "settled"}]]
          BY <2>1 DEF Record, Load, TypeOK
        <5> QED BY <5>1, <3>2 DEF Grant
      <4>1. Waiting(o)' = Waiting(o)
        BY <2>1, <4>0 DEF Record, Load, Waiting
      <4> QED BY <1>1, <1>n, <2>1, <3>2, <4>1 DEF Record, Load, Grant, TypeOK
    <3> QED BY <3>1, <3>2
  <2>2. ASSUME NEW p \in Obligations, RecordUnacknowledged(c, p) PROVE Sum(o)'
    <3>1. Waiting(o)' = Waiting(o)
      BY <2>2 DEF RecordUnacknowledged, Waiting, clerkVars
    <3> QED BY <1>1, <1>n, <2>2, <3>1 DEF RecordUnacknowledged, historyVars
  <2>3. ASSUME NEW p \in Obligations, ReadTreasury(c, p) PROVE Sum(o)'
    <3>1. Waiting(o)' = Waiting(o)
      BY <2>3, <2>w DEF ReadTreasury, TypeOK
    <3> QED BY <1>1, <1>n, <2>3, <3>1 DEF ReadTreasury, historyVars
  <2>4. ASSUME NEW approved \in BOOLEAN, Check(c, approved) \/ Refuse(c, approved)
        PROVE  Sum(o)'
    <3>1. Waiting(o)' = Waiting(o)
      BY <2>4, <2>w DEF Check, Refuse, EndCall, TypeOK
    <3> QED BY <1>1, <1>n, <2>4, <3>1 DEF Check, Refuse, historyVars
  <2>5. CASE Pay(c)
    <3>1. held[c][target[c]] = "recorded"
      BY <2>5, <1>h DEF Pay, Holds
    <3>2. CASE o = target[c]
      <4>1. c \in Waiting(o) /\ Waiting(o)' = Waiting(o) \ {c}
        BY <2>5, <3>1, <3>2 DEF Pay, Waiting, TypeOK
      <4>2. paid'[o] = paid[o] + 1 /\ grants'[o] = grants[o] /\ interrupted'[o] = interrupted[o]
        BY <2>5, <3>2 DEF Pay, MoveValue, TypeOK
      <4> QED BY <1>3, <4>1, <4>2
    <3>3. CASE o # target[c]
      <4>1. Waiting(o)' = Waiting(o)
        BY <2>5, <3>3 DEF Pay, Waiting, TypeOK
      <4> QED BY <1>1, <1>n, <2>5, <3>3, <4>1 DEF Pay, MoveValue, TypeOK
    <3> QED BY <3>2, <3>3
  <2>6. CASE PayFails(c)
    <3>1. Waiting(o)' = Waiting(o)
      BY <2>6, <2>w DEF PayFails, EndCall, TypeOK
    <3> QED BY <1>1, <1>n, <2>6, <3>1 DEF PayFails, historyVars
  <2>7. CASE PayUnacknowledged(c)
    <3>1. Waiting(o)' = Waiting(o)
      BY <2>7, <2>w DEF PayUnacknowledged, EndCall, TypeOK
    <3>2. CASE o = target[c]
      <4>1. /\ paid'[o] = paid[o] + 1 /\ grants'[o] = grants[o]
            /\ interrupted'[o] = interrupted[o] + 1
        BY <2>7, <3>2 DEF PayUnacknowledged, MoveValue, Interrupt, TypeOK
      <4> QED BY <1>3, <3>1, <4>1
    <3>3. CASE o # target[c]
      BY <1>1, <1>n, <2>7, <3>1, <3>3 DEF PayUnacknowledged, MoveValue, Interrupt, TypeOK
    <3> QED BY <3>2, <3>3
  <2>8. CASE Finish(c)
    <3>1. Waiting(o)' \subseteq Waiting(o)
      BY <2>8 DEF Finish, EndCall, Waiting, TypeOK
    <3> QED BY <1>1, <1>n, <2>8, <3>1 DEF Finish, historyVars
  <2>9. CASE WriteFails(c)
    <3>1. CASE o = target[c]
      <4>1. Waiting(o)' \subseteq Waiting(o) \cup {c}
        BY <2>9, <2>w DEF WriteFails, EndCall, TypeOK
      <4>2. /\ paid'[o] = paid[o] /\ grants'[o] = grants[o]
            /\ interrupted'[o] = interrupted[o] + 1
        BY <2>9, <3>1 DEF WriteFails, Interrupt, TypeOK
      <4> QED BY <1>2, <1>n, <4>1, <4>2
    <3>2. CASE o # target[c]
      <4>1. Waiting(o)' = Waiting(o)
        BY <2>9, <2>w, <3>2 DEF WriteFails, EndCall, TypeOK
      <4> QED BY <1>1, <1>n, <2>9, <3>2, <4>1 DEF WriteFails, Interrupt, TypeOK
    <3> QED BY <3>1, <3>2
  <2>10. CASE Crash(c)
    <3>1. Waiting(o)' \subseteq Waiting(o)
      BY <2>10 DEF Crash, EndCall, Waiting, TypeOK
    <3>2. interrupted'[o] >= interrupted[o]
      BY <2>10, <2>t, <1>n DEF Crash, Interrupt, TypeOK
    <3> QED BY <1>1, <1>n, <2>10, <3>1, <3>2 DEF Crash
  <2> QED BY <1>4, <2>1, <2>2, <2>3, <2>4, <2>5, <2>6, <2>7, <2>8, <2>9, <2>10
          DEF ClerkStep
<1>5. ASSUME NEW c \in Clerks, ClerkStep(c) PROVE \A d \in Clerks : Holds(d)'
  <2> SUFFICES ASSUME NEW d \in Clerks, pc'[d] \in {"checked", "paid"}
               PROVE  held'[d][target'[d]] = "recorded"
    OBVIOUS
  <2>1. CASE d # c
    <3>1. pc'[d] = pc[d] /\ target'[d] = target[d] /\ held'[d] = held[d]
      BY <1>5, <2>1 DEF ClerkStep, Record, RecordUnacknowledged, Load, Grant,
         ReadTreasury, Check, Refuse, Pay, PayFails, PayUnacknowledged, Finish,
         WriteFails, Crash, EndCall, clerkVars, TypeOK
    <3> QED BY <1>h, <3>1
  <2>2. CASE d = c
    <3>1. Pay(c) \/ \E approved \in BOOLEAN : Check(c, approved)
      BY <1>5, <2>2 DEF ClerkStep, Record, RecordUnacknowledged, Load, ReadTreasury,
         Refuse, PayFails, PayUnacknowledged, Finish, WriteFails, Crash, EndCall,
         clerkVars, TypeOK
    <3> QED BY <1>h, <2>2, <3>1 DEF Pay, Check
  <2> QED BY <2>1, <2>2
<1>6. CASE World \/ UNCHANGED vars
  <2>1. UNCHANGED <<clerkVars, historyVars>>
    BY <1>6 DEF World, TopUp, Midnight, ClockMoves, vars
  <2>2. ASSUME NEW o \in Obligations PROVE Sum(o)'
    <3>1. Waiting(o)' = Waiting(o)
      BY <2>1 DEF Waiting, clerkVars
    <3> QED BY <1>1, <1>n, <2>1, <3>1 DEF historyVars
  <2> QED BY <1>h, <2>1, <2>2 DEF clerkVars, PaymentsInv
<1> QED BY <1>4, <1>5, <1>6 DEF Next, PaymentsInv

(* Retries, reloads, crashes and races included, value moves no more often *)
(* than there were objects awaiting settlement and calls cut short.        *)
THEOREM PaymentsAccountedHolds ==
    ASSUME ~KeepsHandle
    PROVE  Spec => []PaymentsAccounted
<1>1. Init => PaymentsInv
  <2> SUFFICES ASSUME Init PROVE PaymentsInv
    OBVIOUS
  <2>1. \A o \in Obligations : Waiting(o) = {}
    BY DEF Init, Waiting
  <2>2. \A o \in Obligations :
           paid[o] + Cardinality(Waiting(o)) = 0 /\ grants[o] + interrupted[o] = 0
    BY <2>1, FS_EmptySet DEF Init
  <2>3. 0 <= 0
    OBVIOUS
  <2>4. \A c \in Clerks : pc[c] = "idle"
    BY DEF Init
  <2> QED BY <2>2, <2>3, <2>4 DEF PaymentsInv
<1>2. TypeOK /\ TypeOK' /\ PaymentsInv /\ [Next]_vars => PaymentsInv'
  BY PaymentsStep
<1>3. TypeOK /\ PaymentsInv => PaymentsAccounted
  <2> SUFFICES ASSUME TypeOK, PaymentsInv, NEW o \in Obligations
               PROVE  paid[o] <= grants[o] + interrupted[o]
    BY DEF PaymentsAccounted
  <2>1. Waiting(o) \in SUBSET Clerks
    BY DEF Waiting
  <2>2. Cardinality(Waiting(o)) \in Nat
    BY <2>1, SomeClerks
  <2>3. paid[o] \in Nat /\ grants[o] \in Nat /\ interrupted[o] \in Nat
    BY DEF TypeOK
  <2>4. paid[o] + Cardinality(Waiting(o)) <= grants[o] + interrupted[o]
    BY DEF PaymentsInv
  <2> QED BY <2>2, <2>3, <2>4
<1> QED BY <1>1, <1>2, <1>3, TypeCorrect, PTL DEF Spec
===============================================================================
