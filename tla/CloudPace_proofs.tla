--------------------------- MODULE CloudPace_proofs ---------------------------
(***************************************************************************)
(* Theorems about CloudPace, for every set of paces, every back-off and any  *)
(* bounds.  The argument for the cap: the requests of the last Minute are a  *)
(* suffix of `sent`, so the oldest of them is found by counting; if there    *)
(* are at least cap of them the wait lasts until the oldest leaves, and by   *)
(* MinuteCap so far the one before it has left already.                      *)
(***************************************************************************)
EXTENDS CloudPace, FiniteSetTheorems, SequenceTheorems, TLAPS

InWait == {"stopped?", "paused?", "version?", "left?"}

(* The clock at the requests never runs back. *)
Order ==
  /\ \A i, j \in DOMAIN sent : i <= j => sent[i] <= sent[j]
  /\ \A i \in DOMAIN sent : sent[i] <= clock

(* A request at time t would respect the cap, and the delay. *)
CapOpen(t) == Len(sent) >= MaxCap => t >= sent[Len(sent) - MaxCap + 1] + Minute
GapOpen(t) == Len(sent) >= 1 => t >= sent[Len(sent)] + MinDelay
Open(t) == CapOpen(t) /\ GapOpen(t)

(* What a wait for the pace has established at each point of it. *)
PaceInv ==
  /\ pc = "send" => Open(clock)
  /\ pc = "enter" /\ kind = "pace" => Open(clock + secs)
  /\ pc \in InWait /\ kind = "pace" => Open(end)

PacedInv == TypeOK /\ Order /\ MinuteCap /\ Spacing /\ PaceInv

(* The counted requests are the last ones. *)
LEMMA WindowIsSuffix ==
  ASSUME TypeOK, Order
  PROVE  /\ Cardinality(InWindow(clock)) \in 0 .. Len(sent)
         /\ InWindow(clock) = (Len(sent) - Cardinality(InWindow(clock)) + 1) .. Len(sent)
<1> DEFINE n == Len(sent)
           W == InWindow(clock)
           c == Cardinality(W)
<1>1. n \in Nat /\ DOMAIN sent = 1 .. n /\ clock \in Int /\ Minute \in Int
  BY PaceAssumption DEF TypeOK
<1>2. \A i \in 1 .. n : sent[i] \in Nat
  BY <1>1 DEF TypeOK
<1>3. W \subseteq 1 .. n
  BY <1>1 DEF InWindow
<1>4. IsFiniteSet(1 .. n) /\ Cardinality(1 .. n) = n
  <2>1. /\ IsFiniteSet(1 .. n)
        /\ Cardinality(1 .. n) = IF 1 > n THEN 0 ELSE n - 1 + 1
    BY <1>1, FS_Interval
  <2> QED BY <1>1, <2>1
<1>5. IsFiniteSet(W) /\ c <= n
  BY <1>3, <1>4, FS_Subset
<1>6. c \in Nat
  BY <1>5, FS_CardinalityType
<1>7. \A i \in W, j \in 1 .. n : i <= j => j \in W
  BY <1>1, <1>2, <1>3 DEF Order, InWindow
<1>8. \A j \in W : n - j + 1 <= c
  <2> TAKE j \in W
  <2>1. j .. n \subseteq W
    BY <1>1, <1>3, <1>7
  <2>2. Cardinality(j .. n) = n - j + 1
    BY <1>1, <1>3, FS_Interval
  <2>3. Cardinality(j .. n) <= Cardinality(W)
    BY <1>5, <2>1, FS_Subset
  <2> QED BY <2>2, <2>3
<1>9. W \subseteq (n - c + 1) .. n
  BY <1>1, <1>3, <1>6, <1>8
<1>10. /\ IsFiniteSet((n - c + 1) .. n)
       /\ Cardinality((n - c + 1) .. n) = c
  <2>1. n - c + 1 \in Int /\ n \in Int
    BY <1>1, <1>6
  <2>2. /\ IsFiniteSet((n - c + 1) .. n)
        /\ Cardinality((n - c + 1) .. n)
             = IF n - c + 1 > n THEN 0 ELSE n - (n - c + 1) + 1
    BY <2>1, FS_Interval
  <2> QED BY <1>1, <1>6, <2>2
<1>11. W = (n - c + 1) .. n
  BY <1>9, <1>10, FS_Subset
<1> QED BY <1>1, <1>5, <1>6, <1>11

(* The oldest counted request, by the count. *)
LEMMA OldestOfWindow ==
  ASSUME TypeOK, Order, Cardinality(InWindow(clock)) >= 1
  PROVE  /\ Oldest(clock) = Len(sent) - Cardinality(InWindow(clock)) + 1
         /\ Oldest(clock) \in 1 .. Len(sent)
<1> DEFINE o == Len(sent) - Cardinality(InWindow(clock)) + 1
<1>1. Len(sent) \in Nat /\ Cardinality(InWindow(clock)) \in 1 .. Len(sent)
  BY WindowIsSuffix DEF TypeOK
<1>2. InWindow(clock) = o .. Len(sent)
  BY WindowIsSuffix
<1>3. o \in 1 .. Len(sent)
  BY <1>1
<1>4. o \in InWindow(clock) /\ \A j \in InWindow(clock) : o <= j
  BY <1>2, <1>3
<1>5. \A i \in InWindow(clock) : (\A j \in InWindow(clock) : i <= j) => i = o
  BY <1>2, <1>3, <1>4
<1>6. Oldest(clock) = o
  BY <1>4, <1>5 DEF Oldest
<1> QED BY <1>3, <1>6

(* The wait _pace_wait asks for is enough: when it is over, a request is due
   by the cap and by the delay. *)
LEMMA PaceWaitOpens ==
  ASSUME TypeOK, Order, MinuteCap,
         NEW p \in Paces, NEW gap \in Int, gap >= p.delay
  PROVE  PaceWait(p, gap) \in Nat /\ Open(clock + PaceWait(p, gap))
<1> DEFINE n == Len(sent)
           c == Cardinality(InWindow(clock))
           w == PaceWait(p, gap)
           k == n - MaxCap + 1
<1>1. /\ n \in Nat /\ DOMAIN sent = 1 .. n /\ clock \in Int
      /\ MaxCap \in Nat \ {0} /\ MinDelay \in Nat /\ Minute \in Nat
      /\ p.cap \in 1 .. MaxCap /\ p.delay \in Nat /\ p.delay >= MinDelay
  BY PaceAssumption DEF TypeOK
<1>2. \A i \in 1 .. n : sent[i] \in Nat
  BY <1>1 DEF TypeOK
<1>3. c \in 0 .. n /\ InWindow(clock) = (n - c + 1) .. n
  BY WindowIsSuffix
<1>4. CASE n = 0
  <2>1. sent = <<>> /\ c = 0
    BY <1>1, <1>3, <1>4, EmptySeq DEF TypeOK
  <2>2. w = 0
    BY <1>1, <2>1 DEF PaceWait, CapReached
  <2> QED BY <1>1, <1>4, <2>2 DEF Open, CapOpen, GapOpen
<1>5. CASE n >= 1
  <2> DEFINE apart == MaxOf(0, gap - (clock - Last))
  <2>1. sent # <<>> /\ Last \in Nat /\ Last = sent[n]
    BY <1>1, <1>2, <1>5 DEF Last
  <2>2. apart \in Nat /\ clock + apart >= Last + MinDelay
    <3>1. /\ apart \in Int /\ apart >= 0
          /\ apart >= gap - (clock - Last)
      BY <1>1, <2>1 DEF MaxOf
    <3> QED BY <1>1, <2>1, <3>1
  <2> HIDE DEF apart
  <2>3. CASE CapReached(p)
    <3> DEFINE o == n - c + 1
    <3>1. c >= 1 /\ o \in 1 .. n /\ Oldest(clock) = o
      BY <1>1, <1>3, <2>3, OldestOfWindow DEF CapReached
    <3>2. w = MaxOf(apart, Minute - (clock - sent[o]))
      BY <2>1, <2>3, <3>1 DEF PaceWait, apart
    <3>3. w \in Int /\ w >= apart /\ clock + w >= sent[o] + Minute
      <4>1. /\ w \in Int /\ w >= apart
            /\ w >= Minute - (clock - sent[o])
        BY <1>1, <1>2, <2>2, <3>1, <3>2 DEF MaxOf
      <4> QED BY <1>1, <1>2, <3>1, <4>1
    <3> HIDE DEF w
    <3>4. ASSUME n >= MaxCap PROVE k <= o
      <4>1. SUFFICES ASSUME o + MaxCap <= n PROVE FALSE
        BY <1>1, <3>1
      <4>2. o \in InWindow(clock)
        BY <1>3, <3>1
      <4>3. clock - sent[o] < Minute
        BY <4>2 DEF InWindow
      <4>4. o + MaxCap \in DOMAIN sent /\ o \in DOMAIN sent
        BY <1>1, <3>1, <4>1
      <4>5. sent[o + MaxCap] - sent[o] >= Minute /\ sent[o + MaxCap] <= clock
        BY <4>4 DEF MinuteCap, Order
      <4> QED BY <1>1, <1>2, <4>3, <4>4, <4>5
    <3>5. CapOpen(clock + w)
      <4>1. SUFFICES ASSUME n >= MaxCap PROVE clock + w >= sent[k] + Minute
        BY DEF CapOpen
      <4>2. k \in 1 .. n /\ k <= o
        BY <1>1, <3>4, <4>1
      <4>3. sent[k] <= sent[o]
        BY <1>1, <3>1, <4>2 DEF Order
      <4> QED BY <1>1, <1>2, <3>1, <3>3, <4>2, <4>3
    <3>6. GapOpen(clock + w)
      BY <1>1, <2>1, <2>2, <3>3 DEF GapOpen
    <3> QED BY <2>2, <3>3, <3>5, <3>6 DEF Open, w
  <2>4. CASE ~ CapReached(p)
    <3>1. w = apart
      BY <2>1, <2>4 DEF PaceWait, apart
    <3>2. CapOpen(clock + w)
      <4>1. SUFFICES ASSUME n >= MaxCap PROVE clock + w >= sent[k] + Minute
        BY DEF CapOpen
      <4>2. c < MaxCap
        BY <1>1, <1>3, <2>4 DEF CapReached
      <4>3. k \in 1 .. n /\ k \notin InWindow(clock)
        BY <1>1, <1>3, <4>1, <4>2
      <4>4. clock - sent[k] >= Minute
        BY <1>1, <1>2, <4>3 DEF InWindow
      <4> QED BY <1>1, <1>2, <2>2, <3>1, <4>3, <4>4
    <3>3. GapOpen(clock + w)
      BY <2>1, <2>2, <3>1 DEF GapOpen
    <3> QED BY <2>2, <3>1, <3>2, <3>3 DEF Open
  <2> QED BY <2>3, <2>4
<1> QED BY <1>1, <1>4, <1>5

(* A step that leaves `sent` alone and never turns the clock back keeps the
   facts about `sent`, and what was open stays open. *)
LEMMA SentUntouched ==
  ASSUME TypeOK, Order, MinuteCap, Spacing, sent' = sent, clock' \in Int, clock' >= clock
  PROVE  /\ Order' /\ MinuteCap' /\ Spacing'
         /\ \A t, u \in Int : Open(t) /\ u >= t => Open(u)'
<1>1. clock \in Int /\ \A i \in DOMAIN sent : sent[i] \in Nat
  BY DEF TypeOK
<1>2. Order' /\ MinuteCap' /\ Spacing'
  BY <1>1 DEF Order, MinuteCap, Spacing
<1>3. ASSUME NEW t \in Int, NEW u \in Int, Open(t), u >= t PROVE Open(u)'
  <2>1. /\ Len(sent) \in Nat /\ DOMAIN sent = 1 .. Len(sent)
        /\ MaxCap \in Nat \ {0} /\ MinDelay \in Nat /\ Minute \in Nat
    BY PaceAssumption DEF TypeOK
  <2>2. CapOpen(u)'
    BY <1>1, <1>3, <2>1 DEF Open, CapOpen
  <2>3. GapOpen(u)'
    BY <1>1, <1>3, <2>1 DEF Open, GapOpen
  <2> QED BY <2>2, <2>3 DEF Open
<1> QED BY <1>2, <1>3

(* A request sent when it is due keeps the cap and the delay. *)
LEMMA SendKeeps ==
  ASSUME TypeOK, Order, MinuteCap, Spacing, Open(clock), sent' = Append(sent, clock), clock' = clock
  PROVE  Order' /\ MinuteCap' /\ Spacing' /\ sent' \in Seq(Nat)
<1> DEFINE n == Len(sent)
<1>1. /\ n \in Nat /\ DOMAIN sent = 1 .. n /\ clock \in Nat
      /\ MaxCap \in Nat \ {0} /\ MinDelay \in Nat /\ Minute \in Nat
      /\ \A i \in 1 .. n : sent[i] \in Nat
  BY PaceAssumption DEF TypeOK
<1>2. /\ sent' \in Seq(Nat) /\ Len(sent') = n + 1 /\ DOMAIN sent' = 1 .. (n + 1)
      /\ sent'[n + 1] = clock
      /\ \A i \in 1 .. n : sent'[i] = sent[i]
  BY <1>1, AppendProperties DEF TypeOK
<1>3. Order'
  BY <1>1, <1>2 DEF Order
<1>4. MinuteCap'
  <2> SUFFICES ASSUME NEW i \in 1 .. (n + 1), i + MaxCap \in 1 .. (n + 1)
               PROVE  sent'[i + MaxCap] - sent'[i] >= Minute
    BY <1>2 DEF MinuteCap
  <2>1. i \in 1 .. n
    BY <1>1
  <2>2. CASE i + MaxCap = n + 1
    <3>1. n >= MaxCap /\ i = n - MaxCap + 1
      BY <1>1, <2>1, <2>2
    <3>2. clock >= sent[i] + Minute
      BY <3>1 DEF Open, CapOpen
    <3> QED BY <1>1, <1>2, <2>1, <2>2, <3>2
  <2>3. CASE i + MaxCap # n + 1
    <3>1. i \in DOMAIN sent /\ i + MaxCap \in DOMAIN sent
      BY <1>1, <2>1, <2>3
    <3>2. sent[i + MaxCap] - sent[i] >= Minute
      BY <3>1 DEF MinuteCap
    <3> QED BY <1>1, <1>2, <3>1, <3>2
  <2> QED BY <2>2, <2>3
<1>5. Spacing'
  <2> SUFFICES ASSUME NEW i \in 1 .. n
               PROVE  sent'[i + 1] - sent'[i] >= MinDelay
    BY <1>1, <1>2 DEF Spacing
  <2>1. CASE i = n
    BY <1>1, <1>2, <2>1 DEF Open, GapOpen
  <2>2. CASE i < n
    <3>1. i \in 1 .. n /\ i + 1 \in 1 .. n
      BY <1>1, <2>2
    <3>2. sent[i + 1] - sent[i] >= MinDelay
      BY <1>1, <3>1 DEF Spacing
    <3>3. sent'[i] = sent[i] /\ sent'[i + 1] = sent[i + 1]
      BY <1>2, <3>1
    <3> QED BY <3>2, <3>3
  <2>3. i = n \/ i < n
    <3>1. n \in Nat /\ i \in Int /\ i <= n
      BY <1>1
    <3> HIDE DEF n
    <3> QED BY <3>1
  <2> QED BY <2>1, <2>2, <2>3
<1> QED BY <1>2, <1>3, <1>4, <1>5

(* Every step keeps the invariant; the steps of the window and of the jobs'
   loop change neither the clock nor what a wait has established. *)
LEMMA PacedStep == PacedInv /\ [Next]_vars => PacedInv'
<1> SUFFICES ASSUME PacedInv, [Next]_vars PROVE PacedInv'
  OBVIOUS
<1> USE DEF PacedInv
<1>0. /\ clock \in Nat /\ Horizon \in Nat /\ secs \in Nat /\ end \in Nat /\ version \in Nat
      /\ pace \in Paces /\ pace.delay \in Nat /\ pace.jitter \in Nat
  BY PaceAssumption DEF TypeOK
<1>1. CASE Tick
  <2>1. sent' = sent /\ clock' = clock + 1 /\ clock' \in 0 .. Horizon
    BY <1>0, <1>1 DEF Tick, TypeOK
  <2>2. TypeOK'
    BY <1>1, <2>1 DEF Tick, TypeOK, control, waiting
  <2>3. Order' /\ MinuteCap' /\ Spacing' /\ \A t, u \in Int : Open(t) /\ u >= t => Open(u)'
    BY <1>0, <2>1, SentUntouched
  <2>4. PaceInv'
    BY <1>0, <1>1, <2>1, <2>3 DEF PaceInv, Tick, waiting
  <2> QED BY <2>2, <2>3, <2>4
<1>2. CASE Window
  <2>1. sent' = sent /\ clock' = clock /\ pc' = pc /\ UNCHANGED waiting
    BY <1>2 DEF Window, Update, TogglePause, Stop, Close, Joined, control
  <2>2. TypeOK'
    <3>1. CASE \E p \in Paces : Update(p)
      BY <1>0, <3>1 DEF Update, TypeOK, waiting
    <3>2. CASE TogglePause
      BY <3>2 DEF TogglePause, TypeOK, waiting
    <3>3. CASE Stop \/ Close
      BY <3>3 DEF Stop, Close, TypeOK, waiting
    <3>4. CASE Joined
      BY <3>4 DEF Joined, TypeOK, control, waiting
    <3> QED BY <1>2, <3>1, <3>2, <3>3, <3>4 DEF Window
  <2>3. Order' /\ MinuteCap' /\ Spacing' /\ \A t, u \in Int : Open(t) /\ u >= t => Open(u)'
    BY <1>0, <2>1, SentUntouched
  <2>4. PaceInv'
    BY <1>0, <2>1, <2>3 DEF PaceInv, waiting
  <2> QED BY <2>2, <2>3, <2>4
<1>3. CASE ReadPace
  <2>1. PICK gap \in pace.delay .. (pace.delay + pace.jitter) :
          IF PaceWait(pace, gap) > 0
          THEN Call("pace", PaceWait(pace, gap)) /\ UNCHANGED <<end, seen>>
          ELSE pc' = Proceed /\ UNCHANGED waiting
    BY <1>3 DEF ReadPace
  <2>2. sent' = sent /\ clock' = clock
    BY <1>3 DEF ReadPace
  <2>3. PaceWait(pace, gap) \in Nat /\ Open(clock + PaceWait(pace, gap))
    BY <1>0, PaceWaitOpens
  <2>4. TypeOK'
    BY <1>3, <2>1, <2>3 DEF ReadPace, Call, Proceed, TypeOK, control, waiting
  <2>5. Order' /\ MinuteCap' /\ Spacing' /\ \A t, u \in Int : Open(t) /\ u >= t => Open(u)'
    BY <1>0, <2>2, SentUntouched
  <2>6. PaceInv'
    <3>1. CASE PaceWait(pace, gap) > 0
      BY <1>0, <2>1, <2>2, <2>3, <2>5, <3>1 DEF PaceInv, Call, InWait
    <3>2. CASE ~ (PaceWait(pace, gap) > 0)
      <4>1. PaceWait(pace, gap) = 0 /\ Open(clock)'
        BY <1>0, <2>2, <2>3, <2>5, <3>2
      <4> QED BY <2>1, <2>2, <3>2, <4>1 DEF PaceInv, Proceed, InWait
    <3> QED BY <3>1, <3>2
  <2> QED BY <2>4, <2>5, <2>6
<1>4. CASE EnterWait \/ CheckStopped \/ CheckPaused \/ CheckVersion \/ CheckLeft
  <2>1. sent' = sent /\ clock' \in clock .. (clock + 1) /\ clock' \in 0 .. Horizon
    BY <1>0, <1>4 DEF EnterWait, CheckStopped, CheckPaused, CheckVersion, CheckLeft, Slept, TypeOK
  <2>2. TypeOK'
    <3>1. CASE EnterWait
      BY <1>0, <3>1 DEF EnterWait, WaitEnd, TypeOK, control
    <3>2. CASE CheckStopped
      BY <3>2 DEF CheckStopped, Return, TypeOK, control, waiting
    <3>3. CASE CheckPaused
      BY <1>0, <2>1, <3>3 DEF CheckPaused, AfterNap, TypeOK, control
    <3>4. CASE CheckVersion
      BY <3>4 DEF CheckVersion, Return, TypeOK, control, waiting
    <3>5. CASE CheckLeft
      BY <2>1, <3>5 DEF CheckLeft, Return, TypeOK, control, waiting
    <3> QED BY <1>4, <3>1, <3>2, <3>3, <3>4, <3>5
  <2>3. Order' /\ MinuteCap' /\ Spacing' /\ \A t, u \in Int : Open(t) /\ u >= t => Open(u)'
    BY <1>0, <2>1, SentUntouched
  <2>4. CASE EnterWait
    BY <1>0, <2>1, <2>3, <2>4, <2>2 DEF EnterWait, WaitEnd, PaceInv, InWait
  <2>5. CASE CheckStopped
    BY <1>0, <2>1, <2>3, <2>5, <2>2 DEF CheckStopped, Return, PaceInv, InWait, waiting
  <2>6. CASE CheckPaused
    BY <1>0, <2>1, <2>3, <2>6, <2>2 DEF CheckPaused, AfterNap, PaceInv, InWait, waiting
  <2>7. CASE CheckVersion
    BY <1>0, <2>1, <2>3, <2>7, <2>2 DEF CheckVersion, Return, PaceInv, InWait, waiting
  <2>8. CASE CheckLeft
    BY <1>0, <2>1, <2>3, <2>8, <2>2 DEF CheckLeft, Return, PaceInv, InWait, waiting, TypeOK
  <2> QED BY <1>4, <2>4, <2>5, <2>6, <2>7, <2>8
<1>5. CASE Send
  <2>1. sent' = Append(sent, clock) /\ clock' = clock /\ pc' = "fetch" /\ Open(clock)
    BY <1>5 DEF Send, PaceInv
  <2>2. Order' /\ MinuteCap' /\ Spacing' /\ sent' \in Seq(Nat)
    BY <2>1, SendKeeps
  <2>3. TypeOK'
    BY <1>5, <2>2 DEF Send, TypeOK, control, waiting
  <2>4. PaceInv'
    BY <2>1 DEF PaceInv, InWait
  <2> QED BY <2>2, <2>3, <2>4
<1>6. CASE NextJob \/ FetchEnds \/ \E b \in Backoffs : FetchFails(b)
  <2>1. sent' = sent /\ clock' = clock
    BY <1>6 DEF NextJob, FetchEnds, FetchFails
  <2>2. TypeOK'
    <3>1. \A b \in Backoffs : BackoffWait(b) \in Nat
      BY PaceAssumption DEF BackoffWait, MaxOf
    <3>2. CASE NextJob
      BY <3>2 DEF NextJob, TypeOK, control, waiting
    <3>3. CASE FetchEnds
      BY <3>3 DEF FetchEnds, TypeOK, control, waiting
    <3>4. CASE \E b \in Backoffs : FetchFails(b)
      BY <1>0, <3>1, <3>4 DEF FetchFails, Call, TypeOK, control
    <3> QED BY <1>6, <3>2, <3>3, <3>4
  <2>3. Order' /\ MinuteCap' /\ Spacing'
    BY <1>0, <2>1, SentUntouched
  <2>4. PaceInv'
    BY <1>6 DEF NextJob, FetchEnds, FetchFails, Call, PaceInv, InWait, waiting
  <2> QED BY <2>2, <2>3, <2>4
<1>7. CASE UNCHANGED vars \/ Finished
  <2>1. UNCHANGED vars
    BY <1>7 DEF Finished
  <2>2. sent' = sent /\ clock' = clock /\ pc' = pc /\ UNCHANGED waiting
    BY <2>1 DEF vars, waiting
  <2>3. Order' /\ MinuteCap' /\ Spacing' /\ \A t, u \in Int : Open(t) /\ u >= t => Open(u)'
    BY <1>0, <2>2, SentUntouched
  <2>4. PaceInv' /\ TypeOK'
    BY <1>0, <2>1, <2>2, <2>3 DEF PaceInv, TypeOK, vars, waiting, control
  <2> QED BY <2>3, <2>4
<1> QED BY <1>1, <1>2, <1>3, <1>4, <1>5, <1>6, <1>7 DEF Next, Engine

LEMMA PacedInit == Init => PacedInv
<1> SUFFICES ASSUME Init PROVE PacedInv
  OBVIOUS
<1>1. sent = <<>> /\ DOMAIN sent = {} /\ Len(sent) = 0
  BY DEF Init
<1>2. TypeOK
  <2>1. clock \in 0 .. Horizon /\ sent \in Seq(Nat)
    BY PaceAssumption DEF Init
  <2>2. late \in Nat /\ owed \in [until : Nat, version : Nat]
    BY DEF Init
  <2> QED BY <2>1, <2>2 DEF Init, TypeOK
<1>3. Order /\ MinuteCap /\ Spacing /\ PaceInv
  BY <1>1 DEF Init, Order, MinuteCap, Spacing, PaceInv, InWait
<1> QED BY <1>2, <1>3 DEF PacedInv

(* The state is well typed, the waits asked for are never negative. *)
THEOREM TypeCorrect == Spec => []TypeOK
<1>1. PacedInv => TypeOK
  BY DEF PacedInv
<1> QED BY <1>1, PacedInit, PacedStep, PTL DEF Spec

(* Any Minute of any run holds at most MaxCap requests. *)
THEOREM CapRespected == Spec => []MinuteCap
<1>1. PacedInv => MinuteCap
  BY DEF PacedInv
<1> QED BY <1>1, PacedInit, PacedStep, PTL DEF Spec

(* Two requests of any run are at least MinDelay apart. *)
THEOREM DelayRespected == Spec => []Spacing
<1>1. PacedInv => Spacing
  BY DEF PacedInv
<1> QED BY <1>1, PacedInit, PacedStep, PTL DEF Spec
-----------------------------------------------------------------------------
(* Once a request was sent after stop, the engine's thread can only end. *)
StopInv ==
  \/ late = 0
  \/ /\ late = 1 /\ stopped
     /\ pc \in {"fetch", "loop", "pace", "enter", "stopped?", "done"}

LEMMA StopStep == TypeOK /\ StopInv /\ [Next]_vars => StopInv'
<1> SUFFICES ASSUME TypeOK, StopInv, [Next]_vars PROVE StopInv'
  OBVIOUS
<1> USE DEF StopInv
<1>0. late \in Nat /\ stopped \in BOOLEAN
  BY DEF TypeOK
<1>1. CASE Tick
  BY <1>1 DEF Tick, control
<1>2. CASE Window
  BY <1>0, <1>2 DEF Window, Update, TogglePause, Stop, Close, Joined, control
<1>3. CASE ReadPace
  BY <1>3 DEF ReadPace, Call, Proceed, control
<1>4. CASE EnterWait \/ CheckStopped \/ CheckPaused \/ CheckVersion \/ CheckLeft
  BY <1>4 DEF EnterWait, CheckStopped, CheckPaused, CheckVersion, CheckLeft, AfterNap,
    Return, control
<1>5. CASE Send
  <2>1. late = 0
    BY <1>5 DEF Send
  <2>2. late' = IF stopped THEN 1 ELSE 0
    BY <1>5, <2>1 DEF Send
  <2> QED BY <1>5, <2>2 DEF Send, control
<1>6. CASE NextJob \/ FetchEnds \/ \E b \in Backoffs : FetchFails(b)
  BY <1>6 DEF NextJob, FetchEnds, FetchFails, Call, control
<1>7. CASE UNCHANGED vars \/ Finished
  BY <1>7 DEF vars, Finished, control
<1> QED BY <1>1, <1>2, <1>3, <1>4, <1>5, <1>6, <1>7 DEF Next, Engine

(* At most one request begins after stop. *)
THEOREM StopRespected == Spec => []StopActs
<1>1. Init => StopInv
  BY DEF Init, StopInv
<1>2. StopInv => StopActs
  BY DEF StopInv, StopActs
<1> QED BY <1>1, <1>2, StopStep, TypeCorrect, PTL DEF Spec
-----------------------------------------------------------------------------
(* A back-off's wait ends no sooner than it owes, unless it saw a change. *)
Due == clock >= owed.until \/ version > owed.version

BackoffInv ==
  /\ owed.version <= version
  /\ pc = "enter" /\ kind = "backoff" => clock + secs >= owed.until
  /\ pc \in InWait /\ kind = "backoff" =>
       end >= owed.until /\ owed.version <= seen /\ seen <= version
  /\ pc \in {"enter"} \cup InWait /\ kind = "pace" => Due
  /\ pc \in {"loop", "pace", "send", "fetch"} => Due

LEMMA BackoffStep == TypeOK /\ TypeOK' /\ BackoffInv /\ [Next]_vars => BackoffInv'
<1> SUFFICES ASSUME TypeOK, TypeOK', BackoffInv, [Next]_vars PROVE BackoffInv'
  OBVIOUS
<1> USE DEF BackoffInv, Due, InWait
<1>0. /\ clock \in Nat /\ secs \in Nat /\ end \in Nat /\ version \in Nat /\ seen \in Nat
      /\ owed.until \in Nat /\ owed.version \in Nat /\ kind \in {"pace", "backoff"}
      /\ clock' \in Nat /\ version' \in Nat /\ end' \in Nat
  BY DEF TypeOK
<1>1. CASE Tick
  BY <1>0, <1>1 DEF Tick, control, waiting
<1>2. CASE Window
  <2>1. /\ version' >= version /\ clock' = clock /\ pc' = pc /\ owed' = owed
        /\ UNCHANGED waiting
    BY <1>0, <1>2 DEF Window, Update, TogglePause, Stop, Close, Joined, control
  <2> QED BY <1>0, <2>1 DEF waiting
<1>3. CASE ReadPace
  BY <1>0, <1>3 DEF ReadPace, Call, Proceed, control, waiting
<1>4. CASE EnterWait
  BY <1>0, <1>4 DEF EnterWait, WaitEnd, control
<1>5. CASE CheckStopped
  BY <1>0, <1>5 DEF CheckStopped, Return, control, waiting
<1>6. CASE CheckPaused
  <2>1. clock' >= clock /\ end' >= end
    <3>1. CASE paused
      <4>1. clock' \in {clock, clock + 1} /\ end' = end + (clock' - clock)
        BY <1>6, <3>1 DEF CheckPaused, Slept
      <4>2. CASE clock' = clock
        BY <1>0, <4>1, <4>2
      <4>3. CASE clock' = clock + 1
        BY <1>0, <4>1, <4>3
      <4> QED BY <4>1, <4>2, <4>3
    <3>2. CASE ~paused
      BY <1>0, <1>6, <3>2 DEF CheckPaused
    <3> QED BY <3>1, <3>2
  <2>2. /\ pc = "paused?" /\ pc' \in {"stopped?", "version?"}
        /\ kind' = kind /\ seen' = seen /\ owed' = owed /\ version' = version
    BY <1>6 DEF CheckPaused, AfterNap, control
  <2>4. kind = "backoff" => end' >= owed.until
    BY <1>0, <2>1, <2>2
  <2>5. kind = "pace" => Due'
    BY <1>0, <2>1, <2>2
  <2> QED BY <1>0, <2>2, <2>4, <2>5
<1>7. CASE CheckVersion
  BY <1>0, <1>7 DEF CheckVersion, Return, control, waiting
<1>8. CASE CheckLeft
  <2>1. clock' >= clock
    BY <1>0, <1>8 DEF CheckLeft, Slept
  <2> QED BY <1>0, <1>8, <2>1 DEF CheckLeft, Return, control, waiting
<1>9. CASE Send
  BY <1>0, <1>9 DEF Send, control, waiting
<1>10. CASE NextJob \/ FetchEnds
  BY <1>0, <1>10 DEF NextJob, FetchEnds, control, waiting
<1>11. ASSUME NEW b \in Backoffs, FetchFails(b) PROVE BackoffInv'
  <2>1. BackoffWait(b) \in Nat
    BY PaceAssumption DEF BackoffWait, MaxOf
  <2> QED BY <1>0, <1>11, <2>1 DEF FetchFails, Call, control
<1>12. CASE UNCHANGED vars \/ Finished
  BY <1>0, <1>12 DEF vars, Finished, control, waiting
<1> QED BY <1>1, <1>2, <1>3, <1>4, <1>5, <1>6, <1>7, <1>8, <1>9, <1>10, <1>11, <1>12
        DEF Next, Engine

(* After a transient failure the next request waits the back-off out, unless
   the pace was changed in the meantime. *)
THEOREM BackoffRespected == Spec => []BackoffHonoured
<1>1. Init => BackoffInv
  BY DEF Init, BackoffInv, Due, InWait
<1>2. TypeOK /\ BackoffInv => BackoffHonoured
  BY DEF BackoffInv, Due, BackoffHonoured, TypeOK
<1> QED BY <1>1, <1>2, BackoffStep, TypeCorrect, PTL DEF Spec
=============================================================================
