----------------------- MODULE SqliteReadings_proofs -----------------------
(***************************************************************************)
(* Theorems about SqliteReadings: a database opened in a folder of its own is   *)
(* read as the evidence has it, and nothing its current log holds is out of      *)
(* reach.                                                                        *)
(***************************************************************************)
EXTENDS SqliteReadings, SequenceTheorems, WellFoundedInduction, TLAPS

(* The newest of some frames. *)
LEMMA HasLeast ==
  ASSUME NEW S \in SUBSET Nat, S # {}
  PROVE  \E m \in S : \A n \in S : m <= n
  <1> DEFINE R == {ss \in Nat \X Nat : ss[1] < ss[2]}
  <1>1. R = OpToRel(<, Nat)
    BY DEF OpToRel
  <1>2. IsWellFoundedOn(R, Nat)
    BY <1>1, NatLessThanWellFounded
  <1> HIDE DEF R
  <1>3. \E m \in S : \A n \in S : ~(<<n, m>> \in R)
    BY <1>2, WFMin
  <1>4. \A m, n \in S : <<n, m>> \in R <=> n < m
    BY DEF R
  <1>5. PICK m \in S : \A n \in S : ~(n < m)
    BY <1>3, <1>4
  <1> QED
    BY <1>5

LEMMA MaxIsGreatest ==
  ASSUME NEW top \in Nat, NEW S \in SUBSET (1 .. top), S # {}
  PROVE  Max(S) \in S /\ \A n \in S : n <= Max(S)
  <1> DEFINE T == {t \in Nat : \E n \in S : t = top - n}
  <1>1. \A n \in S : n \in Nat /\ n <= top /\ top - n \in T
    OBVIOUS
  <1>2. PICK t \in T : \A u \in T : t <= u
    BY <1>1, HasLeast
  <1>3. PICK m \in S : t = top - m
    BY <1>2
  <1>4. ASSUME NEW n \in S PROVE m >= n
    <2>1. top - m <= top - n
      BY <1>1, <1>2, <1>3
    <2> QED
      BY <1>1, <2>1
  <1>5. \E x \in S : \A y \in S : x >= y
    BY <1>4
  <1>6. Max(S) \in S /\ \A y \in S : Max(S) >= y
    BY <1>5 DEF Max
  <1> QED
    BY <1>1, <1>6
-----------------------------------------------------------------------------
(* What a log says over a file. *)

LEMMA FramesOf ==
  ASSUME NEW frames \in Seq(Frame), NEW n \in Nat, n <= Len(frames)
  PROVE  \A i \in 1 .. n : /\ frames[i] \in Frame /\ frames[i].page \in Pages
                           /\ frames[i].image \in Images \cup {Gone}
  <1>1. \A i \in 1 .. n : i \in 1 .. Len(frames)
    BY LenProperties
  <1>2. \A i \in 1 .. n : frames[i] \in Frame
    BY <1>1, ElementOfSeq
  <1> QED
    BY <1>2 DEF Frame

LEMMA AppliedReads ==
  ASSUME NEW file \in Reading, NEW frames \in Seq(Frame), NEW n \in Nat, n <= Len(frames)
  PROVE  Applied(file, frames, n) \in Reading
  <1>1. CASE file = Unformed /\ n = 0
    BY <1>1 DEF Applied, Reading
  <1>2. CASE ~(file = Unformed /\ n = 0)
    <2> DEFINE mine(p) == {i \in 1 .. n : frames[i].page = p}
               shown(p) == IF mine(p) # {} THEN frames[Max(mine(p))].image
                           ELSE IF file = Unformed THEN Gone ELSE file[p]
    <2>1. Applied(file, frames, n) = [p \in Pages |-> shown(p)]
      BY <1>2 DEF Applied
    <2>2. ASSUME NEW p \in Pages
          PROVE  shown(p) \in Images \cup {Gone}
      <3>1. CASE mine(p) # {}
        <4>1. Max(mine(p)) \in mine(p)
          BY <3>1, MaxIsGreatest
        <4>2. frames[Max(mine(p))].image \in Images \cup {Gone}
          BY <4>1, FramesOf
        <4> QED
          BY <3>1, <4>2
      <3>2. CASE mine(p) = {}
        BY <3>2 DEF Reading
      <3> QED
        BY <3>1, <3>2
    <2> HIDE DEF shown
    <2>3. [p \in Pages |-> shown(p)] \in [Pages -> Images \cup {Gone}]
      BY <2>2
    <2> QED
      BY <2>1, <2>3 DEF Reading
  <1> QED
    BY <1>1, <1>2

LEMMA AppliedNewest ==
  ASSUME NEW file, NEW frames \in Seq(Frame), NEW n \in Nat, n <= Len(frames), NEW i \in 1 .. n
  PROVE  \/ Applied(file, frames, n)[frames[i].page] = frames[i].image
         \/ i \in Superseded(frames)
  <1> DEFINE p == frames[i].page
             mine == {j \in 1 .. n : frames[j].page = p}
  <1>1. p \in Pages /\ i \in mine
    BY FramesOf
  <1>2. Applied(file, frames, n)[p] = frames[Max(mine)].image
    BY <1>1, SMTT(30) DEF Applied
  <1>3. Max(mine) \in mine /\ i <= Max(mine)
    BY <1>1, MaxIsGreatest
  <1>4. Len(frames) \in Nat /\ DOMAIN frames = 1 .. Len(frames)
    BY LenProperties
  <1> HIDE DEF p
  <1>5. CASE Max(mine) = i
    BY <1>2, <1>5 DEF p
  <1>6. CASE Max(mine) # i
    <2>1. Max(mine) \in i + 1 .. Len(frames) /\ i \in DOMAIN frames
      BY <1>3, <1>4, <1>6
    <2>2. frames[Max(mine)].page = frames[i].page
      BY <1>3 DEF p
    <2> QED
      BY <2>1, <2>2 DEF Superseded
  <1> QED
    BY <1>5, <1>6
-----------------------------------------------------------------------------
(* The types of the state. *)

(* The log after a frame was written at a place in it. *)
LEMMA Overwritten ==
  ASSUME NEW s \in Seq(Frame), NEW f \in Frame, NEW start \in Nat, start <= Len(s)
  PROVE  LET t == SubSeq(s, 1, start) \o <<f>> \o SubSeq(s, start + 2, Len(s))
         IN t \in Seq(Frame) /\ start + 1 <= Len(t)
  <1> DEFINE a == SubSeq(s, 1, start)
             b == <<f>>
             c == SubSeq(s, start + 2, Len(s))
             ab == a \o b
             t == ab \o c
  <1>1. Len(s) \in Nat
    BY LenProperties
  <1>2. a \in Seq(Frame) /\ Len(a) = start
    BY <1>1, SubSeqProperties
  <1>3. b \in Seq(Frame) /\ Len(b) = 1
    OBVIOUS
  <1>4. c \in Seq(Frame) /\ Len(c) \in Nat
    BY <1>1, SubSeqProperties, LenProperties
  <1> HIDE DEF a, b, c
  <1>5. ab \in Seq(Frame) /\ Len(ab) = start + 1
    <2>1. ab \in Seq(Frame) /\ Len(ab) = Len(a) + Len(b)
      BY <1>2, <1>3, ConcatProperties
    <2> HIDE DEF ab
    <2> QED
      BY <1>2, <1>3, <2>1
  <1> HIDE DEF ab
  <1>6. t \in Seq(Frame) /\ Len(t) = (start + 1) + Len(c)
    BY <1>4, <1>5, ConcatProperties
  <1>7. start + 1 <= Len(t)
    BY <1>4, <1>6
  <1> HIDE DEF t
  <1> QED
    BY <1>6, <1>7 DEF t, ab, a, b, c

LEMMA InitTypes == Init => TypeOK
  <1> SUFFICES ASSUME Init
               PROVE  TypeOK
    OBVIOUS
  <1>1. Empty \in Reading /\ Unformed \in Reading
    BY DEF Empty, Reading
  <1>2. <<>> \in Seq(Frame) /\ Len(<<>>) = 0
    OBVIOUS
  <1>3. NoCopy \in Copies /\ NoCopy.live <= Len(NoCopy.log)
    BY <1>1, <1>2 DEF NoCopy, Copies
  <1>4. PICK nil : nil = <<>> /\ nil \in Seq(Frame) /\ Len(nil) = 0
    BY <1>2
  <1>5. /\ log \in [Databases -> Seq(Frame)] /\ live \in [Databases -> Nat]
        /\ back \in [Databases -> Nat]
        /\ \A d \in Databases : back[d] <= live[d] /\ live[d] <= Len(log[d])
    <2>1. log = [d \in Databases |-> nil]
      BY <1>4 DEF Init
    <2> QED
      BY <1>4, <2>1 DEF Init
  <1>6. main \in [Databases -> Reading]
    BY <1>1 DEF Init
  <1>7. writes = 0 /\ acquired = FALSE /\ work = NoCopy /\ view = NoView
    BY DEF Init
  <1>8. writes \in 0 .. MaxWrites /\ acquired \in BOOLEAN
    <2>1. 0 \in 0 .. MaxWrites
      BY SqliteReadingsAssumption
    <2>2. writes \in 0 .. MaxWrites
      BY <1>7, <2>1, Zenon
    <2> QED
      BY <1>7, <2>2, Zenon
  <1>9. work \in Copies /\ work.live <= Len(work.log) /\ view \in Views \cup {NoView}
    BY <1>3, <1>7
  <1> QED
    BY <1>5, <1>6, <1>8, <1>9 DEF TypeOK

LEMMA TypesKept == TypeOK /\ [Next]_vars => TypeOK'
  <1> SUFFICES ASSUME TypeOK, [Next]_vars
               PROVE  TypeOK'
    OBVIOUS
  <1>0. /\ main \in [Databases -> Reading] /\ log \in [Databases -> Seq(Frame)]
        /\ live \in [Databases -> Nat] /\ back \in [Databases -> Nat]
        /\ \A d \in Databases : back[d] <= live[d] /\ live[d] <= Len(log[d])
        /\ writes \in 0 .. MaxWrites /\ MaxWrites \in Nat
    BY SqliteReadingsAssumption DEF TypeOK
  <1>1. CASE Acquire
    BY <1>1 DEF Acquire, phone, TypeOK
  <1>2. CASE Close
    BY <1>2 DEF Close, phone, TypeOK
  <1>3. ASSUME NEW d \in Databases, Write(d)
        PROVE  TypeOK'
    <2>1. PICK start : start = IF back[d] = live[d] THEN 0 ELSE live[d]
      OBVIOUS
    <2>2. start \in Nat /\ start <= Len(log[d])
      BY <1>0, <2>1
    <2>3. PICK p \in Pages, i \in Images \cup {Gone} :
            /\ log' = [log EXCEPT ![d] = SubSeq(@, 1, start) \o <<[page |-> p, image |-> i]>>
                                            \o SubSeq(@, start + 2, Len(@))]
            /\ live' = [live EXCEPT ![d] = start + 1]
            /\ back' = [back EXCEPT ![d] = IF start = 0 THEN 0 ELSE @]
      BY <1>3, <2>1 DEF Write
    <2>4. PICK f \in Frame : f = [page |-> p, image |-> i]
      BY DEF Frame
    <2>5. PICK new : new = SubSeq(log[d], 1, start) \o <<f>> \o SubSeq(log[d], start + 2, Len(log[d]))
      OBVIOUS
    <2>6. new \in Seq(Frame) /\ start + 1 <= Len(new)
      BY <1>0, <2>2, <2>5, Overwritten
    <2>7. log' = [log EXCEPT ![d] = new]
      BY <2>3, <2>4, <2>5
    <2>8. PICK kept : kept = IF start = 0 THEN 0 ELSE back[d]
      OBVIOUS
    <2>9. kept \in Nat /\ kept <= start + 1 /\ back' = [back EXCEPT ![d] = kept]
      BY <1>0, <2>1, <2>3, <2>8
    <2>10. /\ log' \in [Databases -> Seq(Frame)] /\ live' \in [Databases -> Nat]
           /\ back' \in [Databases -> Nat]
           /\ log'[d] = new /\ live'[d] = start + 1 /\ back'[d] = kept
           /\ \A e \in Databases : e # d => /\ log'[e] = log[e] /\ live'[e] = live[e]
                                           /\ back'[e] = back[e]
      <3>1. /\ log' \in [Databases -> Seq(Frame)] /\ log'[d] = new
            /\ \A e \in Databases : e # d => log'[e] = log[e]
        BY <1>0, <2>6, <2>7
      <3>2. live' = [live EXCEPT ![d] = start + 1]
        BY <2>3
      <3>3. /\ live' \in [Databases -> Nat] /\ live'[d] = start + 1
            /\ \A e \in Databases : e # d => live'[e] = live[e]
        BY <1>0, <2>2, <3>2
      <3>4. /\ back' \in [Databases -> Nat] /\ back'[d] = kept
            /\ \A e \in Databases : e # d => back'[e] = back[e]
        BY <1>0, <2>9
      <3> QED
        BY <3>1, <3>3, <3>4
    <2>11. \A e \in Databases : back'[e] <= live'[e] /\ live'[e] <= Len(log'[e])
      BY <1>0, <2>6, <2>9, <2>10
    <2>12. writes' \in 0 .. MaxWrites /\ UNCHANGED <<main, acquired, work, view>>
      BY <1>0, <1>3 DEF Write
    <2> QED
      BY <2>10, <2>11, <2>12 DEF TypeOK
  <1>4. ASSUME NEW d \in Databases, Checkpoint(d)
        PROVE  TypeOK'
    <2>1. PICK n \in back[d] + 1 .. live[d] :
            /\ main' = [main EXCEPT ![d] = Applied(@, log[d], n)]
            /\ back' = [back EXCEPT ![d] = n]
      BY <1>4 DEF Checkpoint
    <2>2. n \in Nat /\ n <= live[d] /\ n <= Len(log[d])
      BY <1>0, <2>1, LenProperties
    <2>3. PICK new \in Reading : new = Applied(main[d], log[d], n)
      BY <1>0, <2>2, AppliedReads
    <2>4. main' \in [Databases -> Reading] /\ back' \in [Databases -> Nat]
      BY <1>0, <2>1, <2>2, <2>3
    <2>5. \A e \in Databases : back'[e] <= live[e]
      BY <1>0, <2>1, <2>2
    <2>6. UNCHANGED <<log, live, writes, acquired, work, view>>
      BY <1>4 DEF Checkpoint
    <2> QED
      BY <2>4, <2>5, <2>6 DEF TypeOK
  <1>5. ASSUME NEW d \in Databases, CloseApp(d)
        PROVE  TypeOK'
    <2>1. PICK new \in Reading : new = Applied(main[d], log[d], live[d])
      BY <1>0, AppliedReads
    <2>2. /\ main' = [main EXCEPT ![d] = new] /\ log' = [log EXCEPT ![d] = <<>>]
          /\ live' = [live EXCEPT ![d] = 0] /\ back' = [back EXCEPT ![d] = 0]
          /\ UNCHANGED <<writes, acquired, work, view>>
      BY <1>5, <2>1 DEF CloseApp
    <2>3. PICK nil : nil = <<>> /\ nil \in Seq(Frame) /\ Len(nil) = 0
      <3>1. <<>> \in Seq(Frame) /\ Len(<<>>) = 0
        OBVIOUS
      <3> QED
        BY <3>1
    <2>31. log' = [log EXCEPT ![d] = nil]
      BY <2>2, <2>3
    <2>4. /\ main' \in [Databases -> Reading] /\ log' \in [Databases -> Seq(Frame)]
          /\ live' \in [Databases -> Nat] /\ back' \in [Databases -> Nat]
          /\ log'[d] = nil /\ live'[d] = 0 /\ back'[d] = 0
          /\ \A e \in Databases : e # d => /\ log'[e] = log[e] /\ live'[e] = live[e]
                                          /\ back'[e] = back[e]
      <3>1. /\ main' = [main EXCEPT ![d] = new] /\ live' = [live EXCEPT ![d] = 0]
            /\ back' = [back EXCEPT ![d] = 0]
        BY <2>2
      <3> QED
        BY <1>0, <2>1, <2>3, <2>31, <3>1
    <2>5. \A e \in Databases : back'[e] <= live'[e] /\ live'[e] <= Len(log'[e])
      <3> SUFFICES ASSUME NEW e \in Databases
                   PROVE  back'[e] <= live'[e] /\ live'[e] <= Len(log'[e])
        OBVIOUS
      <3>1. CASE e = d
        <4>1. Len(log'[d]) = 0
          BY <2>3, <2>4
        <4> QED
          BY <2>4, <3>1, <4>1
      <3>2. CASE e # d
        <4>1. log'[e] = log[e] /\ live'[e] = live[e] /\ back'[e] = back[e]
          BY <2>4, <3>2
        <4> QED
          BY <1>0, <4>1
      <3> QED
        BY <3>1, <3>2
    <2> QED
      BY <2>2, <2>4, <2>5 DEF TypeOK
  <1>6. ASSUME NEW d \in Databases, NEW inWork \in BOOLEAN, OpenViews(d, inWork)
        PROVE  TypeOK'
    <2>1. PICK copy, merged :
            /\ copy = Staged(IF inWork THEN work ELSE NoCopy, d)
            /\ merged = Applied(copy.main, copy.log, copy.live)
      OBVIOUS
    <2>2. /\ work' = IF inWork THEN copy ELSE work
          /\ view' = [db |-> d, inWork |-> inWork, merged |-> merged, single |-> log[d] = <<>>,
                      mainOnly |-> IF log[d] = <<>> THEN merged ELSE main[d]]
          /\ UNCHANGED <<phone, acquired>>
      BY <1>6, <2>1 DEF OpenViews
    <2>3. PICK old : old = IF inWork THEN work ELSE NoCopy
      OBVIOUS
    <2>4. old \in Copies /\ old.live <= Len(old.log)
      <3>1. NoCopy \in Copies /\ NoCopy.live <= Len(NoCopy.log)
        BY DEF NoCopy, Copies, Reading
      <3> QED
        BY <2>3, <3>1 DEF TypeOK
    <2>5. PICK l, v : /\ l = IF log[d] # <<>> THEN log[d] ELSE old.log
                      /\ v = IF log[d] # <<>> THEN live[d] ELSE old.live
      OBVIOUS
    <2>6. l \in Seq(Frame) /\ v \in Nat /\ v <= Len(l)
      BY <1>0, <2>4, <2>5 DEF Copies
    <2>7. copy = [main |-> main[d], log |-> l, live |-> v]
      BY <2>1, <2>3, <2>5 DEF Staged
    <2>8. /\ copy \in Copies /\ copy.live <= Len(copy.log)
          /\ copy.main = main[d] /\ copy.log = l /\ copy.live = v
      BY <1>0, <2>6, <2>7 DEF Copies
    <2>9. merged \in Reading
      BY <1>0, <2>1, <2>6, <2>8, AppliedReads
    <2>10. PICK single, mainOnly : /\ single = (log[d] = <<>>)
                                   /\ mainOnly = IF log[d] = <<>> THEN merged ELSE main[d]
      OBVIOUS
    <2>11. single \in BOOLEAN /\ mainOnly \in Reading
      BY <1>0, <2>9, <2>10
    <2>12. view' = [db |-> d, inWork |-> inWork, merged |-> merged, single |-> single,
                    mainOnly |-> mainOnly]
      BY <2>2, <2>10
    <2>13. view' \in Views
      BY <2>9, <2>11, <2>12 DEF Views
    <2>14. work' \in Copies /\ work'.live <= Len(work'.log)
      BY <2>2, <2>8 DEF TypeOK
    <2> QED
      BY <2>2, <2>13, <2>14 DEF TypeOK, phone
  <1>7. CASE UNCHANGED vars
    BY <1>7 DEF vars, phone, TypeOK
  <1> QED
    BY <1>1, <1>2, <1>3, <1>4, <1>5, <1>6, <1>7 DEF Next

(* The state keeps its types: no reading, staged or open, holds anything but page
   images, and no counter of the log passes its end. *)
THEOREM TypeCorrect == Spec => []TypeOK
  BY InitTypes, TypesKept, PTL DEF Spec
-----------------------------------------------------------------------------
(* Nothing of a log is out of reach. *)

(* Whatever the app wrote, checkpointed and overwrote, each frame of the current log
   is shown, or handed out for carving. *)
THEOREM LogAlwaysReached == Spec => []LogReached
  <1>1. ASSUME TypeOK
        PROVE  LogReached
    <2> SUFFICES ASSUME NEW d \in Databases, NEW i \in 1 .. live[d]
                 PROVE  \/ Current(d)[log[d][i].page] = log[d][i].image
                        \/ i \in Superseded(log[d])
      BY DEF LogReached
    <2>1. log[d] \in Seq(Frame) /\ live[d] \in Nat /\ live[d] <= Len(log[d])
      BY <1>1 DEF TypeOK
    <2>2. PICK frames, n, file : frames = log[d] /\ n = live[d] /\ file = main[d]
      OBVIOUS
    <2>3. \/ Applied(file, frames, n)[frames[i].page] = frames[i].image
          \/ i \in Superseded(frames)
      BY <2>1, <2>2, AppliedNewest
    <2> QED
      BY <2>2, <2>3 DEF Current
  <1> QED
    BY <1>1, TypeCorrect, PTL
-----------------------------------------------------------------------------
(* The two readings of a database. *)

(* The evidence is at rest while a database is open. *)
Rests == view # NoView => acquired
Read == Rests /\ OwnReadings

LEMMA ReadKept == TypeOK /\ Read /\ [Next]_vars => Read'
  <1> SUFFICES ASSUME TypeOK, Read, [Next]_vars
               PROVE  Read'
    OBVIOUS
  <1>1. CASE Acquire
    BY <1>1 DEF Acquire, phone, Read, Rests, OwnReadings, Current
  <1>2. CASE Close
    BY <1>2 DEF Close, Read, Rests, OwnReadings
  <1>3. ASSUME NEW d \in Databases, Write(d) \/ Checkpoint(d) \/ CloseApp(d)
        PROVE  Read'
    <2>1. ~acquired /\ view' = view
      BY <1>3 DEF Write, Checkpoint, CloseApp
    <2> QED
      BY <2>1 DEF Read, Rests, OwnReadings
  <1>4. ASSUME NEW d \in Databases, NEW inWork \in BOOLEAN, OpenViews(d, inWork)
        PROVE  Read'
    <2>1. PICK copy, merged :
            /\ copy = Staged(IF inWork THEN work ELSE NoCopy, d)
            /\ merged = Applied(copy.main, copy.log, copy.live)
      OBVIOUS
    <2>2. /\ view' = [db |-> d, inWork |-> inWork, merged |-> merged, single |-> log[d] = <<>>,
                      mainOnly |-> IF log[d] = <<>> THEN merged ELSE main[d]]
          /\ UNCHANGED <<phone, acquired>> /\ acquired
      BY <1>4, <2>1 DEF OpenViews
    <2>3. /\ view'.db = d /\ (view'.inWork <=> inWork) /\ view'.merged = merged
          /\ log[d] # <<>> => view'.mainOnly = main[d]
      BY <2>2
    <2>4. ~inWork \/ log[d] # <<>> => merged = Current(d)
      <3>1. CASE log[d] # <<>>
        <4>1. copy.main = main[d] /\ copy.log = log[d] /\ copy.live = live[d]
          BY <2>1, <3>1 DEF Staged
        <4> QED
          BY <2>1, <4>1 DEF Current
      <3>2. CASE log[d] = <<>> /\ ~inWork
        <4>1. copy.main = main[d] /\ copy.log = <<>> /\ copy.live = 0
          BY <2>1, <3>2 DEF Staged, NoCopy
        <4>2. live[d] = 0
          <5>1. Len(log[d]) = 0
            BY <3>2
          <5> QED
            BY <5>1 DEF TypeOK
        <4> QED
          BY <2>1, <3>2, <4>1, <4>2 DEF Current
      <3> QED
        BY <3>1, <3>2
    <2>5. Current(d)' = Current(d) /\ log' = log /\ main' = main
      BY <2>2 DEF Current, phone
    <2> QED
      BY <2>2, <2>3, <2>4, <2>5 DEF Read, Rests, OwnReadings, Current
  <1>5. CASE UNCHANGED vars
    BY <1>5 DEF vars, phone, Read, Rests, OwnReadings, Current
  <1> QED
    BY <1>1, <1>2, <1>3, <1>4, <1>5 DEF Next

(* However the app wrote, and whatever was staged before, a database opened in its own
   folder, or with a log that replaces the one staged before it, is read as the
   evidence has it, with its log and without. *)
THEOREM ReadingsAlwaysOwn == Spec => []OwnReadings
  <1>1. Init => Read
    BY DEF Init, Read, Rests, OwnReadings
  <1>2. Spec => []Read
    BY <1>1, ReadKept, TypeCorrect, PTL DEF Spec
  <1> QED
    BY <1>2, PTL DEF Read
-----------------------------------------------------------------------------
(* The tables a report is handed. *)

(* The values of some rows, and the old ones that none of the others equals. *)
All(rows) == {rows[i] : i \in DOMAIN rows}
Missing(rows, old) == {k \in DOMAIN old : \A i \in DOMAIN rows : rows[i] # old[k]}
OneEach(rows, keyed) ==
  \A i, j \in DOMAIN rows : KeyOf(rows[i], keyed) = KeyOf(rows[j], keyed) => rows[i] = rows[j]

(* The rows of a reading, one for each rowid that has one: rows with the same key are
   the same row, with a primary key and without. *)
LEMMA Fetched ==
  ASSUME NEW reading, NEW keyed \in BOOLEAN,
         NEW rows, rows = Fetch(reading, keyed)
  PROVE  /\ DOMAIN rows \subseteq Nat
         /\ Range(rows) = All(rows)
         /\ OneEach(rows, keyed)
  <1> DEFINE all == Rows(reading)
  <1>1. /\ DOMAIN all \subseteq Nat
        /\ \A p \in DOMAIN all : all[p].key = p
    BY SqliteReadingsAssumption DEF Rows
  <1> HIDE DEF all
  <1>2. rows = [p \in DOMAIN all |-> IF keyed THEN all[p] ELSE [key |-> 0, value |-> all[p].value]]
    BY DEF Fetch, all
  <1>3. DOMAIN rows = DOMAIN all
    BY <1>2
  <1>4. ASSUME keyed, NEW i \in DOMAIN rows, NEW j \in DOMAIN rows, rows[i].key = rows[j].key
        PROVE  rows[i] = rows[j]
    BY <1>1, <1>2, <1>3, <1>4
  <1> QED
    BY <1>1, <1>3, <1>4 DEF Range, KeyOf, All, OneEach

(* The entries of read_table where there is something to compare. *)
First(rows, keyed) ==
  {i \in DOMAIN rows : \A j \in DOMAIN rows : j < i => KeyOf(rows[j], keyed) # KeyOf(rows[i], keyed)}

Agreed(rows, old, e) ==
  \E i \in DOMAIN rows : /\ \E k \in DOMAIN old : old[k] = rows[i]
                         /\ e = Entry(rows[i], BOTH, i, {i})
Added(rows, old, e) ==
  \E i \in DOMAIN rows : /\ \A k \in DOMAIN old : old[k] # rows[i]
                         /\ e = Entry(rows[i], WAL_ONLY, i, {i})
Beside(rows, old, keyed, e) ==
  \E i \in First(rows, keyed), k \in DOMAIN old :
    /\ KeyOf(old[k], keyed) = KeyOf(rows[i], keyed) /\ old[k] # rows[i]
    /\ e = Entry(old[k], MAIN_ONLY, k, {i})
After(rows, old, keyed, e) ==
  \E k \in DOMAIN old : /\ \A i \in DOMAIN rows : KeyOf(old[k], keyed) # KeyOf(rows[i], keyed)
                        /\ e = Entry(old[k], MAIN_ONLY, k, {})

LEMMA TableEntries ==
  ASSUME NEW rows, NEW old, NEW keyed \in BOOLEAN, NEW e
  PROVE  e \in Compared(rows, old, keyed) <=>
           \/ Agreed(rows, old, e) \/ Added(rows, old, e)
           \/ Beside(rows, old, keyed, e) \/ After(rows, old, keyed, e)
  <1> DEFINE counterparts(i) == {k \in DOMAIN old : KeyOf(old[k], keyed) = KeyOf(rows[i], keyed)}
             agreed == {i \in DOMAIN rows : \E k \in counterparts(i) : old[k] = rows[i]}
             unmet == {k \in DOMAIN old : \A i \in DOMAIN rows : k \notin counterparts(i)}
             differing(i) == Removed(old, {k \in counterparts(i) : old[k] # rows[i]}, {i})
             beside == UNION {differing(i) : i \in First(rows, keyed)}
  <1>1. Compared(rows, old, keyed) =
          UNION {Marked(rows, agreed, BOTH), Marked(rows, DOMAIN rows \ agreed, WAL_ONLY),
                 beside, Removed(old, unmet, {})}
    BY DEF Compared, First
  <1>2. \A i \in DOMAIN rows : i \in agreed <=> \E k \in DOMAIN old : old[k] = rows[i]
    OBVIOUS
  <1>5. \A i : e \in differing(i) <=>
          \E k \in DOMAIN old : /\ KeyOf(old[k], keyed) = KeyOf(rows[i], keyed) /\ old[k] # rows[i]
                                /\ e = Entry(old[k], MAIN_ONLY, k, {i})
    BY DEF Removed
  <1>6. e \in Removed(old, unmet, {}) <=>
          \E k \in DOMAIN old :
            /\ \A i \in DOMAIN rows : KeyOf(old[k], keyed) # KeyOf(rows[i], keyed)
            /\ e = Entry(old[k], MAIN_ONLY, k, {})
    BY DEF Removed
  <1>7. agreed \subseteq DOMAIN rows
    OBVIOUS
  <1> HIDE DEF counterparts, agreed, unmet, differing
  <1>3. e \in Marked(rows, agreed, BOTH) <=>
          \E i \in DOMAIN rows : /\ \E k \in DOMAIN old : old[k] = rows[i]
                                 /\ e = Entry(rows[i], BOTH, i, {i})
    BY <1>2, <1>7 DEF Marked
  <1>4. e \in Marked(rows, DOMAIN rows \ agreed, WAL_ONLY) <=>
          \E i \in DOMAIN rows : /\ \A k \in DOMAIN old : old[k] # rows[i]
                                 /\ e = Entry(rows[i], WAL_ONLY, i, {i})
    BY <1>2, <1>7 DEF Marked
  <1>8. e \in beside <=> \E i \in First(rows, keyed) : e \in differing(i)
    OBVIOUS
  <1> HIDE DEF beside
  <1>9. e \in Compared(rows, old, keyed) <=>
          \/ e \in Marked(rows, agreed, BOTH) \/ e \in Marked(rows, DOMAIN rows \ agreed, WAL_ONLY)
          \/ e \in beside \/ e \in Removed(old, unmet, {})
    BY <1>1
  <1> QED
    BY <1>3, <1>4, <1>5, <1>6, <1>8, <1>9 DEF Agreed, Added, Beside, After

LEMMA Kinds == BOTH # WAL_ONLY /\ BOTH # MAIN_ONLY /\ WAL_ONLY # MAIN_ONLY
  BY DEF BOTH, WAL_ONLY, MAIN_ONLY

LEMMA Values ==
  ASSUME NEW out, NEW marker, NEW row
  PROVE  row \in ValuesOf(out, marker) <=> \E e \in out : e.marker = marker /\ e.row = row
  BY DEF ValuesOf

(* Of the rows with a key, one is first. *)
LEMMA FirstFound ==
  ASSUME NEW rows, DOMAIN rows \subseteq Nat, NEW keyed, NEW key,
         NEW i \in DOMAIN rows, KeyOf(rows[i], keyed) = key
  PROVE  \E m \in First(rows, keyed) : KeyOf(rows[m], keyed) = key
  <1> DEFINE S == {j \in DOMAIN rows : KeyOf(rows[j], keyed) = key}
  <1>1. PICK m \in S : \A n \in S : m <= n
    <2>1. S \subseteq Nat /\ S # {}
      OBVIOUS
    <2> HIDE DEF S
    <2> QED
      BY <2>1, HasLeast
  <1>2. ASSUME NEW j \in DOMAIN rows, j < m
        PROVE  KeyOf(rows[j], keyed) # key
    <2>1. j \in S => m <= j
      BY <1>1
    <2>2. j \notin S
      BY <1>2, <2>1
    <2> QED
      BY <2>2
  <1> QED
    BY <1>1, <1>2 DEF First

LEMMA FirstAlone ==
  ASSUME NEW rows, DOMAIN rows \subseteq Nat, NEW keyed,
         NEW i \in First(rows, keyed), NEW j \in First(rows, keyed),
         KeyOf(rows[i], keyed) = KeyOf(rows[j], keyed)
  PROVE  i = j
  <1>1. i \in Nat /\ j \in Nat /\ ~(i < j) /\ ~(j < i)
    BY DEF First
  <1> QED
    BY <1>1

(* read_table over two sets of rows in which a key has one row. *)
LEMMA ComparedRight ==
  ASSUME NEW rows, NEW old, NEW keyed \in BOOLEAN,
         DOMAIN rows \subseteq Nat,
         OneEach(rows, keyed),
         NEW new, new = All(rows),
         NEW was, was = All(old),
         NEW table, table = Compared(rows, old, keyed)
  PROVE  /\ ValuesOf(table, BOTH) = new \cap was
         /\ ValuesOf(table, WAL_ONLY) = new \ was
         /\ ValuesOf(table, MAIN_ONLY) = was \ new
         /\ Once(table)
  <1> new = {rows[i] : i \in DOMAIN rows} /\ was = {old[k] : k \in DOMAIN old}
    BY DEF All
  <1> \A i, j \in DOMAIN rows : KeyOf(rows[i], keyed) = KeyOf(rows[j], keyed) => rows[i] = rows[j]
    BY DEF OneEach
  <1> DEFINE Same(e) == Agreed(rows, old, e)
             New(e) == Added(rows, old, e)
             Changed(e) == Beside(rows, old, keyed, e)
             Lost(e) == After(rows, old, keyed, e)
  <1>1. \A e : e \in table <=> Same(e) \/ New(e) \/ Changed(e) \/ Lost(e)
    BY TableEntries
  <1>a. ASSUME NEW e, Same(e)
        PROVE  /\ e.marker = BOTH /\ e.at \in DOMAIN rows /\ e.row = rows[e.at]
               /\ e.row \in new /\ e.row \in was
               /\ e = Entry(rows[e.at], BOTH, e.at, {e.at})
    <2>1. PICK i \in DOMAIN rows : /\ \E k \in DOMAIN old : old[k] = rows[i]
                                  /\ e = Entry(rows[i], BOTH, i, {i})
      BY <1>a DEF Agreed
    <2>2. e.row = rows[i] /\ e.at = i /\ e.marker = BOTH
      BY <2>1 DEF Entry
    <2>3. rows[i] \in new /\ rows[i] \in was
      BY <2>1
    <2> QED
      BY <2>1, <2>2, <2>3
  <1>b. ASSUME NEW e, New(e)
        PROVE  /\ e.marker = WAL_ONLY /\ e.at \in DOMAIN rows /\ e.row = rows[e.at]
               /\ e.row \in new /\ e.row \notin was
               /\ e = Entry(rows[e.at], WAL_ONLY, e.at, {e.at})
    <2>1. PICK i \in DOMAIN rows : /\ \A k \in DOMAIN old : old[k] # rows[i]
                                  /\ e = Entry(rows[i], WAL_ONLY, i, {i})
      BY <1>b DEF Added
    <2>2. e.row = rows[i] /\ e.at = i /\ e.marker = WAL_ONLY
      BY <2>1 DEF Entry
    <2>3. rows[i] \in new /\ rows[i] \notin was
      BY <2>1
    <2> QED
      BY <2>1, <2>2, <2>3
  <1>c. ASSUME NEW e, Changed(e)
        PROVE  /\ e.marker = MAIN_ONLY /\ e.row \in was /\ e.row \notin new
               /\ \E i \in First(rows, keyed) :
                    /\ KeyOf(old[e.at], keyed) = KeyOf(rows[i], keyed)
                    /\ e = Entry(old[e.at], MAIN_ONLY, e.at, {i})
    <2>1. PICK i \in First(rows, keyed), k \in DOMAIN old :
            /\ KeyOf(old[k], keyed) = KeyOf(rows[i], keyed) /\ old[k] # rows[i]
            /\ e = Entry(old[k], MAIN_ONLY, k, {i})
      BY <1>c DEF Beside
    <2>2. e.row = old[k] /\ e.at = k /\ e.marker = MAIN_ONLY /\ i \in DOMAIN rows
      BY <2>1 DEF Entry, First
    <2>3. old[k] \notin new
      BY <2>1, <2>2
    <2> QED
      BY <2>1, <2>2, <2>3
  <1>d. ASSUME NEW e, Lost(e)
        PROVE  /\ e.marker = MAIN_ONLY /\ e.row \in was /\ e.row \notin new
               /\ \A i \in DOMAIN rows : KeyOf(old[e.at], keyed) # KeyOf(rows[i], keyed)
               /\ e = Entry(old[e.at], MAIN_ONLY, e.at, {})
    <2>1. PICK k \in DOMAIN old :
            /\ \A i \in DOMAIN rows : KeyOf(old[k], keyed) # KeyOf(rows[i], keyed)
            /\ e = Entry(old[k], MAIN_ONLY, k, {})
      BY <1>d DEF After
    <2>2. e.row = old[k] /\ e.at = k /\ e.marker = MAIN_ONLY
      BY <2>1 DEF Entry
    <2>3. old[k] \notin new
      BY <2>1
    <2> QED
      BY <2>1, <2>2, <2>3
  <1>3. \A i \in DOMAIN rows : IF rows[i] \in was THEN \E e : Same(e) /\ e.row = rows[i]
                                                 ELSE \E e : New(e) /\ e.row = rows[i]
    <2> SUFFICES ASSUME NEW i \in DOMAIN rows
                 PROVE  IF rows[i] \in was THEN \E e : Same(e) /\ e.row = rows[i]
                                          ELSE \E e : New(e) /\ e.row = rows[i]
      OBVIOUS
    <2>1. \A marker : Entry(rows[i], marker, i, {i}).row = rows[i]
      BY DEF Entry
    <2>2. CASE rows[i] \in was
      <3>0. \E k \in DOMAIN old : old[k] = rows[i]
        BY <2>2
      <3>1. Same(Entry(rows[i], BOTH, i, {i}))
        BY <3>0 DEF Agreed
      <3> QED
        BY <2>1, <2>2, <3>1
    <2>3. CASE rows[i] \notin was
      <3>1. New(Entry(rows[i], WAL_ONLY, i, {i}))
        BY <2>3 DEF Added
      <3> QED
        BY <2>1, <2>3, <3>1
    <2> QED
      BY <2>2, <2>3
  <1>4. ASSUME NEW k \in DOMAIN old, old[k] \notin new
        PROVE  \E e : (Changed(e) \/ Lost(e)) /\ e.row = old[k]
    <2>1. \A beside : Entry(old[k], MAIN_ONLY, k, beside).row = old[k]
      BY DEF Entry
    <2>2. CASE \A i \in DOMAIN rows : KeyOf(old[k], keyed) # KeyOf(rows[i], keyed)
      <3>1. Lost(Entry(old[k], MAIN_ONLY, k, {}))
        BY <2>2 DEF After
      <3> QED
        BY <2>1, <3>1
    <2>3. ASSUME NEW i \in DOMAIN rows, KeyOf(rows[i], keyed) = KeyOf(old[k], keyed)
          PROVE  \E e : Changed(e) /\ e.row = old[k]
      <3>1. PICK m \in First(rows, keyed) : KeyOf(rows[m], keyed) = KeyOf(old[k], keyed)
        BY <2>3, FirstFound
      <3>2. m \in DOMAIN rows
        BY DEF First
      <3>3. Changed(Entry(old[k], MAIN_ONLY, k, {m}))
        BY <1>4, <3>1, <3>2 DEF Beside
      <3> QED
        BY <2>1, <3>3
    <2> QED
      BY <2>2, <2>3
  <1> HIDE DEF Same, New, Changed, Lost
  <1>5. ASSUME NEW e \in table, NEW f \in table, e.at = f.at,
               e.marker = MAIN_ONLY <=> f.marker = MAIN_ONLY
        PROVE  e = f
    <2>1. CASE Same(e) \/ New(e)
      <3>1. Same(f) \/ New(f)
        BY <1>1, <1>5, <1>a, <1>b, <1>c, <1>d, <2>1, Kinds
      <3>2. e.row = rows[e.at] /\ f.row = rows[e.at]
        BY <1>5, <1>a, <1>b, <2>1, <3>1, ZenonT(60)
      <3>3. e.marker = f.marker
        <4>1. e.row = f.row
          BY <3>2, <1>5
        <4> QED
          BY <1>a, <1>b, <2>1, <3>1, <4>1
      <3>4. /\ e = Entry(rows[e.at], e.marker, e.at, {e.at})
            /\ f = Entry(rows[f.at], f.marker, f.at, {f.at})
        BY <1>a, <1>b, <2>1, <3>1
      <3> QED
        BY <1>5, <3>3, <3>4
    <2>2. CASE Changed(e)
      <3>1. Changed(f) \/ Lost(f)
        BY <1>1, <1>5, <1>a, <1>b, <1>c, <2>2, Kinds
      <3>2. PICK i \in First(rows, keyed) :
              /\ KeyOf(old[e.at], keyed) = KeyOf(rows[i], keyed)
              /\ e = Entry(old[e.at], MAIN_ONLY, e.at, {i})
        BY <1>c, <2>2
      <3>3. i \in DOMAIN rows
        BY DEF First
      <3>4. ~Lost(f)
        BY <1>5, <1>d, <3>2, <3>3
      <3>5. PICK j \in First(rows, keyed) :
              /\ KeyOf(old[f.at], keyed) = KeyOf(rows[j], keyed)
              /\ f = Entry(old[f.at], MAIN_ONLY, f.at, {j})
        BY <1>c, <3>1, <3>4
      <3>6. i = j
        <4>1. KeyOf(rows[i], keyed) = KeyOf(rows[j], keyed)
          BY <1>5, <3>2, <3>5
        <4> QED
          BY <4>1, FirstAlone
      <3> QED
        BY <1>5, <3>2, <3>5, <3>6
    <2>3. CASE Lost(e)
      <3>1. Changed(f) \/ Lost(f)
        BY <1>1, <1>5, <1>a, <1>b, <1>d, <2>3, Kinds
      <3>2. ~Changed(f)
        <4> SUFFICES ASSUME Changed(f) PROVE FALSE
          OBVIOUS
        <4>1. PICK j \in First(rows, keyed) : KeyOf(old[f.at], keyed) = KeyOf(rows[j], keyed)
          BY <1>c
        <4>2. j \in DOMAIN rows
          BY DEF First
        <4> QED
          BY <1>5, <1>d, <2>3, <4>1, <4>2
      <3> QED
        BY <1>5, <1>d, <2>3, <3>1, <3>2
    <2> QED
      BY <1>1, <1>5, <2>1, <2>2, <2>3
  <1>m. /\ \A e : Same(e) => e.marker = BOTH
        /\ \A e : New(e) => e.marker = WAL_ONLY
        /\ \A e : Changed(e) \/ Lost(e) => e.marker = MAIN_ONLY
    BY <1>a, <1>b, <1>c, <1>d
  <1>6. ValuesOf(table, BOTH) = new \cap was
    <2>1. \A row : row \in ValuesOf(table, BOTH) <=> \E e : Same(e) /\ e.row = row
      BY <1>1, <1>m, Values, Kinds
    <2>2. ASSUME NEW row, row \in new /\ row \in was
          PROVE  row \in ValuesOf(table, BOTH)
      BY <1>3, <2>1, <2>2
    <2>3. ASSUME NEW row \in ValuesOf(table, BOTH)
          PROVE  row \in new /\ row \in was
      <3>1. PICK e : Same(e) /\ e.row = row
        BY <2>1
      <3> QED
        BY <1>a, <3>1
    <2> QED
      BY <2>2, <2>3
  <1>7. ValuesOf(table, WAL_ONLY) = new \ was
    <2>1. \A row : row \in ValuesOf(table, WAL_ONLY) <=> \E e : New(e) /\ e.row = row
      BY <1>1, <1>m, Values, Kinds
    <2>2. ASSUME NEW row, row \in new /\ row \notin was
          PROVE  row \in ValuesOf(table, WAL_ONLY)
      BY <1>3, <2>1, <2>2
    <2>3. ASSUME NEW row \in ValuesOf(table, WAL_ONLY)
          PROVE  row \in new /\ row \notin was
      <3>1. PICK e : New(e) /\ e.row = row
        BY <2>1
      <3> QED
        BY <1>b, <3>1
    <2> QED
      BY <2>2, <2>3
  <1>8. ValuesOf(table, MAIN_ONLY) = was \ new
    <2>1. \A row : row \in ValuesOf(table, MAIN_ONLY) <=> \E e : (Changed(e) \/ Lost(e)) /\ e.row = row
      BY <1>1, <1>m, Values, Kinds
    <2>2. ASSUME NEW row, row \in was /\ row \notin new
          PROVE  row \in ValuesOf(table, MAIN_ONLY)
      BY <1>4, <2>1, <2>2
    <2>3. ASSUME NEW row \in ValuesOf(table, MAIN_ONLY)
          PROVE  row \in was /\ row \notin new
      <3>1. PICK e : (Changed(e) \/ Lost(e)) /\ e.row = row
        BY <2>1
      <3> QED
        BY <1>c, <1>d, <3>1
    <2> QED
      BY <2>2, <2>3
  <1> QED
    BY <1>5, <1>6, <1>7, <1>8 DEF Once

(* Rows that are handed out as read. *)
LEMMA MarkedRight ==
  ASSUME NEW rows, NEW new, new = All(rows),
         NEW out, out = Marked(rows, DOMAIN rows, BOTH)
  PROVE  /\ ValuesOf(out, BOTH) = new /\ ValuesOf(out, WAL_ONLY) = {} /\ ValuesOf(out, MAIN_ONLY) = {}
         /\ Once(out)
  <1> new = {rows[i] : i \in DOMAIN rows}
    BY DEF All
  <1>1. ASSUME NEW e \in out
        PROVE  e.marker = BOTH /\ e.at \in DOMAIN rows /\ e.row = rows[e.at]
               /\ e = Entry(rows[e.at], BOTH, e.at, {e.at})
    <2>1. PICK i \in DOMAIN rows : e = Entry(rows[i], BOTH, i, {i})
      BY DEF Marked
    <2>2. e.row = rows[i] /\ e.at = i /\ e.marker = BOTH
      BY <2>1 DEF Entry
    <2> QED
      BY <2>1, <2>2
  <1>2. ASSUME NEW i \in DOMAIN rows
        PROVE  \E e \in out : e.row = rows[i]
    <2>1. Entry(rows[i], BOTH, i, {i}) \in out
      BY DEF Marked
    <2>2. Entry(rows[i], BOTH, i, {i}).row = rows[i]
      BY DEF Entry
    <2> QED
      BY <2>1, <2>2
  <1>3. ValuesOf(out, BOTH) = new
    <2>1. ASSUME NEW row \in new PROVE row \in ValuesOf(out, BOTH)
      <3>1. PICK e \in out : e.row = row
        BY <1>2
      <3>2. e.marker = BOTH
        BY <1>1
      <3> QED
        BY <3>1, <3>2, Values
    <2>2. ASSUME NEW row \in ValuesOf(out, BOTH) PROVE row \in new
      <3>1. PICK e \in out : e.row = row
        BY Values
      <3> QED
        BY <1>1, <3>1
    <2> QED
      BY <2>1, <2>2
  <1>4. ValuesOf(out, WAL_ONLY) = {} /\ ValuesOf(out, MAIN_ONLY) = {}
    <2>1. \A e \in out : e.marker # WAL_ONLY /\ e.marker # MAIN_ONLY
      BY <1>1, Kinds
    <2> QED
      BY <2>1 DEF ValuesOf
  <1>5. Once(out)
    BY <1>1 DEF Once
  <1> QED
    BY <1>3, <1>4, <1>5

(* query_both: whole rows, of which it tells only those the log removed. *)
LEMMA QueriedRight ==
  ASSUME NEW rows, NEW old,
         NEW new, new = All(rows),
         NEW was, was = All(old),
         NEW lost, lost = Missing(rows, old),
         NEW out, out = Marked(rows, DOMAIN rows, BOTH) \cup Removed(old, lost, {})
  PROVE  ValuesOf(out, BOTH) = new /\ ValuesOf(out, MAIN_ONLY) = was \ new /\ Once(out)
  <1> /\ new = {rows[i] : i \in DOMAIN rows} /\ was = {old[k] : k \in DOMAIN old}
      /\ lost = {k \in DOMAIN old : \A i \in DOMAIN rows : rows[i] # old[k]}
    BY DEF All, Missing
  <1> DEFINE read == Marked(rows, DOMAIN rows, BOTH)
             removed == Removed(old, lost, {})
  <1>1. /\ ValuesOf(read, BOTH) = new /\ ValuesOf(read, MAIN_ONLY) = {} /\ Once(read)
        /\ \A e \in read : e.marker = BOTH
    <2>1. \A e \in read : e.marker = BOTH
      BY DEF Marked, Entry
    <2> QED
      BY <2>1, MarkedRight
  <1>2. ASSUME NEW e \in removed
        PROVE  /\ e.marker = MAIN_ONLY /\ e.at \in lost /\ e.row = old[e.at]
               /\ e = Entry(old[e.at], MAIN_ONLY, e.at, {})
    <2>1. PICK k \in lost : e = Entry(old[k], MAIN_ONLY, k, {})
      BY DEF Removed
    <2>2. e.row = old[k] /\ e.at = k /\ e.marker = MAIN_ONLY
      BY <2>1 DEF Entry
    <2> QED
      BY <2>1, <2>2
  <1>3. ASSUME NEW k \in lost
        PROVE  \E e \in removed : e.row = old[k]
    <2>1. Entry(old[k], MAIN_ONLY, k, {}) \in removed
      BY DEF Removed
    <2>2. Entry(old[k], MAIN_ONLY, k, {}).row = old[k]
      BY DEF Entry
    <2> QED
      BY <2>1, <2>2
  <1>4. \A row : row \in was \ new <=> \E k \in lost : old[k] = row
    OBVIOUS
  <1>5. \A e : e \in out <=> e \in read \/ e \in removed
    OBVIOUS
  <1> HIDE DEF read, removed
  <1>6. ValuesOf(out, BOTH) = new
    <2>1. \A row : row \in ValuesOf(out, BOTH) <=> row \in ValuesOf(read, BOTH)
      <3>1. \A e \in removed : e.marker # BOTH
        BY <1>2, Kinds
      <3> QED
        BY <1>5, <3>1 DEF ValuesOf
    <2> QED
      BY <1>1, <2>1
  <1>7. ValuesOf(out, MAIN_ONLY) = was \ new
    <2>1. \A row : row \in ValuesOf(out, MAIN_ONLY) <=> \E e \in removed : e.row = row
      <3>1. \A e \in removed : e.marker = MAIN_ONLY
        BY <1>2
      <3>2. \A e \in read : e.marker # MAIN_ONLY
        BY <1>1, Kinds
      <3> QED
        BY <1>5, <3>1, <3>2 DEF ValuesOf
    <2>2. \A row : (\E e \in removed : e.row = row) <=> \E k \in lost : old[k] = row
      BY <1>2, <1>3
    <2> QED
      BY <1>4, <2>1, <2>2
  <1>8. Once(out)
    <2> SUFFICES ASSUME NEW e \in out, NEW f \in out, e.at = f.at,
                        e.marker = MAIN_ONLY <=> f.marker = MAIN_ONLY
                 PROVE  e = f
      BY DEF Once
    <2>1. CASE e \in read
      <3>1. f \in read
        BY <1>1, <1>2, <1>5, <2>1, Kinds
      <3> QED
        BY <1>1, <2>1, <3>1 DEF Once
    <2>2. CASE e \in removed
      <3>1. f \in removed
        BY <1>1, <1>2, <1>5, <2>2, Kinds
      <3> QED
        BY <1>2, <2>2, <3>1
    <2> QED
      BY <1>5, <2>1, <2>2
  <1> QED
    BY <1>6, <1>7, <1>8

(* A database without a log is read once. *)
Alike == view # NoView /\ view.single => view.mainOnly = view.merged

LEMMA AlikeKept == TypeOK /\ Alike /\ [Next]_vars => Alike'
  <1> SUFFICES ASSUME TypeOK, Alike, [Next]_vars
               PROVE  Alike'
    OBVIOUS
  <1>1. CASE UNCHANGED view
    BY <1>1 DEF Alike
  <1>2. CASE Close
    BY <1>2 DEF Close, Alike
  <1>3. ASSUME NEW d \in Databases, NEW inWork \in BOOLEAN, OpenViews(d, inWork)
        PROVE  Alike'
    <2>1. PICK merged : view' = [db |-> d, inWork |-> inWork, merged |-> merged, single |-> log[d] = <<>>,
                                 mainOnly |-> IF log[d] = <<>> THEN merged ELSE main[d]]
      BY <1>3 DEF OpenViews
    <2>2. view'.single <=> log[d] = <<>>
      BY <2>1
    <2>3. log[d] = <<>> => view'.mainOnly = view'.merged
      BY <2>1
    <2> QED
      BY <2>2, <2>3 DEF Alike
  <1> QED
    BY <1>1, <1>2, <1>3 DEF Next, Acquire, Write, Checkpoint, CloseApp, vars

(* Every row version of either reading is handed out, once, and its marker says which
   reading has it, for any pages and values, with a primary key and without. *)
THEOREM RowsAlwaysAccounted == Spec => []RowsAccounted
  <1>1. ASSUME Alike
        PROVE  RowsAccounted
    <2> SUFFICES ASSUME view # NoView, view.mainOnly # Unformed, NEW keyed \in BOOLEAN,
                        NEW new, new = Range(Fetch(view.merged, keyed)),
                        NEW was, was = Range(Fetch(view.mainOnly, keyed)),
                        NEW table, table = ReadTable(view, keyed),
                        NEW query, query = QueryBoth(view, keyed)
                 PROVE  /\ ValuesOf(table, BOTH) = new \cap was
                        /\ ValuesOf(table, WAL_ONLY) = new \ was
                        /\ ValuesOf(table, MAIN_ONLY) = was \ new
                        /\ ValuesOf(query, BOTH) = new
                        /\ ValuesOf(query, MAIN_ONLY) = was \ new
                        /\ Once(table) /\ Once(query)
      BY DEF RowsAccounted
    <2>1. PICK rows, old : rows = Fetch(view.merged, keyed) /\ old = Fetch(view.mainOnly, keyed)
      OBVIOUS
    <2>2. /\ DOMAIN rows \subseteq Nat
          /\ OneEach(rows, keyed) /\ new = All(rows) /\ was = All(old)
      BY <2>1, Fetched
    <2>3. CASE view.single
      <3>1. was = new
        BY <1>1, <2>3 DEF Alike
      <3>2. /\ table = Marked(rows, DOMAIN rows, BOTH)
            /\ query = Marked(rows, DOMAIN rows, BOTH)
        BY <2>1, <2>3 DEF ReadTable, QueryBoth
      <3>3. ValuesOf(table, BOTH) = new /\ ValuesOf(table, WAL_ONLY) = {} /\ ValuesOf(table, MAIN_ONLY) = {}
            /\ Once(table)
        BY <2>2, <3>2, MarkedRight
      <3> QED
        BY <3>1, <3>2, <3>3
    <2>4. CASE ~view.single
      <3>1. table = Compared(rows, old, keyed)
        BY <2>1, <2>4 DEF ReadTable
      <3>2. PICK lost : lost = Missing(rows, old)
        OBVIOUS
      <3>3. query = Marked(rows, DOMAIN rows, BOTH) \cup Removed(old, lost, {})
        BY <2>1, <2>4, <3>2 DEF QueryBoth, Missing
      <3>4. /\ ValuesOf(table, BOTH) = new \cap was /\ ValuesOf(table, WAL_ONLY) = new \ was
            /\ ValuesOf(table, MAIN_ONLY) = was \ new /\ Once(table)
        BY <2>2, <3>1, ComparedRight
      <3>5. ValuesOf(query, BOTH) = new /\ ValuesOf(query, MAIN_ONLY) = was \ new /\ Once(query)
        BY <2>2, <3>2, <3>3, QueriedRight
      <3> QED
        BY <3>4, <3>5
    <2> QED
      BY <2>3, <2>4
  <1>2. Init => Alike
    BY DEF Init, Alike
  <1> QED
    BY <1>1, <1>2, AlikeKept, TypeCorrect, PTL DEF Spec
=============================================================================
