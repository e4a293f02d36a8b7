------------------------ MODULE PartialClosure_proofs ------------------------
(***************************************************************************)
(* Proofs about PartialClosure, for every evidence, selection and policy:  *)
(* type correctness, and that building from a reviewed expansion gives the *)
(* reviewed rows.  The second rests on an invariant that follows the build *)
(* through both of its runs: in the first, that every included row belongs *)
(* to a report that was produced; in the second, that each kept row is     *)
(* found by its own id and, where the build was given no relations of its  *)
(* own, that none is followed, and that containment only ever adds the     *)
(* conversation of a kept message.                                         *)
(***************************************************************************)
EXTENDS PartialClosure, FiniteSetTheorems, WellFoundedInduction, TLAPS

\* the loop comes back for a pass only below the limit
PassBound == pc = "pass" => passes \in 0 .. MaxPasses

\* a row is included only when the report it belongs to was produced
RowsProduced ==
  /\ produced \in Productions
  /\ \A r \in included : Kind[r] \in produced

\* the file of the second build: every kept row, under its own id, and the
\* reason with those a relation had added
ReviewedFile ==
  /\ DOMAIN selection = reviewed
  /\ \A r \in reviewed : Kind[r] \in produced
  /\ \A r \in pulled : selection[r].why
  /\ overruled \/ (policy.relations = {} /\ ~ policy.transitive)

\* the second build's rows: what was kept, and conversations holding it,
\* and others only when it was given relations of its own
ReviewedRows ==
  /\ pc # "refused"
  /\ pc # "resolve" => /\ resolution.seeds = reviewed
                       /\ pulled \subseteq resolution.carried
                       /\ reviewed \subseteq included
                       /\ overruled \/ included \subseteq Held(reviewed)
  /\ pc = "resolve" => resolution.seeds = {}
  /\ pc = "done" => Holders(included) \subseteq included

SecondBuild ==
  reviewed # {} /\ reviewed \cap Positional = {} => ReviewedFile /\ ReviewedRows

IInv == TypeOK /\ PassBound /\ RowsProduced /\ SecondBuild

-----------------------------------------------------------------------------
(* Lemmas about the operators                                              *)

\* A ticked id is only ever resolved to rows of this run, of its own kind.
LEMMA FoundRows ==
  ASSUME NEW id \in Ids
  PROVE  Found(id) \subseteq {r \in Rows : Kind[r] = Kind[id] /\ Kind[r] \in produced}
PROOF
  <1>1. \A a : Named(id, a) \subseteq {r \in Rows : Kind[r] = Kind[id]}
    BY EvidenceAssumption DEF Named, Identified
  <1>2. ResolveOne(id) \subseteq {r \in Rows : Kind[r] = Kind[id]}
    BY <1>1 DEF ResolveOne, ByOwnId
  <1> QED BY <1>2 DEF Found

\* A row of this run whose id is no position is found by that id alone.
LEMMA FoundByOwnId ==
  ASSUME NEW id \in Rows \ Positional, Kind[id] \in produced
  PROVE  Found(id) = {id}
PROOF BY DEF Found, ResolveOne, ByOwnId

\* What holds an included row is a row, of a report that was produced.
LEMMA HoldersAreRows ==
  ASSUME NEW rows \in SUBSET Rows, produced \in Productions,
         \A r \in rows : Kind[r] \in produced
  PROVE  /\ Holders(rows) \subseteq Rows
         /\ \A c \in Holders(rows) : Kind[c] \in produced
PROOF
  <1>1. \A r \in rows \cap DOMAIN Parent :
          Parent[r] \in Rows /\ Kind[Parent[r]] = "conv" /\ "msg" \in produced
    BY EvidenceAssumption
  <1>2. "msg" \in produced => "conv" \in produced
    BY EvidenceAssumption
  <1> QED BY <1>1, <1>2 DEF Holders

\* Containment is reached in one turn: a conversation is held by nothing.
LEMMA HeldIsClosed ==
  ASSUME NEW rows \in SUBSET Rows, NEW more \in SUBSET Held(rows)
  PROVE  Holders(more) \subseteq Held(rows)
PROOF
  <1>1. SUFFICES ASSUME NEW r \in more \cap DOMAIN Parent
                 PROVE  Parent[r] \in Held(rows)
    BY DEF Holders
  <1>2. r \in rows
    <2>1. Kind[r] = "msg" BY <1>1, EvidenceAssumption
    <2>2. \A s \in DOMAIN Parent : Kind[Parent[s]] = "conv" BY EvidenceAssumption
    <2> QED BY <1>1, <2>1, <2>2 DEF Held
  <1> QED BY <1>1, <1>2, EvidenceAssumption DEF Held

\* Every reached row is a row of a produced report, reached from the frontier
\* by an enabled relation.
LEMMA ReachedRows ==
  ASSUME NEW p \in Reached, frontier \subseteq Rows
  PROVE  /\ p[1] \in Rows /\ Kind[p[1]] \in produced
         /\ p \in Ids \X [by : Reasons, from : Ids]
         /\ policy.relations # {}
PROOF
  <1>1. PICK q \in Enabled \X frontier :
          p \in { <<d, [by |-> q[1].key, from |-> q[2]]>> :
                    d \in {r \in Reachable(q[1], q[2]) : HasRow(r)} }
    BY DEF Reached
  <1>2. PICK d \in {r \in Reachable(q[1], q[2]) : HasRow(r)} :
          p = <<d, [by |-> q[1].key, from |-> q[2]]>>
    BY <1>1
  <1>3. d \in Rows /\ Kind[d] \in produced
    BY <1>2 DEF HasRow
  <1>4. q[1] \in RELATIONS /\ q[1].key \in policy.relations /\ q[2] \in Rows
    BY <1>1 DEF Enabled
  <1>5. q[1].key \in Reasons
    BY <1>4 DEF Reasons, Everything
  <1> QED BY <1>2, <1>3, <1>4, <1>5, EvidenceAssumption

-----------------------------------------------------------------------------
(* Repetition: a set of rows that an operator only enlarges has stopped    *)
(* growing once the operator was applied as often as there are rows.       *)

LEMMA LeastNumber ==
  ASSUME NEW S \in SUBSET Nat, S # {}
  PROVE  \E m \in S : \A n \in S : m <= n
PROOF
  <1> DEFINE R == {ss \in Nat \X Nat : ss[1] < ss[2]}
  <1>1. R = OpToRel(<, Nat) BY DEF OpToRel
  <1>2. IsWellFoundedOn(R, Nat) BY <1>1, NatLessThanWellFounded
  <1> HIDE DEF R
  <1>3. \E m \in S : \A n \in S : ~ (<<n, m>> \in R)
    BY <1>2, WFMin
  <1>4. \A m, n \in S : <<n, m>> \in R <=> n < m
    BY DEF R
  <1>5. PICK m \in S : \A n \in S : ~ (n < m)
    BY <1>3, <1>4
  <1> QED BY <1>5

\* g is the first m repetitions of F on start
Repeats(g, F, start, m) ==
  g = [n \in 0 .. m |-> IF n = 0 THEN start ELSE F[g[n - 1]]]

LEMMA RepeatsExist ==
  ASSUME NEW F, NEW start, NEW m \in Nat
  PROVE  \E g : Repeats(g, F, start, m)
PROOF
  <1> DEFINE B == {n \in Nat : ~ \E g : Repeats(g, F, start, n)}
  <1>1. SUFFICES B = {} OBVIOUS
  <1>2. SUFFICES ASSUME B # {} PROVE FALSE OBVIOUS
  <1>3. PICK k \in B : \A n \in B : k <= n
    BY <1>2, LeastNumber
  <1>4. CASE k = 0
    <2>1. PICK g : g = [n \in 0 .. 0 |-> start] OBVIOUS
    <2>2. g = [n \in 0 .. 0 |-> IF n = 0 THEN start ELSE F[g[n - 1]]]
      BY <2>1
    <2> QED BY <1>3, <1>4, <2>2 DEF Repeats
  <1>5. CASE k # 0
    <2>1. k - 1 \in Nat /\ k - 1 \notin B
      BY <1>3, <1>5
    <2>2. PICK g : Repeats(g, F, start, k - 1)
      BY <2>1
    <2>3. g = [n \in 0 .. k - 1 |-> IF n = 0 THEN start ELSE F[g[n - 1]]]
      BY <2>2 DEF Repeats
    <2>4. PICK h : h = [n \in 0 .. k |-> IF n = k THEN F[g[k - 1]] ELSE g[n]]
      OBVIOUS
    <2>5. ASSUME NEW n \in 0 .. k
          PROVE  h[n] = IF n = 0 THEN start ELSE F[h[n - 1]]
      <3>1. CASE n = 0
        BY <1>5, <2>1, <2>3, <2>4, <3>1
      <3>2. CASE n # 0 /\ n # k
        <4>1. n \in 0 .. k - 1 /\ n - 1 \in 0 .. k /\ n - 1 # k
          BY <2>1, <3>2
        <4>2. h[n] = g[n] /\ h[n - 1] = g[n - 1]
          BY <2>4, <3>2, <4>1
        <4> QED BY <2>3, <3>2, <4>1, <4>2
      <3>3. CASE n = k
        <4>1. k - 1 \in 0 .. k /\ k - 1 # k
          BY <2>1
        <4> QED BY <1>5, <2>4, <3>3, <4>1
      <3> QED BY <3>1, <3>2, <3>3
    <2>6. h = [n \in 0 .. k |-> h[n]]
      BY <2>4
    <2>7. h = [n \in 0 .. k |-> IF n = 0 THEN start ELSE F[h[n - 1]]]
      BY <2>5, <2>6
    <2> QED BY <1>3, <2>7 DEF Repeats
  <1> QED BY <1>4, <1>5

LEMMA IteratedIsClosed ==
  ASSUME NEW F \in [SUBSET Rows -> SUBSET Rows], NEW start \in SUBSET Rows,
         \A S \in SUBSET Rows : S \subseteq F[S]
  PROVE  /\ Iterated(F, start) \in SUBSET Rows /\ start \subseteq Iterated(F, start)
         /\ F[Iterated(F, start)] = Iterated(F, start)
PROOF
  <1>1. PICK c \in Nat : c = Cardinality(Rows)
    BY EvidenceAssumption, FS_CardinalityType
  <1>2. PICK g : Repeats(g, F, start, c) /\ Iterated(F, start) = g[c]
    <2> DEFINE g == CHOOSE x : Repeats(x, F, start, c)
    <2>1. Repeats(g, F, start, c)
      BY RepeatsExist
    <2>2. Iterated(F, start) = g[c]
      BY <1>1 DEF Iterated, Repeats
    <2> QED BY <2>1, <2>2
  <1>3. \A n \in 0 .. c : g[n] = IF n = 0 THEN start ELSE F[g[n - 1]]
    BY <1>2 DEF Repeats
  <1> DEFINE Good(n) == /\ g[n] \in SUBSET Rows /\ start \subseteq g[n]
                        /\ F[g[n]] = g[n] \/ n <= Cardinality(g[n])
             B == {n \in 0 .. c : ~ Good(n)}
  <1>4. B = {}
    <2> SUFFICES ASSUME B # {} PROVE FALSE OBVIOUS
    <2>1. PICK k \in B : \A n \in B : k <= n
      <3>1. B \in SUBSET Nat OBVIOUS
      <3> HIDE DEF B
      <3> QED BY <3>1, LeastNumber
    <2>2. CASE k = 0
      <3>1. g[k] = start BY <1>3, <2>2
      <3>2. Cardinality(start) \in Nat
        BY EvidenceAssumption, FS_Subset, FS_CardinalityType
      <3> QED BY <2>1, <2>2, <3>1, <3>2
    <2>3. CASE k # 0
      <3>1. k - 1 \in 0 .. c /\ k \in 0 .. c /\ k - 1 \notin B
        BY <2>1, <2>3
      <3>2. PICK old \in SUBSET Rows, new \in SUBSET Rows :
              old = g[k - 1] /\ new = g[k] /\ new = F[old]
        <4>1. Good(k - 1)
          BY <3>1
        <4>2. g[k - 1] \in SUBSET Rows
          BY <4>1
        <4>3. g[k] = F[g[k - 1]]
          BY <1>3, <2>3, <3>1
        <4> HIDE DEF Good, B
        <4>4. F[g[k - 1]] \in SUBSET Rows
          BY <4>2
        <4> QED BY <4>2, <4>3, <4>4
      <3>3. start \subseteq old /\ old \subseteq new /\ (F[old] = old \/ k - 1 <= Cardinality(old))
        BY <3>1, <3>2
      <3>4. CASE F[old] = old
        BY <2>1, <3>2, <3>3, <3>4
      <3>5. CASE F[old] # old
        <4>1. IsFiniteSet(new) /\ IsFiniteSet(old)
          BY EvidenceAssumption, FS_Subset
        <4>2. Cardinality(old) < Cardinality(new)
          <5>1. Cardinality(old) <= Cardinality(new)
                /\ (Cardinality(old) = Cardinality(new) => old = new)
            BY <3>3, <4>1, FS_Subset
          <5>2. Cardinality(old) \in Nat /\ Cardinality(new) \in Nat
            BY <4>1, FS_CardinalityType
          <5> QED BY <3>2, <3>5, <5>1, <5>2
        <4>3. Cardinality(old) \in Nat /\ Cardinality(new) \in Nat
          BY <4>1, FS_CardinalityType
        <4>4. k <= Cardinality(new)
          BY <3>1, <3>3, <3>5, <4>2, <4>3
        <4> QED BY <2>1, <3>2, <3>3, <4>4
      <3> QED BY <3>4, <3>5
    <2> QED BY <2>2, <2>3
  <1>5. Good(c)
    BY <1>4
  <1>6. c <= Cardinality(g[c]) => g[c] = Rows
    BY <1>1, <1>5, EvidenceAssumption, FS_Subset, FS_CardinalityType
  <1>7. F[Rows] = Rows
    <2>1. F[Rows] \in SUBSET Rows /\ Rows \subseteq F[Rows] OBVIOUS
    <2> QED BY <2>1
  <1> QED BY <1>2, <1>5, <1>6, <1>7

-----------------------------------------------------------------------------
(* The invariant                                                           *)

LEMMA InitIInv == Init => IInv
PROOF
  <1> SUFFICES ASSUME Init PROVE IInv OBVIOUS
  <1>1. TypeOK
    <2>1. /\ DOMAIN selection \subseteq Ids
          /\ policy \in [relations : SUBSET Everything, transitive : BOOLEAN,
                         unresolved : {"refuse", "drop"}]
          /\ produced \subseteq KINDS /\ 0 \in 0 .. MaxPasses + 1
      BY EvidenceAssumption DEF Init
    <2>2. resolution.seeds = {} /\ resolution.carried = {}
      BY DEF Init, Unresolved
    <2>3. /\ pc = "resolve" /\ included = {} /\ reasons = {} /\ frontier = {}
          /\ added = {} /\ passes = 0 /\ stopped = FALSE /\ reviewed = {} /\ pulled = {}
          /\ overruled = FALSE
      BY DEF Init
    <2>4. {} \subseteq Ids \X [by : Reasons, from : Ids] OBVIOUS
    <2> QED BY <2>1, <2>2, <2>3, <2>4 DEF TypeOK
  <1>2. PassBound /\ RowsProduced /\ SecondBuild
    BY DEF Init, PassBound, RowsProduced, SecondBuild
  <1> QED BY <1>1, <1>2 DEF IInv

\* Steps that leave the resolution and the input alone keep the second
\* build's file.
LEMMA FileKept ==
  ASSUME ReviewedFile, UNCHANGED input
  PROVE  ReviewedFile'
PROOF BY DEF ReviewedFile, input

LEMMA SeedsRows ==
  ASSUME DOMAIN selection \subseteq Ids
  PROVE  Seeds \subseteq {r \in Rows : Kind[r] \in produced}
PROOF BY FoundRows DEF Seeds

LEMMA ResolveStep == IInv /\ Resolve => IInv'
PROOF
  <1> SUFFICES ASSUME IInv, Resolve PROVE IInv' OBVIOUS
  <1> USE DEF IInv
  <1>1. Seeds \subseteq {r \in Rows : Kind[r] \in produced}
    BY SeedsRows DEF TypeOK
  <1>2. UNION {Found(id) : id \in {t \in DOMAIN selection : selection[t].why}} \subseteq Seeds
    BY DEF Seeds
  <1>3. TypeOK'
    <2>1. resolution'.seeds = Seeds
          /\ resolution'.carried = UNION {Found(id) : id \in {t \in DOMAIN selection : selection[t].why}}
      BY DEF Resolve
    <2>2. reasons' \subseteq Ids \X [by : Reasons, from : Ids]
      <3>1. Seeds \subseteq Ids BY <1>1, EvidenceAssumption
      <3> QED BY <3>1 DEF Resolve, Reasons
    <2>3. pc' = "pass" /\ included' = Seeds /\ frontier' = Seeds /\ added' = {}
          /\ passes' = 0 /\ stopped' = FALSE
      BY DEF Resolve
    <2>4. UNCHANGED <<selection, policy, produced, reviewed, pulled, overruled>>
      BY DEF Resolve, input
    <2>5. 0 \in 0 .. MaxPasses + 1 BY EvidenceAssumption
    <2> QED BY <1>1, <1>2, <2>1, <2>2, <2>3, <2>4, <2>5 DEF TypeOK
  <1>4. PassBound'
    BY EvidenceAssumption DEF Resolve, PassBound
  <1>5. RowsProduced'
    BY <1>1 DEF Resolve, RowsProduced, input
  <1>6. SecondBuild'
    <2>1. SUFFICES ASSUME reviewed' # {}, reviewed' \cap Positional = {}
                   PROVE  ReviewedFile' /\ ReviewedRows'
      BY DEF SecondBuild
    <2>2. ReviewedFile /\ UNCHANGED input
      BY <2>1 DEF SecondBuild, Resolve, input
    <2>3. \A r \in reviewed : Found(r) = {r}
      <3>1. reviewed \subseteq Rows \ Positional
        BY <2>1, <2>2 DEF TypeOK, input
      <3> QED BY <2>2, <3>1, FoundByOwnId DEF ReviewedFile
    <2>4. Seeds = reviewed
      BY <2>2, <2>3 DEF Seeds, ReviewedFile
    <2>5. pulled \subseteq resolution'.carried
      <3>1. resolution'.carried = UNION {Found(id) : id \in {t \in DOMAIN selection : selection[t].why}}
        BY DEF Resolve
      <3>2. \A r \in pulled : r \in Found(r) /\ r \in {t \in DOMAIN selection : selection[t].why}
        BY <2>2, <2>3 DEF ReviewedFile, TypeOK
      <3> QED BY <3>1, <3>2
    <2>6. ReviewedRows'
      BY <2>2, <2>4, <2>5 DEF ReviewedRows, Resolve, Held, input
    <2> QED BY <2>2, <2>6, FileKept
  <1> QED BY <1>3, <1>4, <1>5, <1>6

LEMMA ResolveRaisesStep == IInv /\ ResolveRaises => IInv'
PROOF
  <1> SUFFICES ASSUME IInv, ResolveRaises PROVE IInv' OBVIOUS
  <1> USE DEF IInv
  <1>1. TypeOK' /\ PassBound' /\ RowsProduced'
    BY DEF ResolveRaises, TypeOK, PassBound, RowsProduced, input
  <1>2. SecondBuild'
    <2>1. SUFFICES ASSUME reviewed' # {}, reviewed' \cap Positional = {} PROVE FALSE
      BY DEF SecondBuild
    <2>2. ReviewedFile
      BY <2>1 DEF SecondBuild, ResolveRaises, input
    <2>3. \A r \in reviewed : Found(r) = {r}
      <3>1. reviewed \subseteq Rows \ Positional
        BY <2>1 DEF TypeOK, ResolveRaises, input
      <3> QED BY <2>2, <3>1, FoundByOwnId DEF ReviewedFile
    <2>4. Ambiguous = {} /\ Missing = {}
      BY <2>2, <2>3 DEF Ambiguous, Missing, ReviewedFile
    <2> QED BY <2>4 DEF ResolveRaises, Refused
  <1> QED BY <1>1, <1>2

LEMMA PassStep == IInv /\ Pass => IInv'
PROOF
  <1> SUFFICES ASSUME IInv, Pass PROVE IInv' OBVIOUS
  <1> USE DEF IInv
  <1> DEFINE to == {p[1] : p \in Reached}
  <1>1. /\ included' = included \cup to /\ added' = to \ included
        /\ reasons' = reasons \cup Reached
        /\ passes' = passes + 1 /\ pc = "pass" /\ pc' = "contain"
        /\ UNCHANGED <<input, resolution, frontier, stopped>>
    BY DEF Pass, NewReasons
  <1>2. \A p \in Reached : /\ p[1] \in Rows /\ Kind[p[1]] \in produced
                           /\ p \in Ids \X [by : Reasons, from : Ids]
                           /\ policy.relations # {}
    BY ReachedRows DEF TypeOK
  <1>3. to \subseteq {r \in Rows : Kind[r] \in produced}
    BY <1>2
  <1>4. TypeOK'
    <2>1. passes' \in 0 .. MaxPasses + 1
      BY <1>1, EvidenceAssumption DEF PassBound
    <2>2. reasons' \subseteq Ids \X [by : Reasons, from : Ids]
      BY <1>1, <1>2 DEF TypeOK
    <2> HIDE DEF to
    <2> QED BY <1>1, <1>3, <2>1, <2>2 DEF TypeOK, input
  <1>5. PassBound' /\ RowsProduced'
    <2> HIDE DEF to
    <2> QED BY <1>1, <1>3 DEF PassBound, RowsProduced, input
  <1>6. SecondBuild'
    <2>1. SUFFICES ASSUME reviewed' # {}, reviewed' \cap Positional = {}
                   PROVE  ReviewedFile' /\ ReviewedRows'
      BY DEF SecondBuild
    <2>2. ReviewedFile /\ ReviewedRows /\ UNCHANGED input
      BY <1>1, <2>1 DEF SecondBuild, input
    <2>3. overruled \/ to = {}
      BY <1>2, <2>2 DEF ReviewedFile
    <2> HIDE DEF to
    <2>4. ReviewedRows'
      BY <1>1, <2>2, <2>3 DEF ReviewedRows, Held, input
    <2> QED BY <2>2, <2>4, FileKept
  <1> QED BY <1>4, <1>5, <1>6

LEMMA FrontierEmptyStep == IInv /\ FrontierEmpty => IInv'
PROOF
  <1> SUFFICES ASSUME IInv, FrontierEmpty PROVE IInv' OBVIOUS
  <1> USE DEF IInv
  <1>1. TypeOK' /\ PassBound' /\ RowsProduced'
    BY DEF FrontierEmpty, TypeOK, PassBound, RowsProduced, input
  <1>2. SecondBuild'
    <2>1. SecondBuild /\ UNCHANGED input BY DEF FrontierEmpty
    <2> QED BY <2>1, FileKept DEF SecondBuild, FrontierEmpty, ReviewedRows, Held, input
  <1> QED BY <1>1, <1>2

LEMMA ContainStep == IInv /\ Contain => IInv'
PROOF
  <1> SUFFICES ASSUME IInv, Contain PROVE IInv' OBVIOUS
  <1> USE DEF IInv
  <1> DEFINE more == { <<Parent[r], [by |-> "holds", from |-> r]>> :
                         r \in included \cap DOMAIN Parent }
  <1>1. /\ included' = included \cup Holders(included)
        /\ reasons' = reasons \cup more
        /\ pc \in {"contain", "last"} /\ pc' \in {pc, "done", "decide"}
        /\ pc' = "done" => Holders(included) \subseteq included
        /\ UNCHANGED <<input, resolution, frontier, added, passes, stopped>>
    BY DEF Contain, Changed
  <1>2. /\ Holders(included) \subseteq Rows
        /\ \A c \in Holders(included) : Kind[c] \in produced
    BY HoldersAreRows DEF TypeOK, RowsProduced
  <1>3. TypeOK'
    <2>1. more \subseteq Ids \X [by : Reasons, from : Ids]
      BY EvidenceAssumption DEF TypeOK, Reasons
    <2> HIDE DEF more
    <2> QED BY <1>1, <1>2, <2>1, EvidenceAssumption DEF TypeOK, input
  <1> HIDE DEF more
  <1>4. PassBound' /\ RowsProduced'
    BY <1>1, <1>2 DEF PassBound, RowsProduced, input
  <1>5. SecondBuild'
    <2>1. SUFFICES ASSUME reviewed' # {}, reviewed' \cap Positional = {}
                   PROVE  ReviewedFile' /\ ReviewedRows'
      BY DEF SecondBuild
    <2>2. ReviewedFile /\ ReviewedRows /\ UNCHANGED input
      BY <1>1, <2>1 DEF SecondBuild, input
    <2>3. overruled \/ Holders(included) \subseteq Held(reviewed)
      BY <1>1, <2>2, HeldIsClosed DEF ReviewedRows, TypeOK
    <2>4. pc' = "done" => included' = included
      BY <1>1
    <2>5. /\ Held(reviewed)' = Held(reviewed) /\ reviewed' = reviewed /\ pulled' = pulled
          /\ overruled' = overruled
      BY <2>2 DEF Held, input
    <2>6. ReviewedRows'
      BY <1>1, <2>2, <2>3, <2>4, <2>5 DEF ReviewedRows
    <2> QED BY <2>2, <2>6, FileKept
  <1> QED BY <1>3, <1>4, <1>5

LEMMA NextFrontierStep == IInv /\ NextFrontier => IInv'
PROOF
  <1> SUFFICES ASSUME IInv, NextFrontier PROVE IInv' OBVIOUS
  <1> USE DEF IInv
  <1>1. TypeOK'
    <2>1. /\ frontier' \in {frontier, added} /\ pc' \in {"last", "pass"}
          /\ UNCHANGED <<input, resolution, included, reasons, added, passes>>
      BY DEF NextFrontier
    <2>2. stopped' \in BOOLEAN
      BY DEF NextFrontier, TypeOK
    <2> QED BY <2>1, <2>2 DEF TypeOK, input
  <1>2. PassBound' /\ RowsProduced'
    BY EvidenceAssumption DEF NextFrontier, TooManyPasses, TypeOK, PassBound, RowsProduced, input
  <1>3. SecondBuild'
    <2>1. SecondBuild /\ UNCHANGED <<input, resolution, included>>
          /\ pc = "decide" /\ pc' \in {"last", "pass"}
      BY DEF NextFrontier
    <2> QED BY <2>1, FileKept DEF SecondBuild, ReviewedRows, Held, input
  <1> QED BY <1>1, <1>2, <1>3

LEMMA ReviewStep == IInv /\ Review => IInv'
PROOF
  <1> SUFFICES ASSUME IInv, Review PROVE IInv' OBVIOUS
  <1> USE DEF IInv
  <1>1. /\ reviewed' \subseteq included
        /\ pulled' = reviewed' \ resolution.seeds
    BY DEF Review
  <1>2. PICK was : selection' = [r \in reviewed' |-> KeyRecord(r, IF r \in DOMAIN was THEN was[r] ELSE r)]
    BY DEF Review
  <1>3. /\ TakesPolicy(ExpandedPolicy) /\ pc' = "resolve" /\ resolution' = Unresolved
        /\ included' = {} /\ reasons' = {} /\ frontier' = {} /\ added' = {}
        /\ passes' = 0 /\ stopped' = FALSE /\ produced' = produced
    BY DEF Review
  <1>4. /\ policy' \in [relations : SUBSET Everything, transitive : BOOLEAN,
                        unresolved : {"refuse", "drop"}]
        /\ overruled' \in BOOLEAN
        /\ overruled' \/ (policy'.relations = {} /\ ~ policy'.transitive)
    <2>1. CASE policy' = ExpandedPolicy /\ overruled' = FALSE
      BY <2>1 DEF TypeOK, ExpandedPolicy, Minimal
    <2>2. CASE policy' \in Overruling /\ overruled' = TRUE
      <3>1. Overruling \subseteq [relations : SUBSET Everything, transitive : BOOLEAN,
                                  unresolved : {"refuse", "drop"}]
        BY EvidenceAssumption
      <3> QED BY <2>2, <3>1
    <2> QED BY <1>3, <2>1, <2>2 DEF TakesPolicy
  <1>5. resolution'.seeds = {} /\ resolution'.carried = {}
    BY <1>3 DEF Unresolved
  <1>6. TypeOK'
    <2>1. DOMAIN selection' \subseteq Ids
      BY <1>1, <1>2, EvidenceAssumption DEF TypeOK
    <2>2. 0 \in 0 .. MaxPasses + 1 BY EvidenceAssumption
    <2>3. {} \subseteq Ids \X [by : Reasons, from : Ids] OBVIOUS
    <2> QED BY <1>1, <1>3, <1>4, <1>5, <2>1, <2>2, <2>3 DEF TypeOK
  <1>7. PassBound' /\ RowsProduced'
    BY <1>3 DEF PassBound, RowsProduced
  <1>8. ReviewedFile'
    <2>1. \A r \in pulled' : selection'[r].why
      BY <1>1, <1>2 DEF KeyRecord
    <2>2. \A r \in reviewed' : Kind[r] \in produced'
      BY <1>1, <1>3 DEF RowsProduced
    <2> QED BY <1>2, <1>4, <2>1, <2>2 DEF ReviewedFile
  <1>9. ReviewedRows'
    BY <1>3, <1>5 DEF ReviewedRows
  <1> QED BY <1>6, <1>7, <1>8, <1>9 DEF SecondBuild

LEMMA StepIInv == IInv /\ [Next]_vars => IInv'
PROOF
  <1> SUFFICES ASSUME IInv, [Next]_vars PROVE IInv' OBVIOUS
  <1>1. CASE UNCHANGED vars
    BY <1>1 DEF IInv, TypeOK, PassBound, RowsProduced, SecondBuild, ReviewedFile,
                ReviewedRows, Held, Holders, vars
  <1>2. CASE Build
    BY <1>2, ResolveStep, ResolveRaisesStep, PassStep, FrontierEmptyStep,
       ContainStep, NextFrontierStep DEF Build
  <1>3. CASE Review
    BY <1>3, ReviewStep
  <1>4. CASE Over
    BY <1>1, <1>4 DEF Over
  <1> QED BY <1>1, <1>2, <1>3, <1>4 DEF Next

-----------------------------------------------------------------------------
(* The theorems                                                            *)

THEOREM Invariant == Spec => []IInv
PROOF BY InitIInv, StepIInv, PTL DEF Spec

(* The closure holds only rows of this run, for every evidence and policy, *)
(* and its passes never exceed the limit by more than the one that finds   *)
(* the limit reached.                                                      *)
THEOREM TypeCorrect == Spec => []TypeOK
PROOF
  <1>1. IInv => TypeOK BY DEF IInv
  <1> QED BY <1>1, Invariant, PTL

(* A build from a reviewed expansion is never refused, holds the kept rows *)
(* and the conversations of the kept messages -- exactly these when it was *)
(* not given relations of its own -- and presents none of the added rows   *)
(* as chosen, when no kept row is a positional message.                    *)
THEOREM ReviewedStability == Spec => []ReviewedStable
PROOF
  <1>1. IInv => ReviewedStable
    <2> SUFFICES ASSUME IInv, reviewed # {}, reviewed \cap Positional = {}
                 PROVE  /\ pc # "refused"
                        /\ pc = "done" => /\ Held(reviewed) \subseteq included
                                          /\ overruled \/ included = Held(reviewed)
                        /\ Chosen \cap pulled = {}
      BY DEF ReviewedStable
    <2>1. ReviewedRows BY DEF IInv, SecondBuild
    <2>2. ASSUME pc = "done"
          PROVE  Held(reviewed) \subseteq included /\ (overruled \/ included = Held(reviewed))
      <3>1. /\ reviewed \subseteq included /\ (overruled \/ included \subseteq Held(reviewed))
            /\ Holders(included) \subseteq included
        BY <2>1, <2>2 DEF ReviewedRows
      <3>2. Held(reviewed) \subseteq included
        BY <3>1 DEF Held, Holders
      <3> QED BY <3>1, <3>2
    <2>3. Chosen \cap pulled = {}
      BY <2>1 DEF Chosen, ReviewedRows
    <2> QED BY <2>1, <2>2, <2>3 DEF ReviewedRows
  <1> QED BY <1>1, Invariant, PTL

-----------------------------------------------------------------------------
(* What the relations lead to.  A hop is stated here over one pair of rows; *)
(* the model's Hops and Reached are two ways to collect them.              *)

\* an enabled relation leads from s to d along a recorded edge, in either direction
Hop(s, d) ==
  \E l \in Links, q \in RELATIONS :
    /\ Kind[l.src] \in produced /\ <<s, d>> \in Ends(l)
    /\ q.key \in policy.relations /\ q.edge \in {l.edge, "any"}
    /\ q.src = Kind[s] /\ q.dst \in {Kind[d], "any"}

LEMMA HopsAreHops ==
  /\ \A h \in Hops : h = <<h[1], h[2]>> /\ Hop(h[1], h[2])
  /\ \A s, d : Hop(s, d) => <<s, d>> \in Hops
PROOF
  <1>1. ASSUME NEW h \in Hops
        PROVE  h = <<h[1], h[2]>> /\ Hop(h[1], h[2])
    <2>1. PICK l \in Links, q \in RELATIONS :
            /\ Kind[l.src] \in produced
            /\ q.key \in policy.relations /\ q.edge \in {l.edge, "any"}
            /\ \/ h = <<l.src, l.dst>> /\ q.src = Kind[l.src] /\ q.dst \in {Kind[l.dst], "any"}
               \/ h = <<l.dst, l.src>> /\ q.src = Kind[l.dst] /\ q.dst \in {Kind[l.src], "any"}
      BY DEF Hops
    <2>2. CASE h = <<l.src, l.dst>> /\ q.src = Kind[l.src] /\ q.dst \in {Kind[l.dst], "any"}
      <3>1. h[1] = l.src /\ h[2] = l.dst /\ <<h[1], h[2]>> \in Ends(l)
        BY <2>2 DEF Ends
      <3> QED BY <2>1, <2>2, <3>1 DEF Hop
    <2>3. CASE h = <<l.dst, l.src>> /\ q.src = Kind[l.dst] /\ q.dst \in {Kind[l.src], "any"}
      <3>1. h[1] = l.dst /\ h[2] = l.src /\ <<h[1], h[2]>> \in Ends(l)
        BY <2>3 DEF Ends
      <3> QED BY <2>1, <2>3, <3>1 DEF Hop
    <2> QED BY <2>1, <2>2, <2>3
  <1>2. ASSUME NEW s, NEW d, Hop(s, d)
        PROVE  <<s, d>> \in Hops
    <2>1. PICK l \in Links, q \in RELATIONS :
            /\ Kind[l.src] \in produced /\ <<s, d>> \in Ends(l)
            /\ q.key \in policy.relations /\ q.edge \in {l.edge, "any"}
            /\ q.src = Kind[s] /\ q.dst \in {Kind[d], "any"}
      BY <1>2 DEF Hop
    <2>2. (s = l.src /\ d = l.dst) \/ (s = l.dst /\ d = l.src)
      BY <2>1 DEF Ends
    <2>3. CASE s = l.src /\ d = l.dst
      <3>1. <<s, d>> \in {<<l.src, l.dst>> : rel \in {r \in RELATIONS :
              /\ r.key \in policy.relations /\ r.edge \in {l.edge, "any"}
              /\ r.src = Kind[l.src] /\ r.dst \in {Kind[l.dst], "any"}}}
        BY <2>1, <2>3
      <3> QED BY <2>1, <3>1 DEF Hops
    <2>4. CASE s = l.dst /\ d = l.src
      <3>1. <<s, d>> \in {<<l.dst, l.src>> : rel \in {r \in RELATIONS :
              /\ r.key \in policy.relations /\ r.edge \in {l.edge, "any"}
              /\ r.src = Kind[l.dst] /\ r.dst \in {Kind[l.src], "any"}}}
        BY <2>1, <2>4
      <3> QED BY <2>1, <3>1 DEF Hops
    <2> QED BY <2>2, <2>3, <2>4
  <1> QED BY <1>1, <1>2

LEMMA HopFromIsHops ==
  \A rows, d : d \in HopFrom(Hops, rows) <=> (HasRow(d) /\ \E s \in rows : Hop(s, d))
PROOF
  <1>1. ASSUME NEW rows, NEW d, d \in HopFrom(Hops, rows)
        PROVE  HasRow(d) /\ \E s \in rows : Hop(s, d)
    <2>1. PICK h \in Hops : h[1] \in rows /\ h[2] \in Rows /\ Kind[h[2]] \in produced /\ d = h[2]
      BY <1>1 DEF HopFrom
    <2> QED BY <2>1, HopsAreHops DEF HasRow
  <1>2. ASSUME NEW rows, NEW d, HasRow(d), NEW s \in rows, Hop(s, d)
        PROVE  d \in HopFrom(Hops, rows)
    <2>1. PICK h \in Hops : h = <<s, d>>
      BY <1>2, HopsAreHops
    <2>2. h[1] = s /\ h[2] = d BY <2>1
    <2> QED BY <1>2, <2>2 DEF HopFrom, HasRow
  <1> QED BY <1>1, <1>2

LEMMA ReachedAreHops ==
  /\ \A p \in Reached : /\ HasRow(p[1]) /\ p[2].from \in frontier /\ Hop(p[2].from, p[1])
  /\ \A s \in frontier : \A d : HasRow(d) /\ Hop(s, d) /\ d # s => \E p \in Reached : p[1] = d
PROOF
  <1>1. ASSUME NEW p \in Reached
        PROVE  HasRow(p[1]) /\ p[2].from \in frontier /\ Hop(p[2].from, p[1])
    <2>1. PICK hop \in Enabled \X frontier :
            /\ Kind[hop[2]] = hop[1].src
            /\ p \in { <<d, [by |-> hop[1].key, from |-> hop[2]]>> :
                         d \in {r \in Reachable(hop[1], hop[2]) : HasRow(r)} }
      BY DEF Reached
    <2>2. PICK q \in Enabled, s \in frontier : hop = <<q, s>> /\ hop[1] = q /\ hop[2] = s
      BY <2>1
    <2>3. PICK d \in Reachable(q, s) : HasRow(d) /\ p = <<d, [by |-> q.key, from |-> s]>>
      BY <2>1, <2>2
    <2>4. p[1] = d /\ p[2].from = s
      BY <2>3
    <2>5. PICK l \in Links : /\ Kind[l.src] \in produced /\ q.edge \in {"any", l.edge}
                             /\ <<s, d>> \in Ends(l) /\ q.dst \in {"any", Kind[d]}
      BY <2>3 DEF Reachable, Ends
    <2>6. q \in RELATIONS /\ q.key \in policy.relations /\ q.src = Kind[s]
      BY <2>1, <2>2 DEF Enabled
    <2>7. Hop(s, d)
      BY <2>5, <2>6 DEF Hop
    <2> QED BY <2>3, <2>4, <2>7
  <1>2. ASSUME NEW s \in frontier, NEW d, HasRow(d), Hop(s, d), d # s
        PROVE  \E p \in Reached : p[1] = d
    <2>1. PICK l \in Links, q \in RELATIONS :
            /\ Kind[l.src] \in produced /\ <<s, d>> \in Ends(l)
            /\ q.key \in policy.relations /\ q.edge \in {l.edge, "any"}
            /\ q.src = Kind[s] /\ q.dst \in {Kind[d], "any"}
      BY <1>2 DEF Hop
    <2>2. d \in Reachable(q, s)
      <3>1. PICK e : e = <<s, d>> OBVIOUS
      <3>2. e[1] = s /\ e[2] = d BY <3>1
      <3>3. e \in Ends(l) BY <2>1, <3>1
      <3> QED BY <1>2, <2>1, <3>2, <3>3 DEF Reachable
    <2>3. PICK hop \in Enabled \X frontier : hop = <<q, s>>
      BY <2>1 DEF Enabled
    <2>4. hop[1] = q /\ hop[2] = s
      BY <2>3
    <2>5. PICK p : p = <<d, [by |-> q.key, from |-> s]>>
      OBVIOUS
    <2>6. p \in Reached
      <3>1. p \in { <<r, [by |-> hop[1].key, from |-> hop[2]]>> :
                     r \in {x \in Reachable(hop[1], hop[2]) : HasRow(x)} }
        BY <1>2, <2>2, <2>4, <2>5
      <3>2. hop \in {h \in Enabled \X frontier : Kind[h[2]] = h[1].src}
        BY <2>1, <2>3, <2>4
      <3> QED BY <3>1, <3>2 DEF Reached
    <2>7. p[1] = d
      BY <2>5
    <2> QED BY <2>6, <2>7
  <1> QED BY <1>1, <1>2

-----------------------------------------------------------------------------
(* The invariant of the closure.  What is disclosed and what is explained   *)
(* are said of every set that has the ticked rows and is closed, so that no  *)
(* count of passes comes into it.                                          *)

\* rows the relations and containment lead nowhere out of
ClosedRows(S) ==
  /\ Holders(S) \subseteq S
  /\ \A s \in S : \A d : HasRow(d) /\ Hop(s, d) => d \in S

Frontiers ==
  frontier \subseteq included /\ added \subseteq included /\ (pc = "resolve" => included = {})

Disclosed ==
  \A S \in SUBSET Rows : resolution.seeds \subseteq S /\ ClosedRows(S) => included \subseteq S

Explained ==
  /\ \A p \in reasons : p[1] \in Rows
  /\ \A S \in SUBSET Rows :
       resolution.seeds \subseteq S /\ (\A p \in reasons : p[2].from \in S => p[1] \in S)
         => included \subseteq S

\* the ticked rows and one hop from them
Near == resolution.seeds \cup {d \in Rows : HasRow(d) /\ \E s \in resolution.seeds : Hop(s, d)}

OneHopOnly ==
  ~ policy.transitive =>
    /\ pc = "pass" => frontier = resolution.seeds /\ included = resolution.seeds
    /\ pc \in {"contain", "decide", "last", "done"} =>
         Near \subseteq included /\ included \subseteq Held(Near)
    /\ pc = "done" => Holders(included) \subseteq included

\* every row is followed, but for those of the next pass, those that were brought in by
\* containment, and those the pass limit left
ToFollow(r) ==
  \/ \E p \in reasons : p[1] = r /\ p[2].by = "holds"
  \/ pc = "pass" /\ r \in frontier
  \/ pc \in {"contain", "decide"} /\ r \in added
  \/ pc \in {"last", "done"} /\ stopped

Following ==
  policy.transitive =>
    \A r \in included : ToFollow(r) \/ \A d : HasRow(d) /\ Hop(r, d) => d \in included

Closure == Frontiers /\ Disclosed /\ Explained /\ OneHopOnly /\ Following

LEMMA InitClosure == Init => Closure
PROOF BY DEF Init, Closure, Frontiers, Disclosed, Explained, OneHopOnly, Following, Unresolved

\* Within a build, the relations in force and the evidence do not change.
LEMMA SameHops ==
  ASSUME UNCHANGED <<policy, produced>>
  PROVE  /\ \A s, d : Hop(s, d)' <=> Hop(s, d)
         /\ \A d : HasRow(d)' <=> HasRow(d)
         /\ \A S : ClosedRows(S)' <=> ClosedRows(S)
PROOF
  <1>1. \A s, d : Hop(s, d)' <=> Hop(s, d)
    BY DEF Hop
  <1>2. \A d : HasRow(d)' <=> HasRow(d)
    BY DEF HasRow
  <1>3. \A S : ClosedRows(S)' <=> ClosedRows(S)
    BY <1>1, <1>2 DEF ClosedRows, Holders
  <1> QED BY <1>1, <1>2, <1>3

LEMMA SameNear ==
  ASSUME UNCHANGED <<policy, produced, resolution>>
  PROVE  Near' = Near /\ Held(Near)' = Held(Near)
PROOF
  <1>1. Near' = Near BY SameHops DEF Near
  <1> QED BY <1>1 DEF Held

\* Steps that change neither the rows nor what is known of them.
LEMMA QuietClosure ==
  ASSUME Closure, UNCHANGED <<input, resolution, included, reasons, added>>,
         frontier' \subseteq included, pc' # "resolve"
  PROVE  Frontiers' /\ Disclosed' /\ Explained'
PROOF
  <1>1. Disclosed'
    BY SameHops DEF Closure, Disclosed, input
  <1> QED BY <1>1 DEF Closure, Frontiers, Explained

LEMMA ResolveClosure == IInv /\ Closure /\ Resolve => Closure'
PROOF
  <1> SUFFICES ASSUME IInv, Closure, Resolve PROVE Closure' OBVIOUS
  <1>1. /\ resolution'.seeds = Seeds /\ included' = Seeds /\ frontier' = Seeds /\ added' = {}
        /\ reasons' = { <<r, [by |-> "selected", from |-> r]>> : r \in Seeds }
        /\ pc' = "pass"
    BY DEF Resolve
  <1>2. Frontiers' /\ Disclosed'
    BY <1>1 DEF Frontiers, Disclosed
  <1>3. OneHopOnly'
    BY <1>1 DEF OneHopOnly
  <1>4. Following'
    BY <1>1 DEF Following, ToFollow
  <1>5. Explained'
    <2>1. Seeds \subseteq Rows
      BY SeedsRows DEF IInv, TypeOK
    <2>2. \A p \in reasons' : p[1] \in Seeds
      BY <1>1
    <2> QED BY <1>1, <2>1, <2>2 DEF Explained
  <1> QED BY <1>2, <1>3, <1>4, <1>5 DEF Closure

LEMMA PassClosure == IInv /\ Closure /\ Pass => Closure'
PROOF
  <1> SUFFICES ASSUME IInv, Closure, Pass PROVE Closure' OBVIOUS
  <1>1. PICK to : to = {p[1] : p \in Reached} OBVIOUS
  <1>2. /\ included' = included \cup to /\ added' = to \ included
        /\ reasons' = reasons \cup Reached
        /\ pc = "pass" /\ pc' = "contain"
        /\ UNCHANGED <<input, resolution, frontier, stopped>>
    BY <1>1 DEF Pass, NewReasons
  <1>3. UNCHANGED <<selection, policy, produced>>
    BY <1>2 DEF input
  <1>4. \A p \in Reached : /\ p[1] \in to /\ HasRow(p[1]) /\ p[2].from \in frontier
                           /\ Hop(p[2].from, p[1])
    BY <1>1, ReachedAreHops
  <1>5. \A d \in to : \E s \in frontier : HasRow(d) /\ Hop(s, d)
    BY <1>1, <1>4
  <1>6. \A s \in frontier : \A d : HasRow(d) /\ Hop(s, d) => d \in to \cup {s}
    BY <1>1, ReachedAreHops
  <1>7. frontier \subseteq included
    BY DEF Closure, Frontiers
  <1>8. Frontiers'
    BY <1>2, <1>7 DEF Frontiers
  <1>9. Disclosed'
    <2> SUFFICES ASSUME NEW S \in SUBSET Rows, resolution.seeds \subseteq S, ClosedRows(S)
                 PROVE  included' \subseteq S
      BY <1>2, <1>3, SameHops DEF Disclosed
    <2>1. included \subseteq S
      BY DEF Closure, Disclosed
    <2>2. to \subseteq S
      BY <1>5, <1>7, <2>1 DEF ClosedRows
    <2> QED BY <1>2, <2>1, <2>2
  <1>10. Explained'
    <2>1. \A p \in reasons' : p[1] \in Rows
      BY <1>2, <1>4 DEF Closure, Explained, HasRow
    <2>2. ASSUME NEW S \in SUBSET Rows, resolution.seeds \subseteq S,
                 \A p \in reasons' : p[2].from \in S => p[1] \in S
          PROVE  included' \subseteq S
      <3>1. included \subseteq S
        BY <1>2, <2>2 DEF Closure, Explained
      <3>2. \A p \in Reached : p[1] \in S
        BY <1>2, <1>4, <1>7, <2>2, <3>1
      <3> QED BY <1>1, <1>2, <3>1, <3>2
    <2> QED BY <1>2, <2>1, <2>2 DEF Explained
  <1>11. OneHopOnly'
    <2> SUFFICES ASSUME ~ policy.transitive
                 PROVE  Near \subseteq included' /\ included' \subseteq Held(Near)
      BY <1>2, <1>3, SameNear DEF OneHopOnly
    <2>1. frontier = resolution.seeds /\ included = resolution.seeds
      BY <1>2 DEF Closure, OneHopOnly
    <2>2. Near \subseteq included'
      BY <1>2, <1>6, <2>1 DEF Near
    <2>3. included' \subseteq Near
      BY <1>2, <1>5, <2>1 DEF Near, HasRow
    <2> QED BY <2>2, <2>3 DEF Held
  <1>12. Following'
    <2> SUFFICES ASSUME policy.transitive, NEW r \in included'
                 PROVE  ToFollow(r)' \/ \A d : HasRow(d) /\ Hop(r, d) => d \in included'
      BY <1>3, SameHops DEF Following
    <2>1. CASE r \in to \ included
      BY <1>2, <2>1 DEF ToFollow
    <2>2. CASE r \in included
      <3>1. CASE \E p \in reasons : p[1] = r /\ p[2].by = "holds"
        BY <1>2, <3>1 DEF ToFollow
      <3>2. CASE r \in frontier
        BY <1>2, <1>6, <1>7, <3>2
      <3>3. CASE \A d : HasRow(d) /\ Hop(r, d) => d \in included
        BY <1>2, <3>3
      <3> QED BY <1>2, <2>2, <3>1, <3>2, <3>3 DEF Closure, Following, ToFollow
    <2> QED BY <1>2, <2>1, <2>2
  <1> QED BY <1>8, <1>9, <1>10, <1>11, <1>12 DEF Closure

LEMMA ContainClosure == IInv /\ Closure /\ Contain => Closure'
PROOF
  <1> SUFFICES ASSUME IInv, Closure, Contain PROVE Closure' OBVIOUS
  <1>1. PICK more : more = { <<Parent[r], [by |-> "holds", from |-> r]>> :
                               r \in included \cap DOMAIN Parent }
    OBVIOUS
  <1>2. /\ included' = included \cup Holders(included)
        /\ reasons' = reasons \cup more
        /\ pc \in {"contain", "last"}
        /\ pc' = pc \/ (pc = "contain" /\ pc' = "decide") \/ (pc = "last" /\ pc' = "done")
        /\ pc' = "done" => Holders(included) \subseteq included
        /\ UNCHANGED <<input, resolution, frontier, added, stopped>>
    BY <1>1 DEF Contain, Changed
  <1>3. UNCHANGED <<selection, policy, produced>>
    BY <1>2 DEF input
  <1>4. \A p \in more : p[1] = Parent[p[2].from] /\ p[2].from \in included \cap DOMAIN Parent
                        /\ p[1] \in Holders(included) /\ p[2].by = "holds"
    BY <1>1 DEF Holders
  <1>5. \A c \in Holders(included) : \E p \in more : p[1] = c
    <2>1. ASSUME NEW r \in included \cap DOMAIN Parent
          PROVE  \E p \in more : p[1] = Parent[r]
      <3>1. PICK p : p = <<Parent[r], [by |-> "holds", from |-> r]>> OBVIOUS
      <3>2. p[1] = Parent[r] BY <3>1
      <3> QED BY <1>1, <3>1, <3>2
    <2> QED BY <2>1 DEF Holders
  <1>6. Frontiers'
    BY <1>2 DEF Closure, Frontiers
  <1>7. Disclosed'
    <2> SUFFICES ASSUME NEW S \in SUBSET Rows, resolution.seeds \subseteq S, ClosedRows(S)
                 PROVE  included' \subseteq S
      BY <1>2, <1>3, SameHops DEF Disclosed
    <2>1. included \subseteq S
      BY DEF Closure, Disclosed
    <2> QED BY <1>2, <2>1 DEF ClosedRows, Holders
  <1>8. Explained'
    <2>1. \A p \in reasons' : p[1] \in Rows
      BY <1>2, <1>4, EvidenceAssumption DEF Closure, Explained
    <2>2. ASSUME NEW S \in SUBSET Rows, resolution.seeds \subseteq S,
                 \A p \in reasons' : p[2].from \in S => p[1] \in S
          PROVE  included' \subseteq S
      <3>1. included \subseteq S
        BY <1>2, <2>2 DEF Closure, Explained
      <3>2. \A p \in more : p[1] \in S
        BY <1>2, <1>4, <2>2, <3>1
      <3> QED BY <1>2, <1>5, <3>1, <3>2
    <2> QED BY <1>2, <2>1, <2>2 DEF Explained
  <1>9. OneHopOnly'
    <2> SUFFICES ASSUME ~ policy.transitive
                 PROVE  /\ Near \subseteq included' /\ included' \subseteq Held(Near)
                        /\ pc' = "done" => Holders(included') \subseteq included'
      BY <1>2, <1>3, SameNear DEF OneHopOnly
    <2>1. Near \subseteq included /\ included \subseteq Held(Near)
      BY <1>2 DEF Closure, OneHopOnly
    <2>2. Near \subseteq Rows
      BY DEF Near, IInv, TypeOK
    <2>3. Holders(included) \subseteq Held(Near)
      BY <2>1, <2>2, HeldIsClosed
    <2>4. pc' = "done" => included' = included
      BY <1>2
    <2> QED BY <1>2, <2>1, <2>3, <2>4
  <1>10. Following'
    <2> SUFFICES ASSUME policy.transitive, NEW r \in included'
                 PROVE  ToFollow(r)' \/ \A d : HasRow(d) /\ Hop(r, d) => d \in included'
      BY <1>3, SameHops DEF Following
    <2>1. CASE r \in Holders(included)
      BY <1>2, <1>4, <1>5, <2>1 DEF ToFollow
    <2>2. CASE r \in included
      <3>1. CASE ToFollow(r)
        BY <1>2, <3>1 DEF ToFollow
      <3>2. CASE \A d : HasRow(d) /\ Hop(r, d) => d \in included
        BY <1>2, <3>2
      <3> QED BY <2>2, <3>1, <3>2 DEF Closure, Following
    <2> QED BY <1>2, <2>1, <2>2
  <1> QED BY <1>6, <1>7, <1>8, <1>9, <1>10 DEF Closure

LEMMA FrontierEmptyClosure == IInv /\ Closure /\ FrontierEmpty => Closure'
PROOF
  <1> SUFFICES ASSUME IInv, Closure, FrontierEmpty PROVE Closure' OBVIOUS
  <1>1. /\ pc = "pass" /\ frontier = {} /\ pc' = "last"
        /\ UNCHANGED <<input, resolution, included, reasons, frontier, added, stopped>>
    BY DEF FrontierEmpty
  <1>2. UNCHANGED <<selection, policy, produced>>
    BY <1>1 DEF input
  <1>3. Frontiers' /\ Disclosed' /\ Explained'
    BY <1>1, QuietClosure
  <1>4. OneHopOnly'
    <2> SUFFICES ASSUME ~ policy.transitive
                 PROVE  Near \subseteq included /\ included \subseteq Held(Near)
      BY <1>1, <1>2, SameNear DEF OneHopOnly
    <2>1. resolution.seeds = {} /\ included = {}
      BY <1>1 DEF Closure, OneHopOnly
    <2> QED BY <2>1 DEF Near
  <1>5. Following'
    BY <1>1, <1>2, SameHops DEF Closure, Following, ToFollow
  <1> QED BY <1>3, <1>4, <1>5 DEF Closure

LEMMA NextFrontierClosure == IInv /\ Closure /\ NextFrontier => Closure'
PROOF
  <1> SUFFICES ASSUME IInv, Closure, NextFrontier PROVE Closure' OBVIOUS
  <1>1. /\ pc = "decide"
        /\ UNCHANGED <<input, resolution, included, reasons, added>>
        /\ \/ ~ policy.transitive /\ pc' = "last" /\ frontier' = frontier
           \/ policy.transitive /\ frontier' = added /\ pc' = "pass"
           \/ policy.transitive /\ frontier' = added /\ pc' = "last" /\ stopped'
    BY DEF NextFrontier, OneHop
  <1>2. UNCHANGED <<selection, policy, produced>>
    BY <1>1 DEF input
  <1>3. Frontiers' /\ Disclosed' /\ Explained'
    <2>1. frontier' \subseteq included
      BY <1>1 DEF Closure, Frontiers
    <2> QED BY <1>1, <2>1, QuietClosure
  <1>4. OneHopOnly'
    BY <1>1, <1>2, SameNear DEF Closure, OneHopOnly
  <1>5. Following'
    <2> SUFFICES ASSUME policy.transitive, NEW r \in included
                 PROVE  ToFollow(r)' \/ \A d : HasRow(d) /\ Hop(r, d) => d \in included
      BY <1>1, <1>2, SameHops DEF Following
    <2>1. CASE ToFollow(r)
      BY <1>1, <2>1 DEF ToFollow
    <2> QED BY <2>1 DEF Closure, Following
  <1> QED BY <1>3, <1>4, <1>5 DEF Closure

LEMMA ReviewClosure == Review => Closure'
PROOF
  <1> SUFFICES ASSUME Review PROVE Closure' OBVIOUS
  <1>1. /\ pc' = "resolve" /\ resolution' = Unresolved
        /\ included' = {} /\ reasons' = {} /\ frontier' = {} /\ added' = {}
    BY DEF Review
  <1> QED BY <1>1 DEF Closure, Frontiers, Disclosed, Explained, OneHopOnly, Following, Unresolved

LEMMA ClosureStep == IInv /\ Closure /\ [Next]_vars => Closure'
PROOF
  <1> SUFFICES ASSUME IInv, Closure, [Next]_vars PROVE Closure' OBVIOUS
  <1>1. CASE UNCHANGED vars
    <2>1. UNCHANGED <<policy, produced, pc, resolution, included, reasons, frontier, added, stopped>>
      BY <1>1 DEF vars
    <2>2. Disclosed' /\ OneHopOnly' /\ Following'
      BY <2>1, SameHops, SameNear
         DEF Closure, Disclosed, OneHopOnly, Following, ToFollow, Holders
    <2> QED BY <2>1, <2>2 DEF Closure, Frontiers, Explained
  <1>5. CASE ResolveRaises
    <2>1. /\ pc = "resolve" /\ pc' = "refused"
          /\ UNCHANGED <<input, resolution, included, reasons, frontier, added, stopped>>
      BY <1>5 DEF ResolveRaises
    <2>2. included' = {} /\ frontier' \subseteq included
      BY <2>1 DEF Closure, Frontiers
    <2>3. OneHopOnly' /\ Following'
      BY <2>1, <2>2 DEF OneHopOnly, Following
    <2> QED BY <2>1, <2>2, <2>3, QuietClosure DEF Closure
  <1>2. CASE Build /\ ~ ResolveRaises
    BY <1>2, ResolveClosure, PassClosure, FrontierEmptyClosure, ContainClosure, NextFrontierClosure
       DEF Build
  <1>3. CASE Review
    BY <1>3, ReviewClosure
  <1>4. CASE Over
    BY <1>1, <1>4 DEF Over
  <1> QED BY <1>1, <1>2, <1>3, <1>4, <1>5 DEF Next, Build

THEOREM ClosureInvariant == Spec => []Closure
PROOF BY InitClosure, ClosureStep, Invariant, PTL DEF Spec

\* The model's least closed set is closed and has the ticked rows.
LEMMA LeastClosedIsClosed ==
  ASSUME TypeOK
  PROVE  /\ LeastClosed \in SUBSET Rows /\ resolution.seeds \subseteq LeastClosed
         /\ ClosedRows(LeastClosed)
PROOF
  <1>1. PICK F : F = [S \in SUBSET Rows |-> Held(S) \cup HopFrom(Hops, S)]
    OBVIOUS
  <1>2. F \in [SUBSET Rows -> SUBSET Rows] /\ \A S \in SUBSET Rows : S \subseteq F[S]
    <2>1. ASSUME NEW S \in SUBSET Rows
          PROVE  Held(S) \cup HopFrom(Hops, S) \in SUBSET Rows /\ S \subseteq Held(S)
      BY HopFromIsHops DEF Held, HasRow
    <2> QED BY <1>1, <2>1
  <1>3. LeastClosed = Iterated(F, resolution.seeds)
    BY <1>1 DEF LeastClosed
  <1>4. PICK L \in SUBSET Rows : /\ L = LeastClosed /\ resolution.seeds \subseteq L
                                 /\ F[L] = L
    BY <1>2, <1>3, IteratedIsClosed DEF TypeOK
  <1>5. Held(L) \cup HopFrom(Hops, L) = L
    BY <1>1, <1>4
  <1>6. ClosedRows(L)
    BY <1>5, HopFromIsHops, EvidenceAssumption DEF ClosedRows, Held, Holders
  <1> QED BY <1>4, <1>6

(* A partial report discloses what was asked: without the transitive        *)
(* switch exactly the ticked rows, one hop from them and the conversations   *)
(* of the messages among those; with it nothing outside the least set that   *)
(* the enabled relations and containment close.                              *)
THEOREM NothingMoreDisclosed == Spec => []DisclosesAsAsked
PROOF
  <1>1. ASSUME TypeOK, Closure PROVE DisclosesAsAsked
    <2>1. included \subseteq LeastClosed
      BY <1>1, LeastClosedIsClosed DEF Closure, Disclosed
    <2>2. ASSUME pc = "done", ~ policy.transitive
          PROVE  included = Held(resolution.seeds \cup HopFrom(Hops, resolution.seeds))
      <3>1. Near = resolution.seeds \cup HopFrom(Hops, resolution.seeds)
        BY HopFromIsHops DEF Near, HasRow
      <3>2. Near \subseteq included /\ included \subseteq Held(Near) /\ Holders(included) \subseteq included
        BY <1>1, <2>2 DEF Closure, OneHopOnly
      <3>3. Held(Near) \subseteq included
        BY <3>2 DEF Held, Holders
      <3> QED BY <3>1, <3>2, <3>3
    <2> QED BY <2>1, <2>2 DEF DisclosesAsAsked
  <1>2. IInv => TypeOK BY DEF IInv
  <1> QED BY <1>1, <1>2, Invariant, ClosureInvariant, PTL

(* Under the transitive switch, unless the pass limit stopped it, whatever   *)
(* an included row leads to is included, but for what a row brought in only  *)
(* by containment leads to.                                                  *)
THEOREM EverythingFollowed == Spec => []TransitiveFollows
PROOF
  <1>1. ASSUME Closure PROVE TransitiveFollows
    <2> SUFFICES ASSUME pc = "done", policy.transitive, ~ stopped, NEW r \in included
                 PROVE  \/ HopFrom(Hops, {r}) \subseteq included
                        \/ \E p \in reasons : p[1] = r /\ p[2].by = "holds"
      BY DEF TransitiveFollows
    <2>1. ToFollow(r) \/ \A d : HasRow(d) /\ Hop(r, d) => d \in included
      BY <1>1 DEF Closure, Following
    <2>2. CASE ToFollow(r)
      BY <2>2 DEF ToFollow
    <2>3. CASE \A d : HasRow(d) /\ Hop(r, d) => d \in included
      BY <2>3, HopFromIsHops
    <2> QED BY <2>1, <2>2, <2>3
  <1> QED BY <1>1, ClosureInvariant, PTL

(* Every row of a partial report is explained: its recorded reasons lead     *)
(* back to a row the examiner ticked.                                        *)
THEOREM EveryRowTraced == Spec => []EveryRowExplained
PROOF
  <1>1. ASSUME TypeOK, Closure PROVE EveryRowExplained
    <2>1. PICK F : F = [S \in SUBSET Rows |-> S \cup Caused(S)]
      OBVIOUS
    <2>2. F \in [SUBSET Rows -> SUBSET Rows] /\ \A S \in SUBSET Rows : S \subseteq F[S]
      <3>1. \A S \in SUBSET Rows : Caused(S) \subseteq Rows
        BY <1>1 DEF Closure, Explained, Caused
      <3> QED BY <2>1, <3>1
    <2>3. PICK L \in SUBSET Rows : /\ L = Iterated(F, resolution.seeds)
                                   /\ resolution.seeds \subseteq L /\ F[L] = L
      <3>1. resolution.seeds \in SUBSET Rows
        BY <1>1 DEF TypeOK
      <3> QED BY <2>2, <3>1, IteratedIsClosed
    <2>4. \A p \in reasons : p[2].from \in L => p[1] \in L
      BY <2>1, <2>3 DEF Caused
    <2>5. included \subseteq L
      BY <1>1, <2>3, <2>4 DEF Closure, Explained
    <2> QED BY <2>1, <2>3, <2>5 DEF EveryRowExplained
  <1>2. IInv => TypeOK BY DEF IInv
  <1> QED BY <1>1, <1>2, Invariant, ClosureInvariant, PTL

-----------------------------------------------------------------------------
(* Resolution, as far as the identifiers are what they are taken for.       *)

\* what a tick is resolved to: its own row, or the group that row is in
Resolved(id, rows) ==
  \A r \in rows :
    \/ r \in Ticked(id)
    \/ \E t \in Ticked(id) : /\ SameGroup(r, t)
                             /\ {s \in DOMAIN Group : Group[s] = Group[r]} \subseteq rows

\* what is known of a tick: its row if the id is found as it is, else its identifiers
Faithful(id) ==
  IF ByOwnId(id) THEN selection[id].of = id
  ELSE \A a \in Alternates(id) :
         /\ Cardinality(Named(id, a)) = 1 => selection[id].of \in Named(id, a)
         /\ Cardinality(Named(id, a)) > 1 /\ OneGroup(Named(id, a)) =>
              /\ selection[id].of \in Named(id, a)
              /\ \A r \in Named(id, a) : {s \in DOMAIN Group : Group[s] = Group[r]} \subseteq Named(id, a)

LEMMA FoundIsResolved ==
  ASSUME NEW id \in Ids, Faithful(id)
  PROVE  Resolved(id, Found(id))
PROOF
  <1>1. \A a : Named(id, a) \subseteq Rows
    BY EvidenceAssumption DEF Named, Identified
  <1>2. NoRow \notin Rows
    BY EvidenceAssumption
  <1>3. CASE ByOwnId(id)
    <2>1. selection[id].of = id /\ id \in Rows
      BY <1>3 DEF Faithful, ByOwnId
    <2>2. Found(id) \subseteq {id}
      BY <1>3 DEF Found, ResolveOne
    <2> QED BY <1>2, <2>1, <2>2 DEF Resolved, Ticked
  <1>4. CASE ~ ByOwnId(id)
    <2>1. PICK alternates : alternates = IF Single(id) # {} THEN Single(id) ELSE Grouped(id)
      OBVIOUS
    <2>2. ResolveOne(id) = UNION {Named(id, a) : a \in {x \in alternates : x = FirstOf(alternates)}}
      BY <1>4, <2>1 DEF ResolveOne
    <2> SUFFICES ASSUME NEW r \in Found(id)
                 PROVE  \/ r \in Ticked(id)
                        \/ \E t \in Ticked(id) :
                             /\ SameGroup(r, t)
                             /\ {s \in DOMAIN Group : Group[s] = Group[r]} \subseteq Found(id)
      BY DEF Resolved
    <2>3. Found(id) = ResolveOne(id)
      BY DEF Found
    <2>4. PICK a \in alternates : r \in Named(id, a) /\ Named(id, a) \subseteq Found(id)
      BY <2>2, <2>3
    <2>5. CASE Cardinality(Named(id, a)) = 1
      <3>1. a \in Alternates(id)
        BY <2>1 DEF Single, Grouped
      <3>2. selection[id].of \in Named(id, a)
        BY <1>4, <2>5, <3>1 DEF Faithful
      <3>3. PICK x : Named(id, a) = {x}
        <4>1. IsFiniteSet(Named(id, a))
          BY <1>1, EvidenceAssumption, FS_Subset
        <4> QED BY <2>5, <4>1, FS_Singleton
      <3>4. r = selection[id].of
        BY <2>4, <3>2, <3>3
      <3> QED BY <1>1, <1>2, <2>4, <3>4 DEF Ticked
    <2>6. CASE Cardinality(Named(id, a)) # 1
      <3>1. /\ a \in Alternates(id) /\ Cardinality(Named(id, a)) > 1 /\ OneGroup(Named(id, a))
        BY <2>1, <2>6 DEF Single, Grouped
      <3>2. /\ selection[id].of \in Named(id, a)
            /\ {s \in DOMAIN Group : Group[s] = Group[r]} \subseteq Named(id, a)
        BY <1>4, <2>4, <3>1 DEF Faithful
      <3>3. SameGroup(r, selection[id].of)
        BY <2>4, <3>1, <3>2 DEF OneGroup, SameGroup
      <3>4. selection[id].of \in Ticked(id)
        BY <1>1, <1>2, <3>2 DEF Ticked
      <3> QED BY <2>4, <3>2, <3>3, <3>4
    <2> QED BY <2>5, <2>6
  <1> QED BY <1>3, <1>4

LEMMA TrueIsFaithful ==
  ASSUME IdentifiersTrue, selection \in Selections, NEW id \in DOMAIN selection
  PROVE  Faithful(id)
PROOF
  <1>1. CASE ByOwnId(id)
    BY <1>1 DEF IdentifiersTrue, Faithful, ByOwnId
  <1>2. CASE ~ ByOwnId(id)
    <2> SUFFICES ASSUME NEW a \in Alternates(id)
                 PROVE  /\ Cardinality(Named(id, a)) = 1 => selection[id].of \in Named(id, a)
                        /\ Cardinality(Named(id, a)) > 1 /\ OneGroup(Named(id, a)) =>
                             /\ selection[id].of \in Named(id, a)
                             /\ \A r \in Named(id, a) :
                                  {s \in DOMAIN Group : Group[s] = Group[r]} \subseteq Named(id, a)
      BY <1>2 DEF Faithful
    <2>1. PICK order, keys : order = ResolveOrder[Kind[id]] /\ keys = selection[id].keys
      OBVIOUS
    <2>2. PICK i \in {n \in DOMAIN order : order[n] \in DOMAIN keys} :
            a \in {i} \X DOMAIN keys[order[i]]
      BY <2>1 DEF Alternates
    <2>3. PICK n \in DOMAIN keys[order[i]] : a = <<i, n>>
      BY <2>2
    <2>4. a[1] = i /\ a[2] = n
      BY <2>3
    <2>5. PICK name : name = order[i] /\ name \in DOMAIN keys
      BY <2>2
    <2>6. PICK hits : hits = Named(id, a)
      OBVIOUS
    <2>7. hits = Identified(id, selection[id].keys[name][n])
      BY <2>1, <2>4, <2>5, <2>6 DEF Named
    <2>8. name \in DOMAIN selection[id].keys /\ n \in DOMAIN selection[id].keys[name]
      BY <2>1, <2>3, <2>5
    <2>9. /\ Cardinality(hits) = 1 => selection[id].of \in hits
          /\ Cardinality(hits) > 1 /\ OneGroup(hits) =>
               /\ selection[id].of \in hits
               /\ \A r \in hits : {s \in DOMAIN Group : Group[s] = Group[r]} \subseteq hits
      BY <2>7, <2>8 DEF IdentifiersTrue
    <2> QED BY <2>6, <2>9
  <1> QED BY <1>1, <1>2

\* the ticks of the first build are a selection file; the second build's are the kept rows,
\* each under its own id; and what a seed was ticked as is recorded
FirstTicks == reviewed = {} => selection \in Selections

SecondTicks ==
  reviewed # {} /\ reviewed \cap Positional = {} =>
    DOMAIN selection = reviewed /\ \A r \in reviewed : selection[r].of = r

SeedsTicked ==
  reviewed = {} /\ pc \notin {"resolve", "refused"} =>
    \A r \in resolution.seeds : r \in DOMAIN selection \/ Origins(r) # {}

Ticks == FirstTicks /\ SecondTicks /\ SeedsTicked /\ TicksResolved

LEMMA InitTicks == Init => Ticks
PROOF BY DEF Init, Ticks, FirstTicks, SecondTicks, SeedsTicked, TicksResolved

LEMMA ResolveTicks ==
  ASSUME IdentifiersTrue
  PROVE  IInv /\ Ticks /\ Resolve => Ticks'
PROOF
  <1> SUFFICES ASSUME IInv, Ticks, Resolve PROVE Ticks' OBVIOUS
  <1>1. /\ Ambiguous = {} /\ ~ Refused
        /\ resolution'.seeds = Seeds /\ resolution'.unresolved = Missing
        /\ resolution'.moved = { m \in (DOMAIN selection) \X Seeds : m[2] \in Found(m[1]) /\ m[2] # m[1] }
        /\ UNCHANGED <<selection, policy, produced, reviewed>>
    BY DEF Resolve, input
  <1>2. ASSUME NEW id \in DOMAIN selection, NEW r \in Found(id)
        PROVE  r \in Seeds /\ (r = id \/ <<id, r>> \in resolution'.moved)
    <2>1. r \in Seeds BY DEF Seeds
    <2>2. PICK m : m = <<id, r>> OBVIOUS
    <2>3. m[1] = id /\ m[2] = r /\ (m \in (DOMAIN selection) \X Seeds) BY <2>1, <2>2
    <2> QED BY <1>1, <2>1, <2>2, <2>3
  <1>3. SeedsTicked'
    <2>1. \A r \in Seeds : r \in DOMAIN selection \/ \E id \in DOMAIN selection : <<id, r>> \in resolution'.moved
      BY <1>2 DEF Seeds
    <2> QED BY <1>1, <2>1 DEF SeedsTicked, Origins
  <1>4. TicksResolved'
    <2> SUFFICES ASSUME reviewed \cap Positional = {}
                 PROVE  /\ \A r \in Seeds : \E id \in DOMAIN selection :
                             \/ r \in Ticked(id)
                             \/ \E t \in Ticked(id) : /\ SameGroup(r, t)
                                                      /\ {s \in DOMAIN Group : Group[s] = Group[r]} \subseteq Seeds
                        /\ \A id \in DOMAIN selection :
                             \/ id \in Missing /\ policy.unresolved = "drop"
                             \/ \E r \in Seeds : r = id \/ <<id, r>> \in resolution'.moved
      BY <1>1 DEF TicksResolved, Ticked
    <2>1. ASSUME NEW id \in DOMAIN selection
          PROVE  Resolved(id, Found(id))
      <3>1. CASE reviewed = {}
        BY <3>1, TrueIsFaithful, FoundIsResolved DEF Ticks, FirstTicks, IInv, TypeOK
      <3>2. CASE reviewed # {}
        <4>1. id \in reviewed /\ selection[id].of = id /\ id \in Rows /\ id \notin Positional
          BY <3>2 DEF Ticks, SecondTicks, IInv, TypeOK
        <4> QED BY <4>1, FoundIsResolved, EvidenceAssumption DEF Faithful, ByOwnId
      <3> QED BY <3>1, <3>2
    <2>2. ASSUME NEW r \in Seeds
          PROVE  \E id \in DOMAIN selection :
                   \/ r \in Ticked(id)
                   \/ \E t \in Ticked(id) : /\ SameGroup(r, t)
                                            /\ {s \in DOMAIN Group : Group[s] = Group[r]} \subseteq Seeds
      <3>1. PICK id \in DOMAIN selection : r \in Found(id)
        BY DEF Seeds
      <3>2. Found(id) \subseteq Seeds
        BY DEF Seeds
      <3> QED BY <2>1, <3>1, <3>2 DEF Resolved
    <2>3. ASSUME NEW id \in DOMAIN selection
          PROVE  \/ id \in Missing /\ policy.unresolved = "drop"
                 \/ \E r \in Seeds : r = id \/ <<id, r>> \in resolution'.moved
      <3>1. CASE Found(id) = {}
        <4>1. id \in Missing
          BY <1>1, <3>1 DEF Missing
        <4>2. policy.unresolved = "drop"
          BY <1>1, <4>1 DEF Refused, IInv, TypeOK
        <4> QED BY <4>1, <4>2
      <3>2. CASE Found(id) # {}
        BY <1>2, <3>2
      <3> QED BY <3>1, <3>2
    <2> QED BY <2>2, <2>3
  <1>5. FirstTicks' /\ SecondTicks'
    BY <1>1 DEF Ticks, FirstTicks, SecondTicks
  <1> QED BY <1>3, <1>4, <1>5 DEF Ticks

LEMMA ReviewTicks == IInv /\ Ticks /\ Review => Ticks'
PROOF
  <1> SUFFICES ASSUME IInv, Ticks, Review PROVE Ticks' OBVIOUS
  <1>1. /\ pc = "done" /\ reviewed = {} /\ pc' = "resolve"
        /\ reviewed' \subseteq included /\ reviewed' # {}
    BY DEF Review
  <1>2. PICK was \in [{r \in reviewed' : Origins(r) # {}} -> DOMAIN selection] :
          selection' = [r \in reviewed' |-> KeyRecord(r, IF r \in DOMAIN was THEN was[r] ELSE r)]
    BY DEF Review
  <1>3. selection \in Selections
    BY <1>1 DEF Ticks, FirstTicks
  <1>4. ASSUME NEW r \in reviewed'
        PROVE  selection'[r].of = r
    <2>1. PICK w : w = IF r \in DOMAIN was THEN was[r] ELSE r
      OBVIOUS
    <2>2. selection'[r] = KeyRecord(r, w)
      BY <1>2, <2>1
    <2>3. CASE r \notin resolution.seeds
      BY <2>2, <2>3 DEF KeyRecord
    <2>4. CASE r \in resolution.seeds
      <3>1. PICK id : id = IF r \in DOMAIN selection THEN r ELSE w
        OBVIOUS
      <3>2. id \in DOMAIN selection
        BY <1>1, <1>2, <2>1, <2>4, <3>1 DEF Ticks, SeedsTicked
      <3>3. "of" \in DOMAIN selection[id]
        BY <1>3, <3>2, EvidenceAssumption
      <3>4. selection'[r] = [selection[id] EXCEPT !.of = r]
        BY <2>2, <2>4, <3>1 DEF KeyRecord
      <3> QED BY <3>3, <3>4
    <2> QED BY <2>3, <2>4
  <1>5. SecondTicks'
    BY <1>2, <1>4 DEF SecondTicks
  <1> QED BY <1>1, <1>5 DEF Ticks, FirstTicks, SeedsTicked, TicksResolved

LEMMA TicksStep ==
  ASSUME IdentifiersTrue
  PROVE  IInv /\ Ticks /\ [Next]_vars => Ticks'
PROOF
  <1> SUFFICES ASSUME IInv, Ticks, [Next]_vars PROVE Ticks' OBVIOUS
  <1>1. CASE /\ UNCHANGED <<selection, policy, reviewed, resolution>>
             /\ pc' \in {"resolve", "refused"} \/ pc \notin {"resolve", "refused"}
    BY <1>1 DEF Ticks, FirstTicks, SecondTicks, SeedsTicked, TicksResolved, Origins, Ticked
  <1>2. CASE Resolve
    BY <1>2, ResolveTicks
  <1>3. CASE ResolveRaises \/ Pass \/ FrontierEmpty \/ Contain \/ NextFrontier
    BY <1>1, <1>3 DEF ResolveRaises, Pass, FrontierEmpty, Contain, NextFrontier, input
  <1>4. CASE Review
    BY <1>4, ReviewTicks
  <1>5. CASE Over \/ UNCHANGED vars
    <2>1. UNCHANGED <<selection, policy, reviewed, resolution, pc>>
      BY <1>5 DEF Over, vars
    <2> QED BY <2>1 DEF Ticks, FirstTicks, SecondTicks, SeedsTicked, TicksResolved, Origins, Ticked
  <1> QED BY <1>2, <1>3, <1>4, <1>5 DEF Next, Build

(* Where the identifiers recorded with a selection are what they are taken   *)
(* for, a ticked id becomes the row it was ticked as, or the whole group of   *)
(* that row, and is otherwise listed as dropped: no position and no shared    *)
(* identifier ever decides for another row.                                  *)
THEOREM TicksAlwaysResolved ==
  ASSUME IdentifiersTrue
  PROVE  Spec => []TicksResolved
PROOF
  <1>1. Ticks => TicksResolved BY DEF Ticks
  <1>2. IInv /\ Ticks /\ [Next]_vars => Ticks' BY TicksStep
  <1> QED BY <1>1, <1>2, InitTicks, Invariant, PTL DEF Spec
=============================================================================
