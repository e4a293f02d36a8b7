---------------------- MODULE ExaminerSelection_proofs ----------------------
(***************************************************************************)
(* Theorems about ExaminerSelection: an id without a conversation is never      *)
(* ticked, a page without the "unsaved" note shows the ticks of a file, a       *)
(* reload keeps unsaved ticks, and an install never costs the file in place.    *)
(***************************************************************************)
EXTENDS ExaminerSelection, TLAPS

LEMMA Payloads ==
  /\ Stub \in Payload /\ OldFile \in Payload
  /\ NoFile \notin Payload /\ Torn \notin Payload /\ NoFile # Torn
  /\ \A f \in Payload \cup {NoFile, Torn} : Good(f) <=> f \in Payload
  /\ NoStash \in Stashes /\ OldStash \in Stashes /\ Blank \in Pages
  <1>1. Stub \in Payload /\ OldFile \in Payload
    BY DEF Stub, OldFile, Payload
  <1>2. \A f \in Payload : DOMAIN f = {"rows", "exported", "expanded"}
    BY DEF Payload
  <1>3. DOMAIN NoFile = {"file"} /\ DOMAIN Torn = {"file"} /\ NoFile.file # Torn.file
    BY DEF NoFile, Torn
  <1>4. NoFile \notin Payload /\ Torn \notin Payload /\ NoFile # Torn
    BY <1>2, <1>3
  <1>5. NoStash \in Stashes /\ OldStash \in Stashes
    BY DEF NoStash, OldStash, Stashes
  <1>6. Blank \in Pages
    BY <1>5 DEF Blank, Pages
  <1> QED
    BY <1>1, <1>4, <1>5, <1>6 DEF Good

LEMMA Rewritten ==
  ASSUME NEW f \in Payload, NEW rows
  PROVE  [f EXCEPT !.rows = rows].rows = rows
  <1>1. "rows" \in DOMAIN f
    BY DEF Payload
  <1> QED
    BY <1>1

LEMMA KeptRows ==
  \A ids : ids \subseteq Rows \cup Bare =>
    /\ Kept(ids) \subseteq Rows /\ Quarantined(ids) \subseteq Bare
    /\ Kept(ids) \cap Bare = {} /\ Kept(Kept(ids)) = Kept(ids)
    /\ ids \subseteq Rows => Kept(ids) = ids /\ ids \cap Bare = {}
  BY ExaminerSelectionAssumption DEF Kept, Quarantined

(* The second of an event is one that a backup can be named after. *)
LEMMA SecondOf ==
  ASSUME now \in 1 .. MaxNow
  PROVE  now \div Second \in 0 .. MaxNow \div Second
  <1>1. /\ now \in Nat /\ MaxNow \in Nat /\ Second \in Nat /\ Second > 0 /\ now <= MaxNow
    BY ExaminerSelectionAssumption
  <1> QED
    BY <1>1

LEMMA AppliedPage ==
  ASSUME NEW page \in Pages, NEW f \in Payload
  PROVE  /\ Apply(page, f) \in Pages /\ Apply(page, f).open = page.open
         /\ Apply(page, f).stash = page.stash /\ Apply(page, f).exported = f.exported
         /\ Apply(page, f).data = Kept(f.rows) /\ ~Apply(page, f).dirty
  <1>1. /\ f.rows \subseteq Rows \cup Bare /\ f.exported \in Int /\ f.expanded \in BOOLEAN
    BY DEF Payload
  <1>2. Kept(f.rows) \subseteq Rows /\ Quarantined(f.rows) \subseteq Bare
    BY <1>1, KeptRows
  <1> QED
    BY <1>1, <1>2 DEF Apply, Pages

(* A page that is loaded has the tab's own copy, or the file's ticks, or none. *)
LEMMA LoadedPage ==
  ASSUME target \in Payload \cup {NoFile, Torn}, NEW old \in Pages
  PROVE  /\ Loaded(old) \in Pages /\ Loaded(old).open /\ Loaded(old).stash = old.stash
         /\ \/ /\ old.stash # NoStash
               /\ Loaded(old).data = Kept(old.stash.rows)
               /\ Loaded(old).dirty = old.stash.dirty
            \/ /\ Good(target)
               /\ old.stash # NoStash => target.exported # 0 /\ ~(old.stash.saved > target.exported)
               /\ Loaded(old).data = Kept(target.rows) /\ ~Loaded(old).dirty
            \/ /\ old.stash = NoStash
               /\ Loaded(old).data = {} /\ ~Loaded(old).dirty
  <1> DEFINE fresh == [Blank EXCEPT !.open = TRUE, !.stash = old.stash]
             started == Restash(fresh)
  <1>1. old.stash \in Stashes
    BY DEF Pages
  <1>2. /\ fresh \in Pages /\ fresh.open /\ fresh.stash = old.stash /\ fresh.exported = 0
        /\ fresh.data = {} /\ ~fresh.dirty
    BY <1>1, Payloads DEF Pages, Blank
  <1>3. ASSUME NEW page \in Pages
        PROVE  /\ Restash(page) \in Pages /\ Restash(page).open = page.open
               /\ Restash(page).stash = page.stash /\ Restash(page).exported = page.exported
               /\ IF StashWins(page)
                  THEN /\ Restash(page).data = Kept(page.stash.rows)
                       /\ Restash(page).dirty = page.stash.dirty
                  ELSE Restash(page) = page
    <2>1. /\ page.stash \in Stashes /\ page.stash.rows \subseteq Rows \cup Bare
          /\ page.stash.dirty \in BOOLEAN /\ page.stash.from \in BOOLEAN
          /\ page.stash.legacy \subseteq Bare
      BY DEF Pages, Stashes
    <2>2. Kept(page.stash.rows) \subseteq Rows /\ Quarantined(page.stash.rows) \subseteq Bare
      BY <2>1, KeptRows
    <2> QED
      BY <2>1, <2>2 DEF Restash, Pages
  <1> HIDE DEF fresh
  <1>5. /\ started \in Pages /\ started.open /\ started.stash = old.stash
        /\ old.stash # NoStash => /\ started.data = Kept(old.stash.rows)
                                  /\ started.dirty = old.stash.dirty
        /\ old.stash = NoStash => started.data = {} /\ ~started.dirty
    BY <1>2, <1>3 DEF StashWins
  <1>6. Loaded(old) = IF Good(target) THEN Restash(Apply(started, target)) ELSE started
    BY DEF Loaded, fresh
  <1> HIDE DEF started
  <1>7. CASE Good(target)
    <2>1. target \in Payload
      BY <1>7, Payloads
    <2>2. PICK page \in Pages : page = Apply(started, target)
      BY <1>5, <2>1, AppliedPage
    <2>3. /\ page.open /\ page.stash = old.stash /\ page.exported = target.exported
          /\ page.data = Kept(target.rows) /\ ~page.dirty
      BY <1>5, <2>1, <2>2, AppliedPage
    <2>4. Loaded(old) = Restash(page)
      BY <1>6, <1>7, <2>2
    <2> QED
      BY <1>3, <1>7, <2>3, <2>4 DEF StashWins
  <1>8. CASE ~Good(target)
    BY <1>5, <1>6, <1>8
  <1> QED
    BY <1>7, <1>8

LEMMA StashedPage ==
  ASSUME NEW page \in Pages, now \in Nat, now > 0
  PROVE  /\ Stashed(page) \in Pages /\ Stashed(page).data = page.data
         /\ Stashed(page).open = page.open /\ (Stashed(page).dirty <=> page.dirty)
         /\ Stashed(page).stash.rows = page.data
         /\ (Stashed(page).stash.dirty <=> page.dirty)
         /\ Stashed(page).stash # NoStash
  <1>0. /\ page.data \subseteq Rows \cup Bare /\ page.legacy \subseteq Bare
        /\ page.dirty \in BOOLEAN /\ page.from \in BOOLEAN
    BY DEF Pages
  <1>1. /\ Stash(page) \in Stashes /\ Stash(page).rows = page.data
        /\ Stash(page).dirty = page.dirty /\ Stash(page).saved > 0
    BY <1>0 DEF Stash, Stashes
  <1>2. NoStash.saved = 0
    BY DEF NoStash
  <1> QED
    BY <1>1, <1>2 DEF Stashed, Pages
-----------------------------------------------------------------------------
(* The types. *)
LEMMA TypeInit == Init => TypeOK
  <1> SUFFICES ASSUME Init PROVE TypeOK
    OBVIOUS
  <1>1. target \in Payload \cup {NoFile, Torn} /\ files \subseteq Payload
    BY Payloads DEF Init
  <1>2. aside \in [0 .. MaxNow \div Second -> Payload \cup {NoFile, Torn}]
    BY DEF Init
  <1>3. \A s \in Stashes : [Blank EXCEPT !.stash = s] \in Pages
    BY Payloads DEF Pages, Blank
  <1>4. tab \in [Tabs -> Pages]
    BY <1>3, Payloads DEF Init
  <1>5. install \in [rows : SUBSET Rows, at : {"idle", "writing"}, of : Payload]
    BY Payloads DEF Init, NotInstalling
  <1>7. replaced \subseteq [file : Payload \cup {Torn}, at : 1 .. MaxNow]
    BY DEF Init
  <1>6. now \in 1 .. MaxNow
    BY ExaminerSelectionAssumption DEF Init
  <1> QED
    BY <1>1, <1>2, <1>4, <1>5, <1>6, <1>7 DEF TypeOK

(* What the events of a page make of it. *)
LEMMA PageEvents ==
  ASSUME TypeOK, NEW t \in Tabs
  PROVE  /\ tab[t] \in Pages /\ now \in Nat /\ now > 0
         /\ \A rows \in SUBSET Rows, on \in BOOLEAN : Tick(t, rows, on) =>
              \E page \in Pages : /\ tab' = [tab EXCEPT ![t] = page]
                                 /\ page.open = tab[t].open /\ page.dirty
                                 /\ page.stash.rows = page.data /\ page.stash.dirty
                                 /\ page.stash # NoStash
         /\ \A f \in files : LoadFile(t, f) =>
              \E page \in Pages : /\ tab' = [tab EXCEPT ![t] = page]
                                 /\ page.data = Kept(f.rows) /\ ~page.dirty
                                 /\ page.stash.rows = page.data /\ ~page.stash.dirty
         /\ \A place \in BOOLEAN : SaveFile(t, place) =>
              /\ Saved(tab[t]) \in Payload /\ Saved(tab[t]).rows = tab[t].data
              /\ \E page \in Pages : /\ tab' = [tab EXCEPT ![t] = page]
                                    /\ page.data = tab[t].data /\ ~page.dirty
                                    /\ page.stash.rows = page.data /\ ~page.stash.dirty
  <1>1. tab[t] \in Pages /\ now \in Nat /\ now > 0
    BY DEF TypeOK
  <1>2. ASSUME NEW rows \in SUBSET Rows, NEW on \in BOOLEAN, Tick(t, rows, on)
        PROVE  \E page \in Pages : /\ tab' = [tab EXCEPT ![t] = page]
                                  /\ page.open = tab[t].open /\ page.dirty
                                  /\ page.stash.rows = page.data /\ page.stash.dirty
                                  /\ page.stash # NoStash
    <2>1. PICK ticks : ticks = IF on THEN tab[t].data \cup rows ELSE tab[t].data \ rows
      OBVIOUS
    <2>2. PICK page : page = [tab[t] EXCEPT !.data = ticks, !.dirty = TRUE]
      OBVIOUS
    <2>3. ticks \subseteq Rows
      BY <1>1, <2>1 DEF Pages
    <2>4. page \in Pages /\ page.open = tab[t].open /\ page.dirty
      BY <1>1, <2>2, <2>3 DEF Pages
    <2>5. tab' = [tab EXCEPT ![t] = Stashed(page)]
      BY <1>1, <1>2, <2>1, <2>2 DEF Tick, Shows, Touched, Pages
    <2>6. PICK new : new = Stashed(page)
      OBVIOUS
    <2>7. /\ new \in Pages /\ new.data = page.data /\ new.open = page.open /\ new.dirty
          /\ new.stash.rows = new.data /\ new.stash.dirty /\ new.stash # NoStash
      BY <1>1, <2>4, <2>6, StashedPage
    <2> QED
      BY <2>4, <2>5, <2>6, <2>7
  <1>3. ASSUME NEW f \in files, LoadFile(t, f)
        PROVE  \E page \in Pages : /\ tab' = [tab EXCEPT ![t] = page]
                                  /\ page.data = Kept(f.rows) /\ ~page.dirty
                                  /\ page.stash.rows = page.data /\ ~page.stash.dirty
    <2>1. f \in Payload
      BY DEF TypeOK
    <2>2. PICK page : page = Apply(tab[t], f)
      OBVIOUS
    <2>3. page \in Pages /\ page.data = Kept(f.rows) /\ ~page.dirty
      BY <1>1, <2>1, <2>2, AppliedPage
    <2>4. tab' = [tab EXCEPT ![t] = Stashed(page)]
      BY <1>3, <2>2 DEF LoadFile, Shows
    <2> QED
      BY <1>1, <2>3, <2>4, StashedPage
  <1>4. ASSUME NEW place \in BOOLEAN, SaveFile(t, place)
        PROVE  /\ Saved(tab[t]) \in Payload /\ Saved(tab[t]).rows = tab[t].data
               /\ \E page \in Pages : /\ tab' = [tab EXCEPT ![t] = page]
                                     /\ page.data = tab[t].data /\ ~page.dirty
                                     /\ page.stash.rows = page.data /\ ~page.stash.dirty
    <2>1. Saved(tab[t]) \in Payload /\ Saved(tab[t]).rows = tab[t].data
      BY <1>1 DEF Saved, Payload, Pages
    <2>2. PICK page : page = [tab[t] EXCEPT !.dirty = FALSE]
      OBVIOUS
    <2>3. page \in Pages /\ page.data = tab[t].data /\ ~page.dirty
      BY <1>1, <2>2 DEF Pages
    <2>4. tab' = [tab EXCEPT ![t] = Stashed(page)]
      BY <1>4, <2>2 DEF SaveFile, Shows
    <2> QED
      BY <1>1, <2>1, <2>3, <2>4, StashedPage, ZenonT(60)
  <1> QED
    BY <1>1, <1>2, <1>3, <1>4

(* Every step of a page, in one form. *)
LEMMA Turns ==
  ASSUME TypeOK, Next
  PROVE  \/ tab' = tab
         \/ \E t \in Tabs, page \in Pages : tab' = [tab EXCEPT ![t] = page]
  <1>1. ASSUME NEW t \in Tabs, Open(t)
        PROVE  \E page \in Pages : tab' = [tab EXCEPT ![t] = page]
    <2>1. tab[t] \in Pages /\ target \in Payload \cup {NoFile, Torn}
      BY DEF TypeOK
    <2> QED
      BY <1>1, <2>1, LoadedPage DEF Open, Shows
  <1>2. ASSUME NEW t \in Tabs, Close(t)
        PROVE  \E page \in Pages : tab' = [tab EXCEPT ![t] = page]
    BY <1>2, Payloads DEF Close, Shows
  <1>3. ASSUME NEW t \in Tabs, NEW rows \in SUBSET Rows, NEW on \in BOOLEAN, Tick(t, rows, on)
        PROVE  \E page \in Pages : tab' = [tab EXCEPT ![t] = page]
    BY <1>3, PageEvents
  <1>4. ASSUME NEW t \in Tabs, NEW f \in files, LoadFile(t, f)
        PROVE  \E page \in Pages : tab' = [tab EXCEPT ![t] = page]
    BY <1>4, PageEvents
  <1>5. ASSUME NEW t \in Tabs, NEW place \in BOOLEAN, SaveFile(t, place)
        PROVE  \E page \in Pages : tab' = [tab EXCEPT ![t] = page]
    BY <1>5, PageEvents
  <1>6. \/ (\E f \in files : Install(f)) \/ Write \/ WriteFails \/ Regenerate
        \/ (\E f \in files, added \in SUBSET Rows : Expand(f, added)) \/ Finished
        => tab' = tab
    BY DEF Install, Write, WriteFails, Regenerate, Expand, Finished, vars
  <1> QED
    BY <1>1, <1>2, <1>3, <1>4, <1>5, <1>6 DEF Next

(* What a step does on the disk. *)
LEMMA DiskStep ==
  ASSUME TypeOK, Next
  PROVE  /\ target' \in Payload \cup {NoFile, Torn}
         /\ aside' \in [0 .. MaxNow \div Second -> Payload \cup {NoFile, Torn}]
         /\ files' \subseteq Payload /\ files \subseteq files'
         /\ install' \in [rows : SUBSET Rows, at : {"idle", "writing"}, of : Payload]
         /\ replaced' \subseteq [file : Payload \cup {Torn}, at : 1 .. MaxNow]
         /\ now' \in 1 .. MaxNow
  <1>1. ASSUME NEW t \in Tabs,
               \/ Open(t) \/ Close(t)
               \/ \E rows \in SUBSET Rows, on \in BOOLEAN : Tick(t, rows, on)
               \/ \E f \in files : LoadFile(t, f)
        PROVE  UNCHANGED <<target, aside, files, install, replaced>>
    BY <1>1 DEF Open, Close, Tick, LoadFile
  <1>2. ASSUME NEW t \in Tabs, NEW place \in BOOLEAN, SaveFile(t, place)
        PROVE  /\ target' \in Payload \cup {NoFile, Torn} /\ UNCHANGED <<aside, install, replaced>>
               /\ files' \subseteq Payload /\ files \subseteq files'
    <2>1. Saved(tab[t]) \in Payload
      BY <1>2, PageEvents
    <2> QED
      BY <1>2, <2>1 DEF SaveFile, TypeOK
  <1>3. ASSUME NEW f \in files, Install(f)
        PROVE  /\ target' \in Payload \cup {NoFile, Torn}
               /\ aside' \in [0 .. MaxNow \div Second -> Payload \cup {NoFile, Torn}]
               /\ files' = files
               /\ replaced' \subseteq [file : Payload \cup {Torn}, at : 1 .. MaxNow]
               /\ install' \in [rows : SUBSET Rows, at : {"idle", "writing"}, of : Payload]
    <2>1. f \in Payload /\ Kept(f.rows) \subseteq Rows
      BY KeptRows DEF TypeOK, Payload
    <2>2. target # NoFile =>
            [file |-> target, at |-> now] \in [file : Payload \cup {Torn}, at : 1 .. MaxNow]
      BY DEF TypeOK
    <2>3. replaced' \subseteq [file : Payload \cup {Torn}, at : 1 .. MaxNow]
      BY <1>3, <2>2 DEF Install, TypeOK
    <2> QED
      BY <1>3, <2>1, <2>3 DEF Install, SetAside, TypeOK
  <1>4. CASE Write
    <2>1. install.of \in Payload /\ install.rows \subseteq Rows \cup Bare
      BY DEF TypeOK
    <2>2. target' \in Payload
      BY <1>4, <2>1 DEF Write, Payload
    <2>3. install' \in [rows : SUBSET Rows, at : {"idle", "writing"}, of : Payload]
      BY <1>4 DEF Write, TypeOK
    <2>4. UNCHANGED <<aside, files, replaced>> /\ now' \in 1 .. MaxNow
      BY <1>4, ExaminerSelectionAssumption DEF Write, Passes, TypeOK
    <2> QED
      BY <2>2, <2>3, <2>4 DEF TypeOK
  <1>5. CASE WriteFails
    <2>1. install' \in [rows : SUBSET Rows, at : {"idle", "writing"}, of : Payload]
      BY <1>5 DEF WriteFails, TypeOK
    <2>2. target' \in {NoFile, Torn} /\ UNCHANGED <<aside, files, replaced>> /\ now' \in 1 .. MaxNow
      BY <1>5, ExaminerSelectionAssumption DEF WriteFails, Passes, TypeOK
    <2> QED
      BY <2>1, <2>2 DEF TypeOK
  <1>6. CASE Regenerate
    BY <1>6, Payloads, ExaminerSelectionAssumption DEF Regenerate, Passes, TypeOK
  <1>7. ASSUME NEW f \in files, NEW added \in SUBSET Rows, Expand(f, added)
        PROVE  /\ files' \subseteq Payload /\ files \subseteq files'
               /\ UNCHANGED <<target, aside, install, replaced>>
    <2>1. Kept(f.rows) \subseteq Rows
      BY KeptRows DEF TypeOK, Payload
    <2>2. now + Zone \in Int
      BY ExaminerSelectionAssumption DEF TypeOK
    <2>3. [rows |-> Kept(f.rows) \cup added, exported |-> now + Zone, expanded |-> TRUE] \in Payload
      BY <2>1, <2>2 DEF Payload
    <2> QED
      BY <1>7, <2>3 DEF Expand, TypeOK
  <1>8. now' \in 1 .. MaxNow
    <2>1. Passes \/ now' = now
      BY DEF Next, Open, Close, Tick, LoadFile, SaveFile, Install, Write, WriteFails,
             Regenerate, Expand, Finished, vars
    <2>2. MaxNow \in Nat /\ now \in 1 .. MaxNow
      BY ExaminerSelectionAssumption DEF TypeOK
    <2> QED
      BY <2>1, <2>2 DEF Passes
  <1> QED
    BY <1>1, <1>2, <1>3, <1>4, <1>5, <1>6, <1>7, <1>8 DEF Next, Finished, vars, TypeOK

LEMMA TypeStep == TypeOK /\ [Next]_vars => TypeOK'
  <1> SUFFICES ASSUME TypeOK, [Next]_vars PROVE TypeOK'
    OBVIOUS
  <1>1. CASE Next
    <2>1. tab' \in [Tabs -> Pages]
      BY <1>1, Turns DEF TypeOK
    <2> QED
      BY <1>1, <2>1, DiskStep DEF TypeOK
  <1>2. CASE UNCHANGED vars
    BY <1>2 DEF vars, TypeOK
  <1> QED
    BY <1>1, <1>2

(* The types of the state, of every page and of every file. *)
THEOREM TypeCorrect == Spec => []TypeOK
  BY TypeInit, TypeStep, PTL DEF Spec
-----------------------------------------------------------------------------
(* Ids without a conversation: no file but the old one has any. *)
Whose(f) == f.rows \subseteq Rows \/ f = OldFile

Owned ==
  /\ target \in Payload => Whose(target)
  /\ \A s \in DOMAIN aside : aside[s] \in Payload => Whose(aside[s])
  /\ \A f \in files : Whose(f)

LEMMA OwnedInit == Init => Owned
  <1>1. Whose(Stub) /\ Whose(OldFile)
    BY DEF Whose, Stub
  <1> QED
    BY <1>1, Payloads DEF Init, Owned

LEMMA OwnedStep == TypeOK /\ Owned /\ [Next]_vars => Owned'
  <1> SUFFICES ASSUME TypeOK, Owned, [Next]_vars PROVE Owned'
    OBVIOUS
  <1>1. ASSUME UNCHANGED <<target, aside, files>> PROVE Owned'
    BY <1>1 DEF Owned
  <1>2. ASSUME NEW t \in Tabs,
               \/ Open(t) \/ Close(t)
               \/ \E rows \in SUBSET Rows, on \in BOOLEAN : Tick(t, rows, on)
               \/ \E f \in files : LoadFile(t, f)
        PROVE  Owned'
    BY <1>1, <1>2 DEF Open, Close, Tick, LoadFile
  <1>3. ASSUME NEW t \in Tabs, NEW place \in BOOLEAN, SaveFile(t, place)
        PROVE  Owned'
    <2>1. PICK f \in Payload : f = Saved(tab[t]) /\ f.rows \subseteq Rows
      BY <1>3, PageEvents DEF Pages
    <2>2. Whose(f)
      BY <2>1 DEF Whose
    <2>3. target' \in {f, target} /\ aside' = aside /\ files' = files \cup {f}
      BY <1>3, <2>1 DEF SaveFile
    <2> QED
      BY <2>2, <2>3 DEF Owned
  <1>4. ASSUME NEW f \in files, Install(f) PROVE Owned'
    <2>1. /\ target' = NoFile /\ files' = files
          /\ \A s \in DOMAIN aside : aside'[s] \in {aside[s], target}
          /\ DOMAIN aside' = DOMAIN aside
      BY <1>4 DEF Install, SetAside, TypeOK
    <2> QED
      BY <2>1, Payloads DEF Owned
  <1>5. CASE Write
    <2>1. PICK rows : rows = install.rows /\ rows \subseteq Rows
      BY DEF TypeOK
    <2>2. PICK of \in Payload : of = install.of
      BY DEF TypeOK
    <2>3. PICK f : f = [of EXCEPT !.rows = rows] /\ f.rows = rows
      BY Rewritten
    <2>4. target' = f /\ Whose(f) /\ UNCHANGED <<aside, files>>
      BY <1>5, <2>1, <2>2, <2>3 DEF Write, Whose
    <2> QED
      BY <2>4 DEF Owned
  <1>6. CASE WriteFails
    BY <1>6, Payloads DEF WriteFails, Owned
  <1>7. CASE Regenerate
    <2>1. Whose(Stub)
      BY DEF Whose, Stub
    <2> QED
      BY <1>7, <2>1 DEF Regenerate, Owned
  <1>8. ASSUME NEW f \in files, NEW added \in SUBSET Rows, Expand(f, added)
        PROVE  Owned'
    <2>1. PICK g : g = [rows |-> Kept(f.rows) \cup added, exported |-> now + Zone, expanded |-> TRUE]
      OBVIOUS
    <2>2. g.rows \subseteq Rows
      BY <2>1, KeptRows DEF TypeOK, Payload
    <2>3. files' = files \cup {g} /\ target' = target /\ aside' = aside
      BY <1>8, <2>1 DEF Expand
    <2> QED
      BY <2>2, <2>3 DEF Owned, Whose
  <1> QED
    BY <1>1, <1>2, <1>3, <1>4, <1>5, <1>6, <1>7, <1>8 DEF Next, Finished, vars

(* An id of schema 1 is never among a page's ticks, and gets into no file but the one
   it was in (the page's split() and format.py's split_ids, on every way in). *)
THEOREM NeverTicked == Spec => []BareNeverTicked
  <1>1. Spec => [](TypeOK /\ Owned)
    BY TypeInit, TypeStep, OwnedInit, OwnedStep, PTL DEF Spec
  <1>2. TypeOK /\ Owned => BareNeverTicked
    <2> SUFFICES ASSUME TypeOK, Owned PROVE BareNeverTicked
      OBVIOUS
    <2>1. \A t \in Tabs : tab[t].data \cap Bare = {}
      BY KeptRows DEF TypeOK, Pages
    <2>2. ASSUME NEW f \in OnDisk, Good(f), f.rows \cap Bare # {} PROVE f = OldFile
      <3>1. f \in Payload /\ Whose(f)
        BY <2>2, Payloads DEF OnDisk, Owned, TypeOK
      <3> QED
        BY <2>2, <3>1, ExaminerSelectionAssumption DEF Whose
    <2> QED
      BY <2>1, <2>2 DEF BareNeverTicked
  <1> QED
    BY <1>1, <1>2, PTL
-----------------------------------------------------------------------------
(* What was in place.  The backup named after a second is what the last install of
   that second replaced, and no later second's install touches it. *)
Backup(old) == aside[old.at \div Second] = old.file

Backed == \A old \in replaced : old.at < now /\ (Backup(old) \/ NameTaken(old))

LEMMA BackedStep == TypeOK /\ Backed /\ [Next]_vars => Backed'
  <1> SUFFICES ASSUME TypeOK, Backed, [Next]_vars PROVE Backed'
    OBVIOUS
  <1>1. ASSUME UNCHANGED <<aside, replaced>>, now' >= now PROVE Backed'
    <2>1. now \in Nat /\ \A old \in replaced : old.at \in Nat
      BY DEF TypeOK
    <2>2. now' = now \/ now' = now + 1
      BY DEF Next, Open, Close, Tick, LoadFile, SaveFile, Install, Write, WriteFails,
             Regenerate, Expand, Finished, Passes, vars
    <2> QED
      BY <1>1, <2>1, <2>2 DEF Backed, Backup, NameTaken
  <1>2. ASSUME NEW f \in files, Install(f), target # NoFile PROVE Backed'
    <2>1. PICK new : new = [file |-> target, at |-> now]
      OBVIOUS
    <2>2. PICK s : s = now \div Second
      OBVIOUS
    <2>3. s \in DOMAIN aside /\ now \in Nat
      BY <2>2, SecondOf DEF TypeOK
    <2>4. /\ now' = now + 1 /\ replaced' = replaced \cup {new}
          /\ aside' = [aside EXCEPT ![s] = target]
      BY <1>2, <2>1, <2>2 DEF Install, SetAside, Passes
    <2>5. new.at = now /\ new.file = target
      BY <2>1
    <2>6. aside'[new.at \div Second] = new.file /\ new.at < now'
      BY <2>2, <2>3, <2>4, <2>5
    <2>7. ASSUME NEW old \in replaced
          PROVE  /\ old.at < now'
                 /\ \/ aside'[old.at \div Second] = old.file
                    \/ \E later \in replaced' :
                         later.at > old.at /\ later.at \div Second = old.at \div Second
      <3>1. old.at \in Nat /\ old.at < now
        BY DEF Backed, TypeOK
      <3>2. CASE old.at \div Second = s
        <4>1. new \in replaced' /\ new.at > old.at /\ new.at \div Second = old.at \div Second
          BY <2>2, <2>3, <2>4, <2>5, <3>1, <3>2
        <4> QED
          BY <2>3, <2>4, <3>1, <4>1
      <3>3. CASE old.at \div Second # s
        <4>1. PICK t : t = old.at \div Second
          OBVIOUS
        <4>2. aside'[t] = aside[t]
          BY <2>4, <3>3, <4>1 DEF TypeOK
        <4> QED
          BY <2>3, <2>4, <3>1, <4>1, <4>2 DEF Backed, Backup, NameTaken
      <3> QED
        BY <3>2, <3>3
    <2> QED
      BY <2>4, <2>6, <2>7 DEF Backed, Backup, NameTaken
  <1>3. ASSUME NEW f \in files, Install(f), target = NoFile PROVE Backed'
    BY <1>1, <1>3 DEF Install, Passes, TypeOK
  <1>4. CASE Write \/ WriteFails
    BY <1>1, <1>4 DEF Write, WriteFails, Passes, TypeOK
  <1>5. ASSUME NEW t \in Tabs,
               \/ Open(t) \/ Close(t)
               \/ \E rows \in SUBSET Rows, on \in BOOLEAN : Tick(t, rows, on)
               \/ \E f \in files : LoadFile(t, f)
               \/ \E place \in BOOLEAN : SaveFile(t, place)
        PROVE  Backed'
    <2>1. UNCHANGED <<aside, replaced>> /\ now' = now + 1
      BY <1>5 DEF Open, Close, Tick, LoadFile, SaveFile, Passes
    <2>2. now \in Nat
      BY DEF TypeOK
    <2> QED
      BY <1>1, <2>1, <2>2
  <1>6. CASE \/ Regenerate \/ Finished \/ UNCHANGED vars
             \/ \E f \in files, added \in SUBSET Rows : Expand(f, added)
    BY <1>1, <1>6 DEF Regenerate, Finished, Expand, Passes, TypeOK, vars
  <1> QED
    BY <1>2, <1>3, <1>4, <1>5, <1>6 DEF Next

(* Whatever becomes of the installs, every selection one of them replaced is in its
   backup, unless another install of the same second took the backup's name
   (install_selection, which sets the file aside before it writes). *)
THEOREM PreviousAlwaysKept == Spec => []PreviousKept
  <1>1. Init => Backed
    BY DEF Init, Backed
  <1>2. Spec => []TypeOK
    BY TypeCorrect
  <1>3. Spec => []Backed
    BY <1>1, <1>2, BackedStep, PTL DEF Spec
  <1>4. TypeOK /\ Backed => PreviousKept
    <2> SUFFICES ASSUME TypeOK, Backed, NEW old \in replaced, Backup(old)
                 PROVE  SetAsideStill(old)
      BY DEF Backed, PreviousKept
    <2>1. PICK n : n = old.at /\ n \in 1 .. MaxNow
      BY DEF TypeOK
    <2>2. n \div Second \in 0 .. MaxNow \div Second
      BY <2>1, ExaminerSelectionAssumption
    <2> QED
      BY <2>1, <2>2 DEF Backup, SetAsideStill, TypeOK
  <1> QED
    BY <1>2, <1>3, <1>4, PTL
-----------------------------------------------------------------------------
(* Ticks and files.  Ticks that are not "unsaved", in a page or in a tab's storage, are
   a file's; and the storage of a page with unsaved ticks has these. *)
Filed(rows, saved) == rows = {} \/ \E f \in saved : Kept(f.rows) = rows

Anchored(page, saved) ==
  /\ ~page.dirty => Filed(page.data, saved)
  /\ ~page.stash.dirty => Filed(Kept(page.stash.rows), saved)
  /\ page.open /\ page.dirty => page.stash # NoStash /\ page.data = Kept(page.stash.rows)

Sound ==
  /\ target \in Payload => Filed(Kept(target.rows), files)
  /\ install.at = "writing" => Filed(install.rows, files)
  /\ \A t \in Tabs : Anchored(tab[t], files)

LEMMA FiledMore ==
  ASSUME NEW saved, NEW more, saved \subseteq more
  PROVE  /\ \A rows : Filed(rows, saved) => Filed(rows, more)
         /\ \A page : Anchored(page, saved) => Anchored(page, more)
  BY DEF Filed, Anchored

LEMMA SoundInit == Init => Sound
  <1> SUFFICES ASSUME Init PROVE Sound
    OBVIOUS
  <1>1. Kept({}) = {}
    BY DEF Kept
  <1>2. target \in Payload => Filed(Kept(target.rows), files)
    <2>1. target = OldFile => OldFile \in files
      BY DEF Init
    <2>2. target = Stub => Kept(target.rows) = {}
      BY <1>1 DEF Stub
    <2>3. target = NoFile => target \notin Payload
      BY Payloads
    <2>4. target \in {NoFile, Stub, OldFile}
      BY DEF Init
    <2> QED
      BY <2>1, <2>2, <2>3, <2>4 DEF Filed
  <1>3. ASSUME NEW st \in {NoStash, OldStash}
        PROVE  Anchored([Blank EXCEPT !.stash = st], files)
    <2>1. PICK page : page = [Blank EXCEPT !.stash = st]
      OBVIOUS
    <2>2. page.data = {} /\ ~page.open /\ page.stash = st
      BY <2>1 DEF Blank
    <2>3. st.dirty \/ st.rows = {}
      <3>1. OldStash.dirty
        BY DEF NoStash, OldStash
      <3>2. NoStash.rows = {}
        BY DEF NoStash
      <3> QED
        BY <1>3, <3>1, <3>2
    <2>4. Anchored(page, files)
      BY <1>1, <2>2, <2>3 DEF Anchored, Filed
    <2> QED
      BY <2>1, <2>4
  <1> QED
    BY <1>2, <1>3 DEF Init, Sound, NotInstalling

(* A page that a step has shown is anchored in the files there are then. *)
LEMMA SoundTurn ==
  ASSUME TypeOK, Sound, NEW t \in Tabs, NEW page \in Pages, tab' = [tab EXCEPT ![t] = page],
         files \subseteq files', Anchored(page, files')
  PROVE  \A u \in Tabs : Anchored(tab[u], files)'
  <1> SUFFICES ASSUME NEW u \in Tabs PROVE Anchored(tab'[u], files')
    BY DEF Anchored, Filed
  <1>1. tab'[u] = IF u = t THEN page ELSE tab[u]
    BY DEF TypeOK
  <1>2. Anchored(tab[u], files)
    BY DEF Sound
  <1> QED
    BY <1>1, <1>2, FiledMore

LEMMA SoundPage ==
  ASSUME TypeOK, Sound, NEW t \in Tabs, UNCHANGED <<target, files, install>>,
         NEW page \in Pages, tab' = [tab EXCEPT ![t] = page], Anchored(page, files)
  PROVE  Sound'
  <1>1. \A u \in Tabs : Anchored(tab[u], files)'
    BY SoundTurn
  <1> QED
    BY <1>1 DEF Sound, Filed

LEMMA SoundOpen ==
  ASSUME TypeOK, Sound, NEW t \in Tabs
  PROVE  Loaded(tab[t]) \in Pages /\ Anchored(Loaded(tab[t]), files)
  <1>1. PICK old \in Pages : old = tab[t]
    BY DEF TypeOK
  <1>2. PICK page : page = Loaded(old)
    OBVIOUS
  <1>3. /\ page \in Pages /\ page.stash = old.stash
        /\ \/ old.stash # NoStash /\ page.data = Kept(old.stash.rows) /\ page.dirty = old.stash.dirty
           \/ target \in Payload /\ page.data = Kept(target.rows) /\ ~page.dirty
           \/ page.data = {} /\ ~page.dirty
    BY <1>2, LoadedPage, Payloads DEF TypeOK
  <1>4. Anchored(old, files) /\ (target \in Payload => Filed(Kept(target.rows), files))
    BY <1>1 DEF Sound
  <1>5. Anchored(page, files)
    BY <1>3, <1>4 DEF Anchored, Filed
  <1> QED
    BY <1>1, <1>2, <1>3, <1>5

LEMMA SoundStep == TypeOK /\ Sound /\ [Next]_vars => Sound'
  <1> SUFFICES ASSUME TypeOK, Sound, [Next]_vars PROVE Sound'
    OBVIOUS
  <1>1. ASSUME NEW t \in Tabs, Open(t) PROVE Sound'
    <2>1. UNCHANGED <<target, files, install>> /\ tab' = [tab EXCEPT ![t] = Loaded(tab[t])]
      BY <1>1 DEF Open, Shows
    <2> QED
      BY <2>1, SoundOpen, SoundPage
  <1>2. ASSUME NEW t \in Tabs, Close(t) PROVE Sound'
    <2>1. UNCHANGED <<target, files, install>> /\ tab' = [tab EXCEPT ![t] = Blank]
      BY <1>2 DEF Close, Shows
    <2>2. Anchored(Blank, files)
      BY DEF Anchored, Filed, Blank, NoStash, Kept
    <2> QED
      BY <2>1, <2>2, Payloads, SoundPage
  <1>3. ASSUME NEW t \in Tabs, NEW rows \in SUBSET Rows, NEW on \in BOOLEAN, Tick(t, rows, on)
        PROVE  Sound'
    <2>1. PICK page \in Pages : /\ tab' = [tab EXCEPT ![t] = page] /\ page.dirty
                               /\ page.stash.rows = page.data /\ page.stash.dirty
                               /\ page.stash # NoStash
      BY <1>3, PageEvents
    <2>2. Kept(page.data) = page.data
      BY KeptRows DEF Pages
    <2>3. Anchored(page, files)
      BY <2>1, <2>2 DEF Anchored
    <2> QED
      BY <1>3, <2>1, <2>3, SoundPage DEF Tick
  <1>4. ASSUME NEW t \in Tabs, NEW f \in files, LoadFile(t, f) PROVE Sound'
    <2>1. PICK page \in Pages : /\ tab' = [tab EXCEPT ![t] = page]
                               /\ page.data = Kept(f.rows) /\ ~page.dirty
                               /\ page.stash.rows = page.data /\ ~page.stash.dirty
      BY <1>4, PageEvents
    <2>2. Kept(page.data) = page.data
      BY KeptRows DEF Pages
    <2>3. Anchored(page, files)
      BY <2>1, <2>2 DEF Anchored, Filed
    <2> QED
      BY <1>4, <2>1, <2>3, SoundPage DEF LoadFile
  <1>5. ASSUME NEW t \in Tabs, NEW place \in BOOLEAN, SaveFile(t, place) PROVE Sound'
    <2>1. PICK page \in Pages : /\ tab' = [tab EXCEPT ![t] = page]
                               /\ page.data = tab[t].data /\ ~page.dirty
                               /\ page.stash.rows = page.data /\ ~page.stash.dirty
      BY <1>5, PageEvents
    <2>2. PICK f \in Payload : f = Saved(tab[t]) /\ f.rows = page.data
      BY <1>5, <2>1, PageEvents
    <2>3. Kept(page.data) = page.data
      BY KeptRows DEF Pages
    <2>4. files' = files \cup {f} /\ target' \in {f, target} /\ install' = install
      BY <1>5, <2>2 DEF SaveFile
    <2>5. Filed(Kept(f.rows), files')
      BY <2>4 DEF Filed
    <2>6. Anchored(page, files')
      BY <2>1, <2>2, <2>3, <2>5 DEF Anchored
    <2>7. \A u \in Tabs : Anchored(tab[u], files)'
      BY <2>1, <2>4, <2>6, SoundTurn
    <2>8. /\ target' \in Payload => Filed(Kept(target'.rows), files')
          /\ install.at = "writing" => Filed(install.rows, files')
      BY <2>4, <2>5, FiledMore DEF Sound
    <2> QED
      BY <2>4, <2>7, <2>8 DEF Sound, Filed
  <1>6. ASSUME NEW f \in files, Install(f) PROVE Sound'
    <2>1. install'.rows = Kept(f.rows) /\ target' = NoFile /\ UNCHANGED <<files, tab>>
      BY <1>6 DEF Install
    <2>2. Filed(Kept(f.rows), files)
      BY DEF Filed
    <2> QED
      BY <2>1, <2>2, Payloads DEF Sound, Filed, Anchored
  <1>7. CASE Write
    <2>1. PICK rows : rows = install.rows /\ rows \subseteq Rows
      BY DEF TypeOK
    <2>2. PICK of \in Payload : of = install.of
      BY DEF TypeOK
    <2>3. PICK f : f = [of EXCEPT !.rows = rows] /\ f.rows = rows
      BY Rewritten
    <2>4. /\ target' = f /\ install'.at = "idle" /\ UNCHANGED <<files, tab>>
          /\ Filed(rows, files)
      BY <1>7, <2>1, <2>2, <2>3 DEF Write, Sound, TypeOK
    <2>5. Kept(rows) = rows
      BY <2>1, KeptRows
    <2> QED
      BY <2>3, <2>4, <2>5 DEF Sound, Filed, Anchored
  <1>8. CASE WriteFails
    <2>1. /\ target' \notin Payload /\ install'.at = "idle" /\ UNCHANGED <<files, tab>>
      BY <1>8, Payloads DEF WriteFails, TypeOK
    <2> QED
      BY <2>1 DEF Sound, Filed, Anchored
  <1>9. CASE Regenerate
    <2>1. Kept(Stub.rows) = {}
      BY DEF Stub, Kept
    <2>2. target' = Stub /\ UNCHANGED <<files, tab, install>>
      BY <1>9 DEF Regenerate
    <2> QED
      BY <2>1, <2>2 DEF Sound, Filed, Anchored
  <1>10. ASSUME NEW f \in files, NEW added \in SUBSET Rows, Expand(f, added) PROVE Sound'
    <2>1. files \subseteq files' /\ UNCHANGED <<target, tab, install>>
      BY <1>10 DEF Expand
    <2>2. \A u \in Tabs : Anchored(tab[u], files')
      BY <2>1, FiledMore DEF Sound
    <2>3. /\ target \in Payload => Filed(Kept(target.rows), files')
          /\ install.at = "writing" => Filed(install.rows, files')
      BY <2>1, FiledMore DEF Sound
    <2> QED
      BY <2>1, <2>2, <2>3 DEF Sound, Filed, Anchored
  <1>11. CASE Finished \/ UNCHANGED vars
    BY <1>11 DEF Finished, vars, Sound, Filed, Anchored
  <1> QED
    BY <1>1, <1>2, <1>3, <1>4, <1>5, <1>6, <1>7, <1>8, <1>9, <1>10, <1>11 DEF Next

LEMMA SoundAlways == Spec => [](TypeOK /\ Sound)
  BY TypeInit, TypeStep, SoundInit, SoundStep, PTL DEF Spec

(* A page that does not show "unsaved" has the ticks of some file (isDirty of the
   page's store, across apply, restash, stash and saveFile). *)
THEOREM CleanAlwaysSaved == Spec => []CleanIsSaved
  <1>1. TypeOK /\ Sound => CleanIsSaved
    <2> SUFFICES ASSUME TypeOK, Sound, NEW t \in Tabs, ~tab[t].dirty, tab[t].data # {}
                 PROVE  \E f \in OnDisk : Good(f) /\ Kept(f.rows) = tab[t].data
      BY DEF CleanIsSaved
    <2>1. PICK f \in files : Kept(f.rows) = tab[t].data
      BY DEF Sound, Anchored, Filed
    <2>2. f \in OnDisk /\ Good(f)
      BY Payloads DEF OnDisk, TypeOK
    <2> QED
      BY <2>1, <2>2
  <1> QED
    BY <1>1, SoundAlways, PTL

(* Loading a page again leaves its unsaved ticks, unless a file with a later stamp is
   in place (restash, after selection.js has been applied). *)
THEOREM ReloadAlwaysKeeps == Spec => ReloadKeeps
  <1>1. TypeOK /\ Sound /\ [Next]_vars =>
          [\A t \in Tabs :
             tab[t].open /\ tab[t].dirty /\ NoneNewer(t) /\ Open(t) =>
               tab'[t].data = tab[t].data]_vars
    <2> SUFFICES ASSUME TypeOK, Sound, NEW t \in Tabs, tab[t].open, tab[t].dirty, NoneNewer(t),
                        Open(t)
                 PROVE  tab'[t].data = tab[t].data
      OBVIOUS
    <2>1. PICK old \in Pages : old = tab[t]
      BY DEF TypeOK
    <2>2. old.stash # NoStash /\ old.data = Kept(old.stash.rows)
      BY <2>1 DEF Sound, Anchored
    <2>3. tab'[t] = Loaded(old)
      BY <2>1 DEF Open, Shows, TypeOK
    <2>4. Good(target) => target.exported < old.stash.saved
      BY <2>1 DEF NoneNewer
    <2>5. target \in Payload \cup {NoFile, Torn}
      BY DEF TypeOK
    <2>6. Loaded(old).data = Kept(old.stash.rows)
      <3>1. Good(target) => target.exported \in Int /\ old.stash.saved \in Int
        BY <2>5, Payloads DEF Payload, Pages, Stashes
      <3>2. Good(target) => old.stash.saved > target.exported
        BY <2>4, <3>1
      <3> QED
        BY <2>2, <2>5, <3>2, LoadedPage
    <2> QED
      BY <2>1, <2>2, <2>3, <2>6
  <1> QED
    BY <1>1, SoundAlways, PTL DEF Spec, ReloadKeeps
=============================================================================
