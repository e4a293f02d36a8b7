------------------------- MODULE ExaminerSelection -------------------------
(***************************************************************************)
(* The examiner's ticks: the store of a report page (SCSel in               *)
(* scripts/report_ui.py), its copy in the tab's localStorage, the            *)
(* selection.js every page loads, the files saved from a page, and the        *)
(* installing of one (packages/snapchat_auto_selection, format.py).          *)
(*                                                                         *)
(* A page opened from file:// writes to no file but by a download, and each   *)
(* tab has a storage of its own, so the same selection exists in many         *)
(* copies, and what a page shows is a matter of their time stamps.           *)
(***************************************************************************)
EXTENDS Integers, FiniteSets

CONSTANTS
  Rows,      \* row ids as the reports have them
  Bare,      \* message ids of schema 1, which name no conversation
  Tabs,
  Zone,      \* how far the examiner's clock is ahead of UTC
  Second,    \* instants in a second
  MaxNow     \* bound: instants (every event takes one)

ASSUME ExaminerSelectionAssumption ==
  /\ Rows \cap Bare = {} /\ Zone \in Int
  /\ Second \in Nat \ {0} /\ MaxNow \in Nat \ {0}

VARIABLES
  target,    \* <report folder>/selection.js: a payload, NoFile, or Torn
  aside,     \* its backups, by the second in their names
  files,     \* the payloads saved elsewhere: downloads, and expansions
  tab,       \* a tab's page and its localStorage
  install,   \* an --install-selection under way
  replaced,  \* what was in place when an install began, and when: a record of this
             \* module's, which the program does not keep
  now

vars == <<target, aside, files, tab, install, replaced, now>>

(* A payload: its ids, when it was exported (0: not said), and whether it carries
   the policy of an expansion. *)
Payload == [rows : SUBSET (Rows \cup Bare), exported : Int, expanded : BOOLEAN]

NoFile == [file |-> "none"]
Torn == [file |-> "torn"]         \* the browser drops a script that does not parse
Stub == [rows |-> {}, exported |-> 0, expanded |-> FALSE]
OldFile == [rows |-> Rows \cup Bare, exported |-> 1, expanded |-> FALSE]
Good(f) == f \notin {NoFile, Torn}

NoStash == [saved |-> 0, rows |-> {}, legacy |-> {}, dirty |-> FALSE, from |-> FALSE]
OldStash == [NoStash EXCEPT !.saved = 1, !.rows = Bare, !.dirty = TRUE]
Blank == [open |-> FALSE, data |-> {}, legacy |-> {}, exported |-> 0, expanded |-> FALSE,
          dirty |-> FALSE, from |-> FALSE, stash |-> NoStash]
NotInstalling == [rows |-> {}, at |-> "idle", of |-> Stub]

Init ==
  /\ target \in {NoFile, Stub, OldFile}
  /\ aside = [s \in 0 .. MaxNow \div Second |-> NoFile]
  /\ files = {OldFile}
  /\ tab \in [Tabs -> {[Blank EXCEPT !.stash = s] : s \in {NoStash, OldStash}}]
  /\ install = NotInstalling /\ replaced = {}
  /\ now = 1

Passes == now < MaxNow /\ now' = now + 1
-----------------------------------------------------------------------------
(* The page's store. *)

(* split(): an id without a conversation is put aside, on every way in. *)
Kept_All(ids) == ids
Kept(ids) == ids \ Bare
Quarantined(ids) == ids \cap Bare

(* apply(): what a file says replaces the store. *)
Apply(page, f) ==
  [page EXCEPT !.data = Kept(f.rows), !.legacy = Quarantined(f.rows), !.exported = f.exported,
               !.expanded = f.expanded, !.dirty = FALSE, !.from = f.expanded]

(* stash(): the rows, not the policy that came with them. *)
Stash_Clean(page) == [saved |-> now, rows |-> page.data, legacy |-> page.legacy,
                      dirty |-> FALSE, from |-> page.from]
Stash(page) == [saved |-> now, rows |-> page.data, legacy |-> page.legacy,
                dirty |-> page.dirty, from |-> page.from]

StashWins_OverDated(page) == page.stash # NoStash /\ page.exported # 0 /\ page.stash.saved > page.exported
StashWins(page) ==
  page.stash # NoStash /\ (page.exported = 0 \/ page.stash.saved > page.exported)

(* restash(): the tab's own copy, when it is newer. *)
Restash(page) ==
  IF StashWins(page)
  THEN [page EXCEPT !.data = Kept(page.stash.rows), !.dirty = page.stash.dirty,
                    !.legacy = page.stash.legacy \cup Quarantined(page.stash.rows),
                    !.from = page.stash.from]
  ELSE page

(* A page starts empty, takes the tab's copy, and then runs selection.js. *)
Loaded(old) ==
  LET started == Restash([Blank EXCEPT !.open = TRUE, !.stash = old.stash])
  IN IF Good(target) THEN Restash(Apply(started, target)) ELSE started

Shows(t, page) == tab' = [tab EXCEPT ![t] = page]
Stashed(page) == [page EXCEPT !.stash = Stash(page)]
Touched(page) == Stashed([page EXCEPT !.dirty = TRUE])

(* A report is opened in the tab, or the one in it is loaded again. *)
Open(t) ==
  /\ Passes
  /\ Shows(t, Loaded(tab[t]))
  /\ UNCHANGED <<target, aside, files, install, replaced>>

(* The tab is closed, and its storage goes with it. *)
Close(t) ==
  /\ tab[t].open /\ Passes
  /\ Shows(t, Blank)
  /\ UNCHANGED <<target, aside, files, install, replaced>>

(* set(), setMany() and clear(). *)
Tick(t, rows, on) ==
  /\ tab[t].open /\ Passes
  /\ Shows(t, Touched([tab[t] EXCEPT !.data = IF on THEN @ \cup rows ELSE @ \ rows]))
  /\ UNCHANGED <<target, aside, files, install, replaced>>

(* scSelLoad, confirmed. *)
LoadFile(t, f) ==
  /\ tab[t].open /\ Passes
  /\ Shows(t, Stashed(Apply(tab[t], f)))
  /\ UNCHANGED <<target, aside, files, install, replaced>>

(* saveFile(), in either form; the .js may be put in place by hand. *)
Saved(page) == [rows |-> page.data, exported |-> now, expanded |-> page.expanded]

SaveFile(t, place) ==
  /\ tab[t].open /\ Passes
  /\ files' = files \cup {Saved(tab[t])}
  /\ target' = IF place THEN Saved(tab[t]) ELSE target
  /\ Shows(t, Stashed([tab[t] EXCEPT !.dirty = FALSE]))
  /\ UNCHANGED <<aside, install, replaced>>
-----------------------------------------------------------------------------
(* The tool. *)

(* install_selection(): the file in place is set aside, or nothing is done.  A file
   of another run is refused unless forced, which is the examiner's choice. *)
SetAside_NotMoved == aside
SetAside == [aside EXCEPT ![now \div Second] = target]

Install(f) ==
  /\ install.at = "idle" /\ Passes
  /\ install' = [at |-> "writing", rows |-> Kept(f.rows), of |-> f]
  /\ IF target = NoFile
     THEN UNCHANGED <<aside, replaced>>
     ELSE aside' = SetAside /\ replaced' = replaced \cup {[file |-> target, at |-> now]}
  /\ target' = NoFile
  /\ UNCHANGED <<files, tab>>

Write ==
  /\ install.at = "writing" /\ Passes
  /\ target' = [install.of EXCEPT !.rows = install.rows]
  /\ install' = [install EXCEPT !.at = "idle"]
  /\ UNCHANGED <<aside, files, tab, replaced>>

(* The write fails, or the program is killed in it or before it. *)
WriteFails ==
  /\ install.at = "writing" /\ Passes
  /\ target' \in {NoFile, Torn}
  /\ install' = [install EXCEPT !.at = "idle"]
  /\ UNCHANGED <<aside, files, tab, replaced>>

(* write_selection_stub(): a run writes its reports into the folder. *)
Regenerate ==
  /\ target = NoFile /\ Passes
  /\ target' = Stub
  /\ UNCHANGED <<aside, files, tab, install, replaced>>

(* expanded_selection(): stamped with the local time, where a page writes UTC, and
   the two are compared as text. *)
Expand(f, added) ==
  /\ Passes
  /\ files' = files \cup
       {[rows |-> Kept(f.rows) \cup added, exported |-> now + Zone, expanded |-> TRUE]}
  /\ UNCHANGED <<target, aside, tab, install, replaced>>

(* The clock has come to its bound. *)
Finished == now = MaxNow /\ UNCHANGED vars

Next ==
  \/ \E t \in Tabs : Open(t) \/ Close(t)
  \/ \E t \in Tabs, rows \in (SUBSET Rows) \ {{}}, on \in BOOLEAN : Tick(t, rows, on)
  \/ \E t \in Tabs, f \in files : LoadFile(t, f)
  \/ \E t \in Tabs, place \in BOOLEAN : SaveFile(t, place)
  \/ \E f \in files : Install(f)
  \/ Write \/ WriteFails \/ Regenerate
  \/ \E f \in files, added \in SUBSET Rows : Expand(f, added)
  \/ Finished

Spec == Init /\ [][Next]_vars
-----------------------------------------------------------------------------
OnDisk == {target} \cup files \cup {aside[s] : s \in DOMAIN aside}

Stashes == [saved : Nat, rows : SUBSET (Rows \cup Bare), legacy : SUBSET Bare,
            dirty : BOOLEAN, from : BOOLEAN]
Pages == [open : BOOLEAN, data : SUBSET Rows, legacy : SUBSET Bare, exported : Int,
          expanded : BOOLEAN, dirty : BOOLEAN, from : BOOLEAN, stash : Stashes]

(* The types of the state. *)
TypeOK ==
  /\ target \in Payload \cup {NoFile, Torn}
  /\ aside \in [0 .. MaxNow \div Second -> Payload \cup {NoFile, Torn}]
  /\ files \subseteq Payload
  /\ tab \in [Tabs -> Pages]
  /\ install \in [rows : SUBSET Rows, at : {"idle", "writing"}, of : Payload]
  /\ replaced \subseteq [file : Payload \cup {Torn}, at : 1 .. MaxNow]
  /\ now \in 1 .. MaxNow

(* "Promoting it on whichever page happens to be open would invent a fact": an id
   of schema 1 is never among a page's ticks, by whatever way the page came by them,
   so it gets into no file but the one it was in. *)
BareNeverTicked ==
  /\ \A t \in Tabs : tab[t].data \cap Bare = {}
  /\ \A f \in OnDisk : Good(f) /\ f.rows \cap Bare # {} => f = OldFile

(* The toolbar's "unsaved" note: a page that does not show it has the ticks of some
   file, also after its tab was loaded again or another file was put in place. *)
CleanIsSaved ==
  \A t \in Tabs :
    tab[t].open /\ ~tab[t].dirty /\ tab[t].data # {} =>
      \E f \in OnDisk : Good(f) /\ Kept(f.rows) = tab[t].data

(* "Localstorage is still written as a same-tab safety net, so an accidental reload
   does not lose work": loading a page again leaves its unsaved ticks, unless a file
   with a later stamp has been put in place. *)
NoneNewer(t) == Good(target) => target.exported < tab[t].stash.saved

ReloadKeeps ==
  [][\A t \in Tabs :
       tab[t].open /\ tab[t].dirty /\ NoneNewer(t) /\ Open(t) => tab'[t].data = tab[t].data]_vars

(* "A failed backup must not cost the examiner the old file": whatever becomes of the
   installs, every selection that one of them replaced is in a backup, but where
   another install in the same second replaced one too and gave its name to that. *)
SetAsideStill(old) == \E s \in DOMAIN aside : aside[s] = old.file
NameTaken(old) ==
  \E later \in replaced : later.at > old.at /\ later.at \div Second = old.at \div Second

PreviousKept == \A old \in replaced : SetAsideStill(old) \/ NameTaken(old)
-----------------------------------------------------------------------------
(* What the documentation says and the code does not do. *)

(* "Carried straight through a load -> save round trip, because both are load-
   bearing": the policy a page would save is the one its ticks came with (page.from
   remembers it). *)
PolicyCarried == \A t \in Tabs : tab[t].open => tab[t].expanded = tab[t].from
=============================================================================
