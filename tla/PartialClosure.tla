--------------------------- MODULE PartialClosure ---------------------------
(***************************************************************************)
(* scripts/partial_report.py: from the rows an examiner ticked to the rows *)
(* a partial report renders.  resolve() maps every ticked id onto a row of *)
(* this run, expand() adds the rows the enabled relations reach and the    *)
(* conversation an included message is shown in, expanded_selection()      *)
(* writes the result back as a selection that is reviewed and built from.  *)
(*                                                                         *)
(* The evidence (Rows, Links, Parent, Hits, Group) is a constant; the      *)
(* selection, the policy and the reports whose index failed are chosen in  *)
(* Init.  A row's kind is a function of its id, as the id prefixes make    *)
(* it.  Left out: the wording of reasons and warnings, the max_rows        *)
(* warning, and the counts of links that leave the extract.                *)
(***************************************************************************)
EXTENDS Naturals, Sequences, FiniteSets

CONSTANTS Ids,          \* row ids: those of this run and those ticked earlier
          Kind,         \* Kind[id]: the report a row belongs to
          Rows,         \* the ids this extraction has a row for
          Positional,   \* msg ids that are only a position in the conversation
          Links,        \* the edges the generators recorded, src's report owning each
          Parent,       \* Parent[msg]: the conversation that contains it
          Hits,         \* Hits[value]: rows an alternate identifier names
          Group,        \* Group[mem]: its group, for the grouped Memories
          Selections,   \* selection files: id -> [keys, why, of]
          Policies,     \* [relations, transitive, unresolved]
          Overruling,   \* those a second build may be given for its file's own
          Productions,  \* the kinds whose index was produced
          MaxPasses,    \* 25 in the code
          MaxUnticked,  \* bound: rows unticked when an expansion is reviewed
          NoRow         \* a ticked row this run has no row for

KINDS == {"conv", "msg", "ct", "mem", "cc", "cm"}

Relation(key, edge, src, dst) ==
  [key |-> key, edge |-> edge, src |-> src, dst |-> dst]

RELATIONS ==
  { Relation("conv_messages", "conv_message", "conv", "msg"),
    Relation("conv_cache", "conv_cache", "conv", "cc"),
    Relation("msg_cache", "message_cache", "msg", "cc"),
    Relation("msg_sender", "message_sender", "msg", "ct"),
    Relation("participants", "conv_participant", "conv", "ct"),
    Relation("contact_conversations", "conv_participant", "ct", "conv"),
    Relation("mem_group", "memory_group", "mem", "mem"),
    Relation("mem_cache", "memory_cache", "mem", "cc"),
    Relation("mem_cachemedia", "memory_cachemedia", "mem", "cm"),
    Relation("mem_filter_assets", "memory_filter_asset", "mem", "cc"),
    Relation("cache_memory", "memory_cache", "cc", "mem"),
    Relation("cache_filter_memories", "memory_filter_asset", "cc", "mem"),
    Relation("cache_message", "message_cache", "cc", "msg"),
    Relation("cache_conversation", "conv_cache", "cc", "conv"),
    Relation("cache_cachemedia", "cache_cachemedia", "cc", "cm"),
    Relation("cachemedia_origin", "any", "cm", "any") }

OffByDefault == {"conv_messages", "conv_cache", "contact_conversations",
                 "mem_cachemedia", "mem_filter_assets",
                 "cache_filter_memories", "cache_cachemedia"}
Everything == {rel.key : rel \in RELATIONS}
Recommended == Everything \ OffByDefault
Minimal == {}

\* the alternates of a kind, in the order they are tried
ResolveOrder ==
  [ mem |-> <<"snap", "mediaid", "entry", "cachekeys">>, cc |-> <<"key", "sha">>,
    conv |-> <<"conv", "server">>, msg |-> <<"smid", "ts_sender">>,
    ct |-> <<"uid", "user", "conv">>, cm |-> <<"sha", "raw", "rel">> ]

ASSUME EvidenceAssumption ==
  /\ Kind \in [Ids -> KINDS]
  /\ Rows \subseteq Ids /\ IsFiniteSet(Rows)
  /\ Positional \subseteq {i \in Ids : Kind[i] = "msg"}
  /\ \A l \in Links : l.src \in Rows /\ l.dst \in Ids
  /\ DOMAIN Parent \subseteq {i \in Rows : Kind[i] = "msg"}
  /\ \A i \in DOMAIN Parent : Parent[i] \in Rows /\ Kind[Parent[i]] = "conv"
  /\ \A value \in DOMAIN Hits : Hits[value] \subseteq Rows
  /\ DOMAIN Group \subseteq Rows
  /\ \A S \in Selections :
       DOMAIN S \subseteq Ids /\ \A id \in DOMAIN S : DOMAIN S[id] = {"keys", "why", "of"}
  /\ Policies \cup Overruling \subseteq
       [relations : SUBSET Everything, transitive : BOOLEAN, unresolved : {"refuse", "drop"}]
  \* Conversations and messages are the two indexes of one report
  /\ \A prod \in Productions :
       prod \subseteq KINDS /\ ("conv" \in prod <=> "msg" \in prod)
  /\ MaxPasses \in Nat /\ MaxUnticked \in Nat /\ NoRow \notin Ids

VARIABLES selection,   \* the file the run was given
          policy,      \* the options of the run
          produced,    \* the kinds whose index was produced
          pc,
          resolution,  \* [seeds, carried, moved, unresolved]
          included,    \* Closure.included
          reasons,     \* Closure.reasons: <<row, [by, from]>>
          frontier, added, passes,
          stopped,     \* the "stopped after 25 passes" warning
          reviewed,    \* rows kept at the review; {} before the second build
          pulled,      \* those of them a relation or containment had added
          overruled    \* the second build was given relations of its own

vars == <<selection, policy, produced, pc, resolution, included, reasons,
          frontier, added, passes, stopped, reviewed, pulled, overruled>>
input == <<selection, policy, produced, reviewed, pulled, overruled>>

Unresolved == [seeds |-> {}, carried |-> {}, moved |-> {}, unresolved |-> {}]

Init ==
  /\ selection \in Selections
  /\ policy \in Policies
  /\ produced \in Productions
  /\ pc = "resolve"
  /\ resolution = Unresolved
  /\ included = {} /\ reasons = {} /\ frontier = {} /\ added = {}
  /\ passes = 0 /\ stopped = FALSE /\ reviewed = {} /\ pulled = {}
  /\ overruled = FALSE

-----------------------------------------------------------------------------
(* resolve(): which rows a ticked id stands for                            *)

HasRow(r) == r \in Rows /\ Kind[r] \in produced

\* the recorded identifiers of a ticked row, in the order they are looked up
Alternates(id) ==
  LET order == ResolveOrder[Kind[id]]
      keys == selection[id].keys
  IN  UNION { {i} \X DOMAIN keys[order[i]] :
              i \in {n \in DOMAIN order : order[n] \in DOMAIN keys} }

Identified(id, value) ==
  IF value \in DOMAIN Hits THEN {r \in Hits[value] : Kind[r] = Kind[id]} ELSE {}
Named(id, alt) ==
  Identified(id, selection[id].keys[ResolveOrder[Kind[id]][alt[1]]][alt[2]])

FirstOf(alts) ==
  CHOOSE a \in alts : \A b \in alts :
    a[1] < b[1] \/ (a[1] = b[1] /\ a[2] <= b[2])

OneGroup(rows) ==
  /\ rows \subseteq DOMAIN Group
  /\ \A r, s \in rows : Group[r] = Group[s]

ByOwnId_Position(id) == id \in Rows
ByOwnId(id) == id \in Rows /\ id \notin Positional

\* alternates that name one row, and those that name several of one group
Single(id) == {a \in Alternates(id) : Cardinality(Named(id, a)) = 1}
Grouped(id) == {a \in Alternates(id) : /\ Cardinality(Named(id, a)) > 1
                                       /\ OneGroup(Named(id, a))}
Weak(id) == {a \in Alternates(id) : Cardinality(Named(id, a)) > 1}

\* one row by the first alternate that names just one, or else a whole group
ResolveOne(id) ==
  LET alternates == IF Single(id) # {} THEN Single(id) ELSE Grouped(id)
  IN  IF ByOwnId(id) THEN {id}
      ELSE UNION {Named(id, a) : a \in {x \in alternates : x = FirstOf(alternates)}}

Found(id) == IF Kind[id] \in produced THEN ResolveOne(id) ELSE {}

Ambiguous ==
  {id \in DOMAIN selection :
     Kind[id] \in produced /\ Found(id) = {} /\ Weak(id) # {}}
Missing == {id \in DOMAIN selection : Found(id) = {}} \ Ambiguous

Refused == Missing # {} /\ policy.unresolved = "refuse"

Seeds == UNION {Found(id) : id \in DOMAIN selection}

\* expand() up to its loop: the seeds, each with the reason it was ticked
Resolve ==
  /\ pc = "resolve" /\ Ambiguous = {} /\ ~ Refused
  /\ resolution' =
       [ seeds |-> Seeds,
         carried |-> UNION {Found(id) : id \in {t \in DOMAIN selection : selection[t].why}},
         moved |-> { m \in (DOMAIN selection) \X Seeds : m[2] \in Found(m[1]) /\ m[2] # m[1] },
         unresolved |-> Missing ]
  /\ included' = Seeds /\ frontier' = Seeds /\ added' = {}
  /\ reasons' = { <<r, [by |-> "selected", from |-> r]>> : r \in Seeds }
  /\ pc' = "pass" /\ passes' = 0 /\ stopped' = FALSE
  /\ UNCHANGED input

\* AmbiguousSelection and LookupError: no report is built
ResolveRaises ==
  /\ pc = "resolve" /\ (Ambiguous # {} \/ Refused)
  /\ pc' = "refused"
  /\ UNCHANGED <<input, resolution, included, reasons, frontier, added, passes, stopped>>

-----------------------------------------------------------------------------
(* expand()                                                                *)

Enabled == {rel \in RELATIONS : rel.key \in policy.relations}

\* _edge_map: an edge is found from either end, whichever report recorded it
Ends_AsRecorded(l) == { <<l.src, l.dst>> }
Ends(l) == { <<l.src, l.dst>>, <<l.dst, l.src>> }

Reachable(rel, src) ==
  { e[2] : e \in
      { x \in UNION {Ends(l) : l \in {k \in Links : /\ Kind[k.src] \in produced
                                                    /\ rel.edge \in {"any", k.edge}}} :
          x[1] = src /\ x[2] # src /\ rel.dst \in {"any", Kind[x[2]]} } }

Reached ==
  UNION { { <<d, [by |-> hop[1].key, from |-> hop[2]]>> :
              d \in {r \in Reachable(hop[1], hop[2]) : HasRow(r)} } :
          hop \in {h \in Enabled \X frontier : Kind[h[2]] = h[1].src} }

\* Closure.add: a reason is recorded whether or not the row is already in
NewReasons_WhenIn == {p \in Reached : p[1] \in included}
NewReasons == Reached

Pass ==
  /\ pc = "pass" /\ frontier # {}
  /\ LET to == {p[1] : p \in Reached}
     IN  /\ included' = included \cup to
         /\ added' = to \ included
         /\ reasons' = reasons \cup NewReasons
  /\ passes' = passes + 1
  /\ pc' = "contain"
  /\ UNCHANGED <<input, resolution, frontier, stopped>>

FrontierEmpty ==
  /\ pc = "pass" /\ frontier = {}
  /\ pc' = "last"
  /\ UNCHANGED <<input, resolution, included, reasons, frontier, added, passes, stopped>>

Holders(rows) == {Parent[r] : r \in rows \cap DOMAIN Parent}

Changed_AnyHeld == Holders(included) # {}
Changed == ~ (Holders(included) \subseteq included)

\* one turn of _apply_containment's loop; it is left when a turn adds nothing
Contain ==
  /\ pc \in {"contain", "last"}
  /\ included' = included \cup Holders(included)
  /\ reasons' = reasons \cup { <<Parent[r], [by |-> "holds", from |-> r]>> :
                               r \in included \cap DOMAIN Parent }
  /\ pc' = IF Changed THEN pc
           ELSE IF pc = "last" THEN "done" ELSE "decide"
  /\ UNCHANGED <<input, resolution, frontier, added, passes, stopped>>

TooManyPasses == passes > MaxPasses

OneHop_Never == FALSE
OneHop == ~ policy.transitive

NextFrontier ==
  /\ pc = "decide"
  /\ \/ /\ OneHop
        /\ pc' = "last"
        /\ UNCHANGED <<frontier, stopped>>
     \/ /\ ~ OneHop /\ ~ TooManyPasses
        /\ frontier' = added /\ stopped' = FALSE
        /\ pc' = "pass"
     \/ /\ ~ OneHop /\ TooManyPasses
        /\ frontier' = added /\ stopped' = TRUE
        /\ pc' = "last"
  /\ UNCHANGED <<input, resolution, included, reasons, added, passes>>

-----------------------------------------------------------------------------
(* expanded_selection(), the review in the full report, and the build of   *)
(* what the examiner saved, over the same evidence.                        *)

NoKeys == [name \in {} |-> <<>>]

\* a ticked row keeps its key record, under the id it landed on; an added
\* row's record is the reason it is there and nothing else
KeyRecord(r, was) ==
  IF r \notin resolution.seeds THEN [keys |-> NoKeys, why |-> TRUE, of |-> r]
  ELSE [selection[IF r \in DOMAIN selection THEN r ELSE was] EXCEPT !.of = r]

\* the file records its own policy: its ticks are a closure already
ExpandedPolicy_Same == policy
ExpandedPolicy == [policy EXCEPT !.relations = Minimal, !.transitive = FALSE]

\* _partial_request: a run takes the policy of its file, or what --relations says
\* instead, with a warning; the window passes its own relations with every run
TakesPolicy(recorded) ==
  \/ policy' = recorded /\ overruled' = FALSE
  \/ policy' \in Overruling /\ overruled' = TRUE

Origins(r) == {id \in DOMAIN selection : <<id, r>> \in resolution.moved}

Review ==
  /\ pc = "done" /\ reviewed = {} /\ included # {}
  /\ \E unticked \in {U \in SUBSET included : Cardinality(U) <= MaxUnticked} :
       /\ reviewed' = included \ unticked
       /\ pulled' = (included \ unticked) \ resolution.seeds
       /\ included \ unticked # {}
  \* of several ticked ids that landed on one row, the last one's record
  /\ \E was \in [{r \in reviewed' : Origins(r) # {}} -> DOMAIN selection] :
       /\ \A r \in DOMAIN was : was[r] \in Origins(r)
       /\ selection' = [r \in reviewed' |-> KeyRecord(r, IF r \in DOMAIN was THEN was[r] ELSE r)]
  /\ TakesPolicy(ExpandedPolicy)
  /\ pc' = "resolve"
  /\ resolution' = Unresolved
  /\ included' = {} /\ reasons' = {} /\ frontier' = {} /\ added' = {}
  /\ passes' = 0 /\ stopped' = FALSE
  /\ UNCHANGED produced

Over ==
  /\ pc \in {"done", "refused"}
  /\ UNCHANGED vars

Build == Resolve \/ ResolveRaises \/ Pass \/ FrontierEmpty \/ Contain \/ NextFrontier
Next == Build \/ Review \/ Over
Spec == Init /\ [][Next]_vars /\ WF_vars(Build)

-----------------------------------------------------------------------------
(* Properties                                                              *)

Reasons == {"selected", "holds"} \cup Everything

TypeOK ==
  /\ pc \in {"resolve", "pass", "contain", "decide", "last", "done", "refused"}
  /\ DOMAIN selection \subseteq Ids
  /\ policy \in [relations : SUBSET Everything, transitive : BOOLEAN,
                 unresolved : {"refuse", "drop"}]
  /\ produced \subseteq KINDS
  /\ resolution.seeds \subseteq Rows /\ resolution.carried \subseteq Rows
  /\ included \subseteq Rows
  /\ reasons \subseteq Ids \X [by : Reasons, from : Ids]
  /\ frontier \subseteq Rows /\ added \subseteq Rows
  /\ passes \in 0 .. MaxPasses + 1
  /\ stopped \in BOOLEAN /\ overruled \in BOOLEAN
  /\ reviewed \subseteq Rows /\ pulled \subseteq reviewed

Ticked(id) == {selection[id].of} \ {NoRow}
SameGroup(r, s) == {r, s} \subseteq DOMAIN Group /\ Group[r] = Group[s]

\* The identifiers recorded with a tick are what they are taken for: a row id that is no
\* position stays with its row, an identifier of one row names the row it was recorded of,
\* and one that rows of a group share names that row among the whole group.
IdentifiersTrue ==
  \A S \in Selections : \A id \in DOMAIN S :
    /\ id \in Rows \ Positional => S[id].of = id
    /\ \A name \in DOMAIN S[id].keys : \A n \in DOMAIN S[id].keys[name] :
         LET hits == Identified(id, S[id].keys[name][n])
         IN  /\ Cardinality(hits) = 1 => S[id].of \in hits
             /\ Cardinality(hits) > 1 /\ OneGroup(hits) =>
                  /\ S[id].of \in hits
                  /\ \A r \in hits : {s \in DOMAIN Group : Group[s] = Group[r]} \subseteq hits

(* A ticked id becomes the row it was ticked as, or that row's whole group *)
(* -- never another row: not the message that has moved into a shifted     *)
(* position, and not one of several rows an identifier names.  A build     *)
(* that goes ahead has a row for every ticked id, or was told to drop the  *)
(* ids without one and has listed them (_resolve_one, resolve).  Of the    *)
(* second build it is said only when no kept row is a positional message.  *)
TicksResolved ==
  reviewed \cap Positional = {} /\ pc \notin {"resolve", "refused"} =>
    /\ \A r \in resolution.seeds : \E id \in DOMAIN selection :
         \/ r \in Ticked(id)
         \/ \E t \in Ticked(id) : /\ SameGroup(r, t)
                                  /\ {s \in DOMAIN Group : Group[s] = Group[r]}
                                       \subseteq resolution.seeds
    /\ \A id \in DOMAIN selection :
         \/ id \in resolution.unresolved /\ policy.unresolved = "drop"
         \/ \E r \in resolution.seeds : r = id \/ <<id, r>> \in resolution.moved

\* the hops the policy allows, read off the recorded edges in both directions
Hops ==
  UNION { {<<l.src, l.dst>> : rel \in {q \in RELATIONS :
              /\ q.key \in policy.relations /\ q.edge \in {l.edge, "any"}
              /\ q.src = Kind[l.src] /\ q.dst \in {Kind[l.dst], "any"}}}
          \cup {<<l.dst, l.src>> : rel \in {q \in RELATIONS :
              /\ q.key \in policy.relations /\ q.edge \in {l.edge, "any"}
              /\ q.src = Kind[l.dst] /\ q.dst \in {Kind[l.src], "any"}}} :
          l \in {k \in Links : Kind[k.src] \in produced} }
HopFrom(hops, rows) ==
  {h[2] : h \in {g \in hops : g[1] \in rows /\ g[2] \in Rows /\ Kind[g[2]] \in produced}}
Held(rows) == rows \cup {c \in Rows : \E r \in rows : r \in DOMAIN Parent /\ c = Parent[r]}

\* what F makes of start, applied as often as there are rows
Iterated(F, start) ==
  LET grown[n \in 0 .. Cardinality(Rows)] ==
        IF n = 0 THEN start ELSE F[grown[n - 1]]
  IN  grown[Cardinality(Rows)]

\* the least set with the seeds that is closed under hops and containment
LeastClosed ==
  LET hops == Hops
  IN  Iterated([S \in SUBSET Rows |-> Held(S) \cup HopFrom(hops, S)], resolution.seeds)

(* Without the transitive switch the extract is the ticked rows, one hop   *)
(* from them and what those are shown in: nothing is followed from a row   *)
(* that was pulled in.  With it, nothing is disclosed that the enabled     *)
(* relations do not lead to from a ticked row, whatever passes are made    *)
(* (expand).                                                               *)
DisclosesAsAsked ==
  pc = "done" =>
    /\ ~ policy.transitive =>
         included = Held(resolution.seeds \cup HopFrom(Hops, resolution.seeds))
    /\ included \subseteq LeastClosed

(* Under the transitive switch, when the pass limit has not stopped it,    *)
(* everything an included row reaches is included, but for rows that were  *)
(* brought in only as what a message is shown in.                          *)
TransitiveFollows ==
  pc = "done" /\ policy.transitive /\ ~ stopped =>
    LET hops == Hops IN \A r \in included :
      \/ HopFrom(hops, {r}) \subseteq included
      \/ \E p \in reasons : p[1] = r /\ p[2].by = "holds"

Caused(rows) == {p[1] : p \in {q \in reasons : q[2].from \in rows}}

(* The recorded reasons lead from every included row back to a ticked one: *)
(* no row's only reasons are rows it brought in itself.                    *)
EveryRowExplained ==
  pc \in {"decide", "done"} =>
    included \subseteq Iterated([S \in SUBSET Rows |-> S \cup Caused(S)], resolution.seeds)

\* the rows a reader is told the examiner chose (Closure.chosen)
Chosen == resolution.seeds \ resolution.carried

(* What was reviewed is what is built: the second build, from the rows     *)
(* kept at the review, is not refused, holds them and the conversations    *)
(* they are shown in, presents no row a relation had added as the          *)
(* examiner's choice, and holds nothing else unless relations were given   *)
(* to that build too, as the window does, and these are followed again,    *)
(* whatever the guide says (guide_partial_reports.md:85) -- as long as no kept row is a positional message     *)
(* (expanded_selection, _partial_request).                                 *)
ReviewedStable ==
  reviewed # {} /\ reviewed \cap Positional = {} =>
    /\ pc # "refused"
    /\ pc = "done" => /\ Held(reviewed) \subseteq included
                      /\ overruled \/ included = Held(reviewed)
    /\ Chosen \cap pulled = {}

(* Resolution and the closure come to an end, cycles in the evidence or    *)
(* not.                                                                    *)
BuildEnds == (pc = "resolve") ~> (pc \in {"done", "refused"})

(* An expanded selection is safe to build from (partial_report.py:1526):   *)
(* a row kept at the review is in the build, or is listed as dropped.      *)
ReviewedIsBuilt ==
  reviewed # {} /\ pc = "done" => reviewed \subseteq included \cup resolution.unresolved

=============================================================================
