-------------------------- MODULE MCPartialClosure --------------------------
(* A case for PartialClosure: two conversations, a group of two Memories    *)
(* and a third, five cache entries and a Library/Caches file, linked in     *)
(* both directions and in a cycle.  Message A1 has an id of its own, A2 and *)
(* A3 only their position, and an earlier build that lacked the first       *)
(* positional message called them A1x and A2.                               *)
EXTENDS PartialClosure

OfKind(kind, ids) == {<<i, kind>> : i \in ids}
MCKinds ==
  OfKind("conv", {"A", "B"}) \cup OfKind("msg", {"A1", "A2", "A3", "B1", "A1x"})
  \cup OfKind("ct", {"u1", "u2"}) \cup OfKind("mem", {"m1", "m2", "m3", "m9"})
  \cup OfKind("cc", {"k1", "k2", "k3", "k4"}) \cup OfKind("cm", {"f1", "f9"})
MCIds == {p[1] : p \in MCKinds}
MCKind == [i \in MCIds |-> (CHOOSE p \in MCKinds : p[1] = i)[2]]
MCRows == MCIds \ {"A1x", "m9", "f9"}
MCPositional == {"A2", "A3", "A1x"}

Link(edge, src, dst) == [edge |-> edge, src |-> src, dst |-> dst]
MCLinks ==
  { Link("conv_message", "A", "A1"), Link("conv_message", "A", "A2"),
    Link("conv_message", "A", "A3"), Link("conv_message", "B", "B1"),
    Link("conv_participant", "A", "u1"), Link("conv_participant", "B", "u1"),
    Link("conv_participant", "B", "u2"), Link("message_sender", "B1", "u2"),
    Link("memory_group", "m1", "m2"), Link("memory_cache", "m1", "k1"),
    Link("memory_cache", "k2", "m2"), Link("message_cache", "k2", "B1"),
    Link("message_cache", "A2", "k3"), Link("conv_cache", "k4", "B"),
    Link("memory_filter_asset", "k1", "m3"), Link("cache_cachemedia", "f1", "k1"),
    Link("memory_cachemedia", "f1", "m3") }

MCParent == [i \in {"A1", "A2", "A3", "B1"} |-> IF i = "B1" THEN "B" ELSE "A"]
MCGroup == [i \in {"m1", "m2", "m3"} |-> IF i = "m3" THEN "g2" ELSE "g1"]

MCHits ==
  [ v \in {"s1", "g1media", "both", "t2", "t3", "kB1", "raw1"} |->
      CASE v = "s1" -> {"m1"} [] v = "g1media" -> {"m1", "m2"}
        [] v = "both" -> {"m1", "m3"} [] v = "t2" -> {"A2"}
        [] v = "t3" -> {"A3"} [] v = "kB1" -> {"B1"} [] OTHER -> {"f1"} ]

Tick(keys, of) == [keys |-> keys, why |-> FALSE, of |-> of]
Kept(keys, of) == [keys |-> keys, why |-> TRUE, of |-> of]
MCTicks ==
  { <<"A", Tick(NoKeys, "A")>>, <<"A1", Tick(NoKeys, "A1")>>,
    <<"A1x", Tick([ts_sender |-> <<"t2">>], "A2")>>,
    <<"A2", Tick([ts_sender |-> <<"t3">>], "A3")>>,
    <<"B1", Tick([smid |-> <<"kB1">>], "B1")>>,
    <<"m1", Tick([mediaid |-> <<"g1media">>], "m1")>>,
    <<"m9", Tick([mediaid |-> <<"g1media">>, cachekeys |-> <<"both">>], "m1")>>,
    <<"f9", Kept([raw |-> <<"gone", "raw1">>], "f1")>>, <<"f1", Tick(NoKeys, "f1")>>,
    <<"k2", Kept(NoKeys, "k2")>>, <<"k3", Tick(NoKeys, "k3")>>,
    <<"k4", Tick(NoKeys, "k4")>>, <<"u1", Tick(NoKeys, "u1")>> }

ToSelection(ticks) ==
  [id \in {t[1] : t \in ticks} |-> (CHOOSE t \in ticks : t[1] = id)[2]]
UpToTwo(S) == {{t, u} : t, u \in S}
Doubtful == {<<"m9", Tick([cachekeys |-> <<"both">>], "m1")>>,
             <<"A3", Tick(NoKeys, NoRow)>>}

MCSelections ==
  {ToSelection(ticks) : ticks \in UpToTwo(MCTicks)}
  \cup {ToSelection({t, d}) : t \in MCTicks, d \in Doubtful}

Policy(relations, transitive, unresolved) ==
  [relations |-> relations, transitive |-> transitive, unresolved |-> unresolved]
HandMixed == {"conv_messages", "msg_cache", "participants", "contact_conversations", "cache_message"}
MCPolicies ==
  { Policy(Minimal, TRUE, "drop"), Policy(Recommended, FALSE, "refuse"),
    Policy(Recommended, TRUE, "drop"), Policy(Everything, TRUE, "refuse"),
    Policy(HandMixed, FALSE, "drop"), Policy(HandMixed, TRUE, "refuse") }
MCOverruling ==
  {Policy(HandMixed, FALSE, "drop"), Policy(Everything, TRUE, "refuse")}
MCProductions == {KINDS, KINDS \ {"ct"}, KINDS \ {"conv", "msg"}}

\* the ticks of the case are of the rows their identifiers name
ASSUME TicksAssumption == IdentifiersTrue
=============================================================================
