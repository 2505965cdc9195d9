-------------------------- MODULE MCFieldHistory --------------------------
EXTENDS FieldHistory

RecordsOfRegions == [time : {0, 2, 3}, regions : (SUBSET FdRegions) \ {{}}, varies : {FALSE}]
           \cup {[time |-> 2, regions |-> {"rock"}, varies |-> TRUE]}

Ascending(list) == \A i, j \in DOMAIN list : i < j => list[i].time <= list[j].time

\* Two records of one time have no region in common.
OncePerTime(list) == \A i, j \in DOMAIN list :
  i # j /\ list[i].time = list[j].time => list[i].regions \cap list[j].regions = {}

AllLists == {list \in UNION {[1 .. n -> RecordsOfRegions] : n \in 0 .. 3} : Ascending(list)}

\* Of two lists that differ by the names of regions, the one in which the rock comes first
RockFirst(list) ==
  LET single == {i \in DOMAIN list : Cardinality(list[i].regions) = 1}
  IN  \/ single = {}
      \/ \E i \in DOMAIN list : list[i].varies
      \/ \E i \in single : list[i].regions = {"rock"} /\ \A j \in single : i <= j

SimpleLists == {list \in AllLists : OncePerTime(list) /\ RockFirst(list)}

\* All regions and, from the same time on, one of them with a value of its own.
OverriddenLists ==
  {<<[time |-> 0, regions |-> FdRegions, varies |-> FALSE],
     [time |-> t, regions |-> FdRegions, varies |-> FALSE],
     [time |-> t, regions |-> {"rock"}, varies |-> FALSE]>> : t \in {0, 2}}
===========================================================================
