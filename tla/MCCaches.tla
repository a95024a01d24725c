------------------------------ MODULE MCCaches ------------------------------
(* Instances of the two caches for TLC, one beside the other: either the     *)
(* federated cache moves, with a writer and a reader, or the cache of one    *)
(* project, with two writers at once and a reader, or with one writer and    *)
(* all that may befall it.                                                   *)
EXTENDS FederatedProjection, TLC

CONSTANTS a, b, c, w1, r1, Missing, Manifest, NoGen, BadPointer,
          k1, k2, x1, x2, y1

TwoSources == {1, 2}
\* Registrations that differ in membership only.
TwoManifests == {<<"private", "private">>, <<"private", Absent>>}
\* Sound: no property is about a particular valid content or configuration.
Symmetry == Permutations(Contents \ Unfit) \cup Permutations({k1, k2})

VARIABLES scene, document, config, dir, order, current, indexer, query, left

project == <<document, config, dir, order, current, indexer, query, left>>

P == INSTANCE Projection WITH
       Docs <- {1}, Contents <- {a}, Faulty <- {}, Configs <- {k1},
       Writers <- {x1, x2}, Readers <- {y1}, Kinds <- {"live", "targeted"}, Keep <- 1,
       MaxEdits <- 1, MaxConfigs <- 0, MaxCrashes <- 1, MaxFaults <- 0, MaxDamage <- 0, MaxEvents <- 1,
       source <- document, recent <- order, pointer <- current,
       writer <- indexer, reader <- query

R == INSTANCE Projection WITH
       Docs <- {1}, Contents <- {a, b}, Faulty <- {}, Configs <- {k1, k2},
       Writers <- {x1}, Readers <- {y1},
       Kinds <- {"live", "targeted", "since", "pinned"}, Keep <- 1,
       MaxEdits <- 1, MaxConfigs <- 1, MaxCrashes <- 1, MaxFaults <- 0, MaxDamage <- 1, MaxEvents <- 3,
       source <- document, recent <- order, pointer <- current,
       writer <- indexer, reader <- query

\* The project's cache stands in an initial state while the federation moves,
\* and the federated one is not there while the project's cache does.
CachesInit ==
  /\ scene \in {"federation", "writers", "reads"}
  /\ IF scene = "reads" THEN R!Init ELSE P!Init
  /\ scene = "federation" => Init /\ document = [d \in {1} |-> Missing]
  /\ scene # "federation" =>
       /\ source = Absent /\ manifest = Absent /\ objects = Absent /\ recent = Absent
       /\ torn = Absent /\ pointer = Nothing /\ damaged = FALSE /\ budget = Absent
       /\ writer = [w \in Writers |-> WriterIdle]
       /\ reader = [r \in Readers |-> ReaderIdle]

Federate == scene = "federation" /\ Next /\ UNCHANGED <<scene, project>>
Race == scene = "writers" /\ P!Next /\ UNCHANGED <<scene, vars>>
Read == scene = "reads" /\ R!Next /\ UNCHANGED <<scene, vars>>
CachesNext == Federate \/ Race \/ Read

CachesSpec == CachesInit /\ [][CachesNext]_<<scene, vars, project>>

\* A read serves what stood in the documents while it verified them, with two
\* writers at once, and whatever happens to the cache (projection.py).
ServedIsTrue ==
  /\ scene = "writers" => P!ServedIsTrue
  /\ scene = "reads" => R!ServedIsTrue

\* A write that reaches its final check has repaired the cache
\* (projection.write_projection).
WriteYieldsCurrent == scene = "reads" => R!WriteYieldsCurrent

=============================================================================
