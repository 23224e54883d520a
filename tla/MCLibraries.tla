---------------------------- MODULE MCLibraries ----------------------------
(***************************************************************************)
(* The libraries that share no state, in one run: the run takes one of     *)
(* them and leaves the others where they start.                            *)
(***************************************************************************)
EXTENDS Pool, Digests, HashTable, RbTree, Intervals, Records, Timers, Logging, Uuid, ZkMulti

CONSTANTS u1, u2

VARIABLE active    \* the library that takes the steps of this behaviour

libraryVars == <<poolVars, digestVars, tableVars, treeVars, intervalVars, recordVars>>
moduleVars == <<timerVars, logVars, uuidVars, multiVars>>
vars == <<active, libraryVars, moduleVars>>

\* Keys 2 and 5 share a bucket of a table of three, 5 hashes to 0.
SmallHash   == [k \in Keys |-> IF k = 5 THEN 0 ELSE k]
SmallPrimes == <<2, 3, 5>>

\* Every position around the padding of blocks of 16, 32, 64 and 128 bytes, and
\* lengths at which the count words carry.
Boundaries == {0, 1, 3, 15, 16, 17, 31, 32, 33, 54, 55, 56, 57, 59, 60, 61, 63, 64, 65, 96,
               110, 111, 112, 113, 117, 118, 119, 120, 127, 128, 129, 200, 255, 256, 300}

Field(type, value) == [type |-> type, value |-> value]

SmallFields ==
  {Field("int", <<-1>>), Field("int", <<70000>>), Field("long", <<-5>>), Field("bool", <<1>>),
   Field("buffer", Null), Field("buffer", <<>>), Field("buffer", [i \in 1..9 |-> i]),
   Field("string", Null), Field("string", <<65, 66>>)}

Root == <<"/", "c">>

\* Every way a path is refused, the paths a chroot or ZOO_SEQUENCE makes valid, and
\* one that repeats the chroot.
SmallPaths ==
  {<<>>, <<"/">>, <<"a">>, <<"/", "a">>, <<"/", "a", "/">>, <<"/", ".", ".">>, <<"/", "/", "a">>,
   <<"/", "a", ".">>, <<"/", ".", "/", "a">>, <<"/", "c", "/", Control>>, <<"/", "c", "/", "c">>}

\* Where a library starts in more than one way, the choice is made only if it runs.
Init ==
  /\ active \in {"pool", "digests", "table", "tree", "intervals", "records", "timers", "log",
                 "uuid", "multi"}
  /\ PoolInit /\ DigestsInit /\ TableInit /\ TreeInit /\ IntervalsInit /\ RecordsInit
  /\ TimersInit /\ LogInit /\ UuidInit /\ MultiInit
  /\ active # "pool" => /\ user = "object_pool" /\ start_size = Min(StartSizes)
                        /\ max_size = Min(MaxSizes)
  /\ active # "digests" => alg = "CRC" /\ size_hash_buffer = Min(ReadSizes)
  /\ active # "timers" => timer = "period"
  /\ active # "log" => level = Min(Levels)
  /\ active # "uuid" => time = Min(Clock)
  /\ active # "multi" => chroot = <<>> /\ sync

LibraryNext ==
  \/ /\ active = "pool" /\ PoolNext
     /\ UNCHANGED <<digestVars, tableVars, treeVars, intervalVars, recordVars>>
  \/ /\ active = "digests" /\ DigestsNext
     /\ UNCHANGED <<poolVars, tableVars, treeVars, intervalVars, recordVars>>
  \/ /\ active = "table" /\ TableNext
     /\ UNCHANGED <<poolVars, digestVars, treeVars, intervalVars, recordVars>>
  \/ /\ active = "tree" /\ TreeNext
     /\ UNCHANGED <<poolVars, digestVars, tableVars, intervalVars, recordVars>>
  \/ /\ active = "intervals" /\ IntervalsNext
     /\ UNCHANGED <<poolVars, digestVars, tableVars, treeVars, recordVars>>
  \/ /\ active = "records" /\ RecordsNext
     /\ UNCHANGED <<poolVars, digestVars, tableVars, treeVars, intervalVars>>

ModuleNext ==
  \/ active = "timers" /\ TimersNext /\ UNCHANGED <<logVars, uuidVars, multiVars>>
  \/ active = "log" /\ LogNext /\ UNCHANGED <<timerVars, uuidVars, multiVars>>
  \/ active = "uuid" /\ UuidNext /\ UNCHANGED <<timerVars, logVars, multiVars>>
  \/ active = "multi" /\ MultiNext /\ UNCHANGED <<timerVars, logVars, uuidVars>>

Next ==
  /\ UNCHANGED active
  /\ \/ LibraryNext /\ UNCHANGED moduleVars
     \/ ModuleNext /\ UNCHANGED libraryVars

Spec == Init /\ [][Next]_vars
=============================================================================
