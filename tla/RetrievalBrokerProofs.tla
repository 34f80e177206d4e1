----------------------- MODULE RetrievalBrokerProofs -----------------------
(***************************************************************************)
(* What holds of RetrievalBroker for all repositories, requests, numbers   *)
(* of changes and restarts, and faults, proved with TLAPS.                 *)
(***************************************************************************)
EXTENDS RetrievalBroker, TLAPS

\* The definitions that only name things.
USE DEF files, process, calls

\* The states that an index of a repository can have.
LEMMA ContentsAre ==
  /\ Absent \in Contents /\ Partial \in Contents
  /\ \A v \in 0..MaxVersion : IndexOf(v) \in Contents
  /\ \A q \in Requests : Changing(q) \in Contents
  /\ NoAnswer \in [from : Repos \cup {None}, content : Contents]
  BY BrokerAssumption DEF Absent, Partial, Changing, IndexOf, Contents, NoAnswer

\* Past the load of its modules a request finds them bound to a repository, and
\* so does whoever finds an entry in the cache.
ModulesAreBound ==
  /\ \A r \in Repos : cache[r] # "none" => bound # None
  /\ \A q \in Requests :
       phase[q] \in {"update", "indexing", "query", "embed"} => bound # None

BrokerInv == TypeOK /\ OneUpdateAtATime /\ ModulesAreBound

LEMMA BrokerInit == Init => BrokerInv
  <1> SUFFICES ASSUME Init PROVE BrokerInv
    OBVIOUS
  <1>1. TypeOK
    BY ContentsAre, BrokerAssumption DEF Init, TypeOK, EmptyCache, Phases
  <1>2. OneUpdateAtATime /\ ModulesAreBound
    BY BrokerAssumption DEF Init, OneUpdateAtATime, ModulesAreBound, InTheLock, EmptyCache
  <1>3. QED
    BY <1>1, <1>2 DEF BrokerInv

\* A request turns to its load with the lock free.
LEMMA AfterLoadStep ==
  ASSUME BrokerInv, NEW q \in Requests, NEW b \in BOOLEAN, phase[q] = "waiting",
         lock = None, AfterLoad(q, b), bound' \in Repos
  PROVE  /\ phase' \in [Requests -> Phases]
         /\ lock' \in Requests \cup {None}
         /\ \A p \in Requests : phase'[p] \in InTheLock <=> lock' = p
  <1> USE BrokerAssumption
  <1>1. /\ phase \in [Requests -> Phases]
        /\ \A p \in Requests : phase[p] \notin InTheLock
    BY DEF BrokerInv, TypeOK, OneUpdateAtATime
  <1>2. CASE Refresh[q] /\ b
    <2>1. phase' = [phase EXCEPT ![q] = "update"] /\ lock' = q
      BY <1>2 DEF AfterLoad, KeepLock, Goto
    <2>2. QED
      BY <1>1, <2>1 DEF InTheLock, Phases
  <1>3. CASE ~(Refresh[q] /\ b)
    <2>1. phase' = [phase EXCEPT ![q] = "query"] /\ lock' = None
      BY <1>3 DEF AfterLoad, Goto
    <2>2. QED
      BY <1>1, <2>1 DEF InTheLock, Phases
  <1>4. QED
    BY <1>2, <1>3

\* The steps of search_code up to the lock's release.
LEMMA BrokerLoads ==
  ASSUME BrokerInv, NEW q \in Requests,
         EnterCached(q) \/ EnterLoading(q) \/ LoadFails(q)
  PROVE  BrokerInv'
  <1> USE BrokerAssumption DEF BrokerInv
  <1>1. CASE EnterCached(q)
    <2>1. bound' \in Repos
      BY <1>1 DEF EnterCached, TypeOK, ModulesAreBound
    <2>2. /\ phase' \in [Requests -> Phases]
          /\ lock' \in Requests \cup {None}
          /\ \A p \in Requests : phase'[p] \in InTheLock <=> lock' = p
      BY <1>1, <2>1, AfterLoadStep DEF EnterCached
    <2>3. TypeOK'
      BY <1>1, <2>2 DEF EnterCached, TypeOK
    <2>4. ModulesAreBound'
      BY <1>1, <2>1 DEF EnterCached, ModulesAreBound
    <2>5. QED
      BY <2>2, <2>3, <2>4 DEF OneUpdateAtATime
  <1>2. CASE EnterLoading(q)
    <2>1. bound' \in Repos /\ configured' \in Repos
      BY <1>2 DEF EnterLoading, Reload, TypeOK
    <2>2. /\ phase' \in [Requests -> Phases]
          /\ lock' \in Requests \cup {None}
          /\ \A p \in Requests : phase'[p] \in InTheLock <=> lock' = p
      <3>1. AfterLoad(q, index[Repo[q]] = Absent)
        BY <1>2 DEF EnterLoading
      <3>2. (index[Repo[q]] = Absent) \in BOOLEAN
        OBVIOUS
      <3>3. phase[q] = "waiting" /\ lock = None
        BY <1>2 DEF EnterLoading, MayLoad
      <3>4. QED
        BY <2>1, <3>1, <3>2, <3>3, AfterLoadStep
    <2>3. cache' \in [Repos -> {"none", "plain", "indexer"}]
      BY <1>2 DEF EnterLoading, TypeOK
    <2>4. TypeOK'
      BY <1>2, <2>1, <2>2, <2>3 DEF EnterLoading, TypeOK
    <2>5. ModulesAreBound'
      BY <2>1 DEF ModulesAreBound
    <2>6. QED
      BY <2>2, <2>4, <2>5 DEF OneUpdateAtATime
  <1>3. CASE LoadFails(q)
    <2>1. bound' \in Repos /\ configured' \in Repos
      BY <1>3 DEF LoadFails, Reload, TypeOK
    <2>2. phase' = [phase EXCEPT ![q] = "failed"] /\ lock' = lock /\ lock = None
      BY <1>3 DEF LoadFails, Goto, MayLoad
    <2>3. TypeOK'
      BY <1>3, <2>1, <2>2 DEF LoadFails, TypeOK, Phases
    <2>4. OneUpdateAtATime'
      BY <2>2 DEF OneUpdateAtATime, TypeOK, InTheLock
    <2>5. QED
      BY <2>1, <2>3, <2>4 DEF ModulesAreBound
  <1>4. QED
    BY <1>1, <1>2, <1>3

\* The environment opens its database.
LEMMA OpenType ==
  ASSUME TypeOK, OpenEnvironment
  PROVE  index' \in [Repos -> Contents]
  BY ContentsAre DEF TypeOK, OpenEnvironment

\* The update and the query, and the time-out of either.
LEMMA BrokerRuns ==
  ASSUME BrokerInv, NEW q \in Requests,
         \/ StartUpdate(q) \/ FinishUpdate(q) \/ Timeout(q)
         \/ QueryFindsDatabase(q) \/ QueryFindsNone(q) \/ ReadRows(q)
  PROVE  BrokerInv'
  <1> USE BrokerAssumption DEF BrokerInv
  <1>1. CASE StartUpdate(q)
    <2>1. bound \in Repos
      BY <1>1 DEF StartUpdate, TypeOK, ModulesAreBound
    <2>2. index' \in [Repos -> Contents]
      BY <1>1, ContentsAre DEF StartUpdate, TypeOK
    <2>3. phase[q] = "update" /\ phase' = [phase EXCEPT ![q] = "indexing"]
      BY <1>1 DEF StartUpdate, Goto
    <2>4. TypeOK'
      BY <1>1, <2>1, <2>2, <2>3 DEF StartUpdate, TypeOK, Phases
    <2>5. OneUpdateAtATime'
      BY <1>1, <2>3 DEF StartUpdate, OneUpdateAtATime, TypeOK, InTheLock
    <2>6. ModulesAreBound'
      BY <1>1, <2>1 DEF StartUpdate, ModulesAreBound
    <2>7. QED
      BY <2>4, <2>5, <2>6
  <1>2. CASE FinishUpdate(q)
    <2>1. bound # None /\ lock = q /\ lock' = None
      BY <1>2 DEF FinishUpdate, Release, ModulesAreBound, OneUpdateAtATime, InTheLock
    <2>2. phase' = [phase EXCEPT ![q] = "query"]
      BY <1>2 DEF FinishUpdate, Goto
    <2>3. index' \in [Repos -> Contents]
      BY <1>2, ContentsAre DEF FinishUpdate, TypeOK
    <2>4. TypeOK'
      BY <1>2, <2>1, <2>2, <2>3 DEF FinishUpdate, TypeOK, Phases
    <2>5. OneUpdateAtATime'
      BY <2>1, <2>2 DEF OneUpdateAtATime, TypeOK, InTheLock
    <2>6. ModulesAreBound'
      BY <1>2, <2>1 DEF FinishUpdate, ModulesAreBound
    <2>7. QED
      BY <2>4, <2>5, <2>6
  <1>3. CASE Timeout(q)
    <2>1. phase' = [phase EXCEPT ![q] = "failed"]
          /\ lock' = IF lock = q THEN None ELSE lock
      BY <1>3 DEF Timeout, AfterTimeout, Goto, Release
    <2>2. bound # None
      BY <1>3 DEF Timeout, ModulesAreBound
    <2>3. TypeOK'
      BY <1>3, <2>1 DEF Timeout, TypeOK, Phases
    <2>4. OneUpdateAtATime'
      BY <2>1 DEF OneUpdateAtATime, TypeOK, InTheLock
    <2>5. ModulesAreBound'
      BY <1>3, <2>2 DEF Timeout, ModulesAreBound
    <2>6. QED
      BY <2>3, <2>4, <2>5
  <1>4. CASE QueryFindsDatabase(q) \/ QueryFindsNone(q) \/ ReadRows(q)
    <2>1. bound \in Repos
      BY <1>4 DEF QueryFindsDatabase, QueryFindsNone, ReadRows, TypeOK, ModulesAreBound
    <2>2. index' \in [Repos -> Contents]
      BY <1>4, OpenType DEF QueryFindsDatabase, QueryFindsNone, ReadRows, TypeOK
    <2>3. answer' \in [Requests -> [from : Repos \cup {None}, content : Contents]]
      BY <1>4, <2>1 DEF QueryFindsDatabase, QueryFindsNone, ReadRows, TypeOK
    <2>4. /\ phase[q] \in {"query", "embed"}
          /\ \E to \in {"embed", "failed", "answered"} : phase' = [phase EXCEPT ![q] = to]
      BY <1>4 DEF QueryFindsDatabase, QueryFindsNone, ReadRows, Goto
    <2>5. UNCHANGED <<version, lock, cache, configured, bound, walked, arrived, restarts>>
      BY <1>4 DEF QueryFindsDatabase, QueryFindsNone, ReadRows
    <2>6. TypeOK'
      BY <2>2, <2>3, <2>4, <2>5 DEF TypeOK, Phases
    <2>7. OneUpdateAtATime'
      BY <2>4, <2>5 DEF OneUpdateAtATime, TypeOK, InTheLock
    <2>8. ModulesAreBound'
      BY <2>1, <2>5 DEF ModulesAreBound
    <2>9. QED
      BY <2>6, <2>7, <2>8
  <1>5. QED
    BY <1>1, <1>2, <1>3, <1>4

\* What happens to the broker from outside.
LEMMA BrokerOther ==
  ASSUME BrokerInv,
         \/ \E r \in Repos : EditRepo(r)
         \/ \E q \in Requests : Arrive(q)
         \/ Restart
  PROVE  BrokerInv'
  <1> USE BrokerAssumption DEF BrokerInv
  <1>1. ASSUME NEW r \in Repos, EditRepo(r)
        PROVE  BrokerInv'
    <2>1. version' \in [Repos -> 0..MaxVersion]
      BY <1>1 DEF EditRepo, TypeOK
    <2>2. QED
      BY <1>1, <2>1 DEF EditRepo, TypeOK, OneUpdateAtATime, ModulesAreBound
  <1>2. ASSUME NEW q \in Requests, Arrive(q)
        PROVE  BrokerInv'
    <2>1. phase[q] = "new" /\ phase' = [phase EXCEPT ![q] = "waiting"]
      BY <1>2 DEF Arrive, Goto
    <2>2. arrived' \in [Requests -> 0..MaxVersion]
      BY <1>2 DEF Arrive, TypeOK
    <2>3. TypeOK'
      BY <1>2, <2>1, <2>2 DEF Arrive, TypeOK, Phases
    <2>4. OneUpdateAtATime' /\ ModulesAreBound'
      BY <1>2, <2>1 DEF Arrive, TypeOK, OneUpdateAtATime, ModulesAreBound, InTheLock
    <2>5. QED
      BY <2>3, <2>4
  <1>3. CASE Restart
    <2>1. /\ phase' \in [Requests -> Phases]
          /\ \A q \in Requests : phase'[q] \in Ended \cup {"new"}
      BY <1>3 DEF Restart, TypeOK, Phases, Ended
    <2>2. restarts' \in 0..MaxRestarts
      BY <1>3 DEF Restart, TypeOK
    <2>3. cache' = [r \in Repos |-> "none"] /\ lock' = None
      BY <1>3 DEF Restart, EmptyCache
    <2>4. TypeOK'
      BY <1>3, <2>1, <2>2, <2>3 DEF Restart, TypeOK
    <2>5. OneUpdateAtATime' /\ ModulesAreBound'
      BY <2>1, <2>3 DEF OneUpdateAtATime, ModulesAreBound, InTheLock, Ended
    <2>6. QED
      BY <2>4, <2>5
  <1>4. QED
    BY <1>1, <1>2, <1>3

LEMMA BrokerStep == BrokerInv /\ [Next]_vars => BrokerInv'
  <1> SUFFICES ASSUME BrokerInv, [Next]_vars PROVE BrokerInv'
    OBVIOUS
  <1>1. CASE UNCHANGED vars
    BY <1>1 DEF BrokerInv, TypeOK, OneUpdateAtATime, ModulesAreBound, vars
  <1>2. CASE Next
    BY <1>1, <1>2, BrokerLoads, BrokerRuns, BrokerOther DEF Next, Step, Terminating
  <1>3. QED
    BY <1>1, <1>2

\* Every variable keeps its type, for all repositories, requests and faults.
THEOREM TypeCorrect == Spec => []TypeOK
  <1>1. BrokerInv => TypeOK
    BY DEF BrokerInv
  <1>2. QED
    BY <1>1, BrokerInit, BrokerStep, PTL DEF Spec

\* The lock of search_code does what it is there for: between the load of its
\* modules and the end of its update a request is alone.
THEOREM TheLockKeepsUpdatesApart == Spec => []OneUpdateAtATime
  <1>1. BrokerInv => OneUpdateAtATime
    BY DEF BrokerInv
  <1>2. QED
    BY <1>1, BrokerInit, BrokerStep, PTL DEF Spec

\* And nobody reloads the modules under it.
THEOREM NobodyReloadsUnderAnUpdate == Spec => ReloadsOutsideUpdates
  <1>1. BrokerInv /\ [Next]_vars =>
          [configured' \notin {configured, None} =>
             \A q \in Requests : phase[q] \notin InTheLock]_vars
    <2> SUFFICES ASSUME BrokerInv, Next, configured' \notin {configured, None}
                 PROVE  \A q \in Requests : phase[q] \notin InTheLock
      OBVIOUS
    <2>1. PICK q \in Requests : EnterLoading(q) \/ LoadFails(q)
      BY DEF Next, Step, Terminating, EditRepo, Arrive, EnterCached, StartUpdate,
             FinishUpdate, Timeout, QueryFindsDatabase, QueryFindsNone, ReadRows,
             Restart, vars
    <2>2. lock = None
      BY <2>1 DEF EnterLoading, LoadFails, MayLoad
    <2>3. QED
      BY <2>2, BrokerAssumption DEF BrokerInv, OneUpdateAtATime
  <1>2. QED
    BY <1>1, BrokerInit, BrokerStep, PTL DEF Spec, ReloadsOutsideUpdates

(***************************************************************************)
(* A refresh is honoured.                                                  *)
(***************************************************************************)

\* Most steps answer nobody.
LEMMA AnswersElsewhere ==
  ASSUME BrokerInv, Next, ~Restart, \A q \in Requests : ~ReadRows(q)
  PROVE  \A q \in Requests : phase'[q] = "answered" => phase[q] = "answered"
  BY DEF BrokerInv, TypeOK, Next, Step, Terminating, EditRepo, Arrive, EnterCached,
         EnterLoading, LoadFails, Reload, AfterLoad, StartUpdate, FinishUpdate,
         Timeout, AfterTimeout, QueryFindsDatabase, QueryFindsNone, Goto, vars

\* No index and no request is newer than its repository.
NothingIsNewer ==
  /\ \A r \in Repos : index[r].version <= version[r]
  /\ \A q \in Requests : phase[q] # "new" => arrived[q] <= version[Repo[q]]

\* Past its load a request has an entry in the cache.
LoadedIsCached ==
  \A q \in Requests :
    phase[q] \in {"update", "indexing", "query", "embed"} => cache[Repo[q]] # "none"

\* The update under way has read something at least as new as every request for
\* this repository that has its load behind it, the one it runs for included.
UpdateIsNewer ==
  \A q \in Requests : phase[q] = "indexing" =>
    /\ walked <= version[bound]
    /\ \A p \in Requests :
         phase[p] \in {"indexing", "query", "embed"} /\ bound = Repo[p] =>
           arrived[p] <= walked

\* A request for a refresh that is past its update would be answered in full, or
\* from what another one's update is changing.
Fresh(q) ==
  \/ index[bound].built = "whole" /\ arrived[q] <= index[bound].version
  \/ index[bound].built = "changing" /\ index[bound].by # q

RefreshedIsFresh ==
  \A q \in Requests :
    /\ phase[q] \in {"query", "embed"} /\ Refresh[q]
    /\ cache[Repo[q]] = "indexer" /\ bound = Repo[q]
    => Fresh(q)

RefreshInv == NothingIsNewer /\ LoadedIsCached /\ UpdateIsNewer /\ RefreshedIsFresh

LEMMA RefreshInit == Init => RefreshInv
  <1> SUFFICES ASSUME Init PROVE RefreshInv
    OBVIOUS
  <1>1. \A r \in Repos : index[r].version = 0 /\ version[r] = 0
    BY DEF Init, IndexOf, Absent
  <1>2. QED
    BY <1>1, BrokerAssumption DEF Init, RefreshInv, NothingIsNewer, LoadedIsCached,
       UpdateIsNewer, RefreshedIsFresh

\* Versions are numbers, and compare.
LEMMA VersionsAreNumbers ==
  ASSUME TypeOK
  PROVE  /\ \A r \in Repos : index[r].version \in Nat /\ version[r] \in Nat
         /\ \A q \in Requests : arrived[q] \in Nat
         /\ walked \in Nat
  BY BrokerAssumption DEF TypeOK, Contents

\* Opening the environment changes no version, and no index that is there.
LEMMA OpenKeeps ==
  ASSUME TypeOK, OpenEnvironment
  PROVE  \A r \in Repos :
           /\ index'[r].version = index[r].version
           /\ index[r].built \in {"whole", "changing"} => index'[r] = index[r]
  BY DEF TypeOK, OpenEnvironment, Partial, Absent

\* A request turns to its load: it owes nobody an index yet.
LEMMA RefreshLoads ==
  ASSUME BrokerInv, RefreshInv, NEW q \in Requests,
         EnterCached(q) \/ EnterLoading(q) \/ LoadFails(q)
  PROVE  RefreshInv'
  <1> USE DEF BrokerInv, RefreshInv
  <1>1. /\ UNCHANGED <<index, version, arrived, walked>>
        /\ phase[q] = "waiting"
        /\ \A p \in Requests \ {q} : phase'[p] = phase[p]
        /\ phase'[q] \in {"update", "query", "failed"}
        /\ phase'[q] = "query" => ~(Refresh[q] /\ cache'[Repo[q]] = "indexer")
        /\ phase'[q] # "failed" => cache'[Repo[q]] # "none"
    <2>1. CASE EnterCached(q)
      BY <2>1, BrokerAssumption DEF EnterCached, AfterLoad, Goto, TypeOK
    <2>2. CASE EnterLoading(q)
      BY <2>2, BrokerAssumption DEF EnterLoading, AfterLoad, Goto, TypeOK, MayLoad
    <2>3. CASE LoadFails(q)
      BY <2>3 DEF LoadFails, Goto, TypeOK, MayLoad
    <2>4. QED
      BY <2>1, <2>2, <2>3
  <1>2. /\ bound # None => bound' = bound
        /\ \A r \in Repos : cache[r] # "none" => cache'[r] = cache[r]
    BY DEF EnterCached, EnterLoading, LoadFails, Reload, TypeOK
  <1>3. NothingIsNewer'
    BY <1>1 DEF NothingIsNewer
  <1>4. LoadedIsCached'
    BY <1>1, <1>2, BrokerAssumption DEF LoadedIsCached
  <1>5. UpdateIsNewer'
    <2>1. \A p \in Requests : phase[p] # "indexing"
      BY BrokerAssumption DEF EnterCached, EnterLoading, LoadFails, MayLoad,
         OneUpdateAtATime, InTheLock
    <2>2. QED
      BY <1>1, <2>1 DEF UpdateIsNewer
  <1>6. RefreshedIsFresh'
    BY <1>1, <1>2, BrokerAssumption DEF RefreshedIsFresh, ModulesAreBound, LoadedIsCached, Fresh
  <1>7. QED
    BY <1>3, <1>4, <1>5, <1>6

\* The update.
LEMMA RefreshUpdates ==
  ASSUME BrokerInv, RefreshInv, NEW q \in Requests, StartUpdate(q) \/ FinishUpdate(q)
  PROVE  RefreshInv'
  <1> USE DEF BrokerInv, RefreshInv
  <1>1. bound \in Repos /\ Repo[q] \in Repos
    BY BrokerAssumption DEF StartUpdate, FinishUpdate, TypeOK, ModulesAreBound
  <1>2. CASE StartUpdate(q)
    <2>1. /\ phase[q] = "update" /\ phase' = [phase EXCEPT ![q] = "indexing"]
          /\ walked' = version[bound]
          /\ UNCHANGED <<version, cache, bound, arrived>>
      BY <1>2 DEF StartUpdate, Goto
    <2>2. /\ \A r \in Repos \ {bound} : index'[r] = index[r]
          /\ index'[bound] \in {Partial, Changing(q)}
          /\ index[bound].built \in {"whole", "changing"} => index'[bound] = Changing(q)
      BY <1>1, <1>2 DEF StartUpdate, TypeOK, Absent, Partial
    <2>9. /\ index'[bound].version = 0 /\ version[bound] >= 0
          /\ index'[bound] = Changing(q) =>
               index'[bound].built = "changing" /\ index'[bound].by = q
      BY <1>1, <2>2, VersionsAreNumbers DEF Partial, Changing
    <2>3. \A p \in Requests : phase[p] # "indexing"
      BY <2>1 DEF OneUpdateAtATime, InTheLock
    <2>4. NothingIsNewer'
      BY <2>1, <2>2, <2>9 DEF NothingIsNewer, TypeOK
    <2>5. LoadedIsCached'
      BY <2>1 DEF LoadedIsCached, TypeOK
    <2>6. UpdateIsNewer'
      BY <1>1, <2>1, <2>3, VersionsAreNumbers DEF UpdateIsNewer, NothingIsNewer, TypeOK
    <2>7. RefreshedIsFresh'
      <3>1. ASSUME NEW p \in Requests, phase'[p] \in {"query", "embed"}, Refresh[p],
                   cache'[Repo[p]] = "indexer", bound' = Repo[p]
            PROVE  Fresh(p)'
        <4>1. p # q /\ phase[p] = phase'[p]
          BY <2>1, <3>1 DEF TypeOK
        <4>2. Fresh(p)
          BY <2>1, <3>1, <4>1 DEF RefreshedIsFresh
        <4>3. QED
          BY <2>1, <2>2, <2>9, <4>1, <4>2 DEF Fresh
      <3>2. QED
        BY <3>1 DEF RefreshedIsFresh
    <2>8. QED
      BY <2>4, <2>5, <2>6, <2>7
  <1>3. CASE FinishUpdate(q)
    <2>1. /\ phase[q] = "indexing" /\ phase' = [phase EXCEPT ![q] = "query"]
          /\ index' = [index EXCEPT ![bound] = IndexOf(walked)]
          /\ UNCHANGED <<version, cache, bound, arrived, walked>>
      BY <1>3 DEF FinishUpdate, Goto
    <2>2. /\ index'[bound].built = "whole" /\ index'[bound].version = walked
          /\ \A r \in Repos \ {bound} : index'[r] = index[r]
      BY <1>1, <2>1 DEF TypeOK, IndexOf
    <2>3. /\ walked <= version[bound]
          /\ \A p \in Requests :
               phase[p] \in {"indexing", "query", "embed"} /\ bound = Repo[p] =>
                 arrived[p] <= walked
      BY <2>1 DEF UpdateIsNewer
    <2>4. \A p \in Requests : phase'[p] # "indexing"
      BY <2>1 DEF OneUpdateAtATime, InTheLock, TypeOK
    <2>5. NothingIsNewer'
      BY <2>1, <2>2, <2>3 DEF NothingIsNewer, TypeOK
    <2>6. LoadedIsCached'
      BY <2>1 DEF LoadedIsCached, TypeOK
    <2>7. RefreshedIsFresh'
      BY <1>1, <2>1, <2>2, <2>3, VersionsAreNumbers DEF RefreshedIsFresh, Fresh, TypeOK
    <2>8. QED
      BY <2>4, <2>5, <2>6, <2>7 DEF UpdateIsNewer
  <1>4. QED
    BY <1>2, <1>3

\* All other steps.
LEMMA RefreshOther ==
  ASSUME BrokerInv, RefreshInv,
         \/ \E r \in Repos : EditRepo(r)
         \/ \E q \in Requests : \/ Arrive(q) \/ Timeout(q)
                                \/ QueryFindsDatabase(q) \/ QueryFindsNone(q) \/ ReadRows(q)
         \/ Restart
  PROVE  RefreshInv'
  <1> USE DEF BrokerInv, RefreshInv
  <1>1. ASSUME NEW r \in Repos, EditRepo(r)
        PROVE  RefreshInv'
    <2>1. /\ \A s \in Repos : version'[s] >= version[s] /\ version'[s] \in Nat
          /\ UNCHANGED <<index, process, calls>>
      BY <1>1, VersionsAreNumbers DEF EditRepo, TypeOK
    <2>2. NothingIsNewer'
      BY <2>1, VersionsAreNumbers, BrokerAssumption DEF NothingIsNewer
    <2>3. UpdateIsNewer'
      <3>1. \A q \in Requests : phase[q] = "indexing" => bound \in Repos
        BY DEF ModulesAreBound, TypeOK
      <3>2. QED
        BY <2>1, <3>1, VersionsAreNumbers DEF UpdateIsNewer
    <2>4. QED
      BY <2>1, <2>2, <2>3 DEF LoadedIsCached, RefreshedIsFresh, Fresh
  <1>2. ASSUME NEW q \in Requests, Arrive(q)
        PROVE  RefreshInv'
    <2>1. /\ phase[q] = "new" /\ phase' = [phase EXCEPT ![q] = "waiting"]
          /\ arrived' = [arrived EXCEPT ![q] = version[Repo[q]]]
          /\ UNCHANGED <<files, process>>
      BY <1>2 DEF Arrive, Goto
    <2>2. NothingIsNewer'
      <3>1. version[Repo[q]] \in Nat
        BY VersionsAreNumbers, BrokerAssumption
      <3>2. /\ \A p \in Requests \ {q} : phase'[p] = phase[p] /\ arrived'[p] = arrived[p]
            /\ arrived'[q] = version[Repo[q]]
        BY <2>1 DEF TypeOK
      <3>3. \A p \in Requests : phase'[p] # "new" => arrived'[p] <= version[Repo[p]]
        BY <3>1, <3>2 DEF NothingIsNewer
      <3>4. QED
        BY <2>1, <3>3 DEF NothingIsNewer
    <2>3. QED
      BY <2>1, <2>2 DEF TypeOK, LoadedIsCached, UpdateIsNewer, RefreshedIsFresh, Fresh
  <1>3. ASSUME NEW q \in Requests,
               \/ Timeout(q)
               \/ QueryFindsDatabase(q) \/ QueryFindsNone(q) \/ ReadRows(q)
        PROVE  RefreshInv'
    <2>1. /\ phase[q] # "new"
          /\ \A p \in Requests \ {q} : phase'[p] = phase[p]
          /\ \/ phase'[q] \in {"failed", "answered"}
             \/ phase'[q] = "embed" /\ phase[q] = "query"
          /\ UNCHANGED <<version, cache, bound, arrived, walked>>
      BY <1>3 DEF Timeout, AfterTimeout, QueryFindsDatabase, QueryFindsNone, ReadRows,
         Goto, TypeOK
    <2>2. \A r \in Repos : /\ index'[r].version = index[r].version
                           /\ index[r].built \in {"whole", "changing"} =>
                                index'[r] = index[r]
      BY <1>3, OpenKeeps DEF Timeout, QueryFindsDatabase, QueryFindsNone, ReadRows
    <2>3. NothingIsNewer'
      BY <2>1, <2>2 DEF NothingIsNewer
    <2>4. LoadedIsCached'
      BY <2>1 DEF LoadedIsCached
    <2>5. UpdateIsNewer'
      BY <2>1, <2>2 DEF UpdateIsNewer, ModulesAreBound, TypeOK
    <2>6. RefreshedIsFresh'
      BY <2>1, <2>2, BrokerAssumption DEF RefreshedIsFresh, Fresh
    <2>7. QED
      BY <2>3, <2>4, <2>5, <2>6
  <1>4. CASE Restart
    <2>1. /\ \A q \in Requests : phase'[q] \in {"new", "answered", "failed"}
          /\ \A q \in Requests : phase'[q] # "new" => phase[q] # "new"
          /\ UNCHANGED <<files, arrived>>
      BY <1>4 DEF Restart, Ended, TypeOK
    <2>2. QED
      BY <2>1 DEF NothingIsNewer, LoadedIsCached, UpdateIsNewer, RefreshedIsFresh
  <1>5. QED
    BY <1>1, <1>2, <1>3, <1>4

\* In a process that loaded the indexer of a repository, a request for a refresh
\* is answered from an index as new as the repository was when it arrived, or from
\* one that another request has begun to update since.
THEOREM RefreshesAreHonoured == Spec => RefreshIsHonoured
  <1>1. BrokerInv /\ RefreshInv /\ [Next]_vars => RefreshInv'
    <2> SUFFICES ASSUME BrokerInv, RefreshInv, [Next]_vars PROVE RefreshInv'
      OBVIOUS
    <2>1. CASE UNCHANGED vars
      BY <2>1 DEF RefreshInv, NothingIsNewer, LoadedIsCached, UpdateIsNewer,
         RefreshedIsFresh, Fresh, vars
    <2>2. CASE Next
      BY <2>1, <2>2, RefreshLoads, RefreshUpdates, RefreshOther DEF Next, Step, Terminating
    <2>3. QED
      BY <2>1, <2>2
  <1>2. BrokerInv /\ RefreshInv /\ [Next]_vars =>
          [\A q \in Requests :
             /\ phase[q] # "answered" /\ phase'[q] = "answered" /\ Refresh[q]
             /\ cache[Repo[q]] = "indexer" /\ bound = Repo[q]
             => \/ /\ answer'[q].content.built = "whole"
                   /\ answer'[q].content.version >= arrived[q]
                \/ /\ answer'[q].content.built = "changing"
                   /\ answer'[q].content.by # q]_vars
    <2> SUFFICES ASSUME BrokerInv, RefreshInv, Next, NEW q \in Requests,
                        phase[q] # "answered", phase'[q] = "answered", Refresh[q],
                        cache[Repo[q]] = "indexer", bound = Repo[q]
                 PROVE  \/ /\ answer'[q].content.built = "whole"
                           /\ answer'[q].content.version >= arrived[q]
                        \/ /\ answer'[q].content.built = "changing"
                           /\ answer'[q].content.by # q
      OBVIOUS
    <2>1. ~Restart
      BY DEF Restart, Ended, BrokerInv, TypeOK
    <2>2. PICK p \in Requests : ReadRows(p)
      BY <2>1, AnswersElsewhere
    <2>3. p = q
      BY <2>2 DEF ReadRows, Goto, BrokerInv, TypeOK
    <2>4. phase[q] = "embed" /\ answer'[q].content = index[bound]
      BY <2>2, <2>3 DEF ReadRows, BrokerInv, TypeOK
    <2>5. Fresh(q)
      BY <2>4 DEF RefreshInv, RefreshedIsFresh
    <2>6. bound \in Repos
      BY BrokerAssumption
    <2>7. QED
      BY <2>4, <2>5, <2>6, VersionsAreNumbers DEF Fresh, BrokerInv
  <1>3. QED
    BY <1>1, <1>2, BrokerInit, BrokerStep, RefreshInit, PTL DEF Spec, RefreshIsHonoured

-----------------------------------------------------------------------------
(* The end of a request.  That it comes, EveryRequestEnds, rests on        *)
(* fairness and on these facts: nobody waits for a lock that is not going  *)
(* to be given back, and there is only so far to go.                       *)

\* How many steps a request makes at most until it has ended.
Ahead == [new |-> 6, waiting |-> 5, update |-> 4, indexing |-> 3, query |-> 2,
          embed |-> 1, answered |-> 0, failed |-> 0]

\* A step of a request brings it nearer to its end, and no other further away.
GoesForward ==
  [][\A q \in Requests :
       /\ Ahead[phase[q]]' <= Ahead[phase[q]]
       /\ Step(q) \/ Timeout(q) => Ahead[phase[q]]' < Ahead[phase[q]]]_vars

\* What the guards of Step(q) ask for.
CanGoOn(q) ==
  \/ phase[q] = "waiting" /\ lock = None
  \/ phase[q] \in {"update", "indexing", "query", "embed"}

\* No time-out, failing load or restart leaves the lock with a request that is
\* not going to release it: a request that has arrived and has not ended can go
\* on, or waits for one that can.
THEOREM RequestsAreNeverStuck ==
  Spec => [](\A q \in Requests :
               phase[q] \notin Ended \cup {"new"} =>
                 CanGoOn(q) \/ (lock \in Requests /\ CanGoOn(lock)))
  <1>1. ASSUME BrokerInv, NEW q \in Requests, phase[q] \notin Ended \cup {"new"}
        PROVE  CanGoOn(q) \/ (lock \in Requests /\ CanGoOn(lock))
    <2>1. phase[q] \in Phases /\ lock \in Requests \cup {None}
      BY <1>1 DEF BrokerInv, TypeOK
    <2>2. lock \in Requests => phase[lock] \in InTheLock
      BY <1>1 DEF BrokerInv, OneUpdateAtATime
    <2>3. QED
      BY <1>1, <2>1, <2>2 DEF CanGoOn, Phases, Ended, InTheLock
  <1>2. BrokerInv =>
          \A q \in Requests :
            phase[q] \notin Ended \cup {"new"} =>
              CanGoOn(q) \/ (lock \in Requests /\ CanGoOn(lock))
    BY <1>1
  <1>3. QED
    BY <1>2, BrokerInit, BrokerStep, PTL DEF Spec

\* And a request ends five steps after its arrival, whatever time-outs, failing
\* loads, restarts and other requests come between: nothing is tried again.
THEOREM RequestsGoForward == Spec => GoesForward
  <1>1. ASSUME TypeOK, NEW p \in Requests, Arrive(p) \/ Step(p) \/ Timeout(p)
        PROVE  /\ \A q \in Requests \ {p} : phase'[q] = phase[q]
               /\ phase'[p] \in Phases /\ Ahead[phase'[p]] < Ahead[phase[p]]
    <2> USE DEF TypeOK, Phases, Ahead, Goto
    <2>1. CASE Arrive(p)
      BY <1>1, <2>1 DEF Arrive
    <2>2. CASE EnterCached(p) \/ EnterLoading(p)
      <3>1. /\ phase[p] = "waiting"
            /\ \/ phase' = [phase EXCEPT ![p] = "update"]
               \/ phase' = [phase EXCEPT ![p] = "query"]
        BY <2>2 DEF EnterCached, EnterLoading, MayLoad, AfterLoad
      <3>2. QED
        BY <1>1, <3>1
    <2>3. CASE LoadFails(p)
      BY <1>1, <2>3 DEF LoadFails, MayLoad
    <2>4. CASE StartUpdate(p) \/ FinishUpdate(p)
      BY <1>1, <2>4 DEF StartUpdate, FinishUpdate
    <2>5. CASE QueryFindsDatabase(p) \/ QueryFindsNone(p) \/ ReadRows(p)
      BY <1>1, <2>5 DEF QueryFindsDatabase, QueryFindsNone, ReadRows
    <2>6. CASE Timeout(p)
      BY <1>1, <2>6 DEF Timeout, AfterTimeout
    <2>7. QED
      BY <1>1, <2>1, <2>2, <2>3, <2>4, <2>5, <2>6 DEF Step
  <1>2. ASSUME TypeOK, [Next]_vars, NEW q \in Requests
        PROVE  /\ Ahead[phase'[q]] <= Ahead[phase[q]]
               /\ Step(q) \/ Timeout(q) => Ahead[phase'[q]] < Ahead[phase[q]]
    <2>1. /\ Ahead[phase[q]] \in Nat
          /\ phase[q] \in Ended => Ahead[phase[q]] = 0
          /\ Ahead["failed"] = 0
      BY <1>2 DEF TypeOK, Phases, Ahead, Ended
    <2>2. CASE \E p \in Requests : Arrive(p) \/ Step(p) \/ Timeout(p)
      <3>1. PICK p \in Requests : Arrive(p) \/ Step(p) \/ Timeout(p)
        BY <2>2
      <3>2. CASE p = q
        <4>1. Ahead[phase'[q]] < Ahead[phase[q]] /\ Ahead[phase'[q]] \in Nat
          BY <1>1, <1>2, <3>1, <3>2 DEF Phases, Ahead
        <4>2. QED
          BY <2>1, <4>1
      <3>3. CASE p # q
        <4>1. phase'[q] = phase[q]
          BY <1>1, <1>2, <3>1, <3>3
        <4>2. ~(Step(q) \/ Timeout(q))
          BY <1>1, <1>2, <2>1, <4>1
        <4>3. QED
          BY <2>1, <4>1, <4>2
      <3>4. QED
        BY <3>2, <3>3
    <2>3. CASE ~\E p \in Requests : Arrive(p) \/ Step(p) \/ Timeout(p)
      <3>1. phase'[q] = phase[q] \/ phase'[q] = "failed"
        BY <1>2, <2>3 DEF Next, EditRepo, Restart, Terminating, vars
      <3>2. QED
        BY <2>1, <2>3, <3>1
    <2>4. QED
      BY <2>2, <2>3
  <1>3. TypeOK /\ [Next]_vars =>
          [\A q \in Requests :
             /\ Ahead[phase[q]]' <= Ahead[phase[q]]
             /\ Step(q) \/ Timeout(q) => Ahead[phase[q]]' < Ahead[phase[q]]]_vars
    <2>1. ASSUME NEW q \in Requests PROVE Ahead[phase[q]]' = Ahead[phase'[q]]
      BY DEF Ahead
    <2>2. QED
      BY <1>2, <2>1
  <1>4. QED
    BY <1>3, TypeCorrect, PTL DEF Spec, GoesForward
=============================================================================
