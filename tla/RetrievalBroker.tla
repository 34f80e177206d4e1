-------------------------- MODULE RetrievalBroker --------------------------
(***************************************************************************)
(* The retrieval broker: integration/retrieval_broker/service.py and       *)
(* coco_client.py over the vendored cocoindex_code package.                *)
(*                                                                         *)
(* Requests are coroutines of one event loop: between two awaits a request *)
(* runs alone, so an action is what one coroutine does up to its next      *)
(* await.  The cocoindex modules are Python modules of the process: there  *)
(* is one of each, whatever number of repositories is served, and          *)
(* importlib.reload changes the one that everybody holds.                  *)
(***************************************************************************)
EXTENDS Naturals, FiniteSets

CONSTANTS
  Repos,       \* repository paths
  Requests,    \* requests, each sent once
  None,        \* no repository, no request
  Repo,        \* Repo[q]: the path q names
  Refresh,     \* Refresh[q]: its refresh_index
  Indexed,     \* repositories that an earlier process indexed
  MaxVersion,  \* bound: how often a repository may change
  MaxRestarts, \* bound: how often the process is restarted
  Faults       \* what may go wrong: "timeout" of an await, "load" of a module

ASSUME BrokerAssumption ==
  /\ None \notin Repos \cup Requests
  /\ Repo \in [Requests -> Repos]
  /\ Refresh \in [Requests -> BOOLEAN]
  /\ Indexed \subseteq Repos
  /\ MaxVersion \in Nat /\ MaxRestarts \in Nat
  /\ Faults \subseteq {"timeout", "load"}

VARIABLES
  version,     \* version[r]: how often the files of r have changed
  index,       \* index[r]: what target_sqlite.db under r holds
  lock,        \* the request that holds _LOAD_LOCK, or None
  cache,       \* _MODULE_CACHE: the entry of r, with or without an indexer
  configured,  \* root of query.config, the module that every reload rebinds
  bound,       \* root of shared.config, bound at the first import for good
  phase,       \* phase[q]: the await that q is at
  arrived,     \* arrived[q]: version of its repository when q arrived
  walked,      \* version that the update under way has read
  answer,      \* answer[q]: whose index q was answered from, and its content
  restarts     \* restarts so far

files   == <<version, index>>
process == <<lock, cache, configured, bound, walked>>
calls   == <<phase, arrived, answer>>
vars    == <<files, process, calls, restarts>>

\* No file; a file whose first update has not ended; one that request q's later
\* update has begun to change, of which nothing is known until an update ends; an
\* index of all files, each as of version v or newer.
Contents == [built : {"absent", "partial", "changing", "whole"},
             version : 0..MaxVersion, by : Requests \cup {None}]
Absent      == [built |-> "absent", version |-> 0, by |-> None]
Partial     == [built |-> "partial", version |-> 0, by |-> None]
Changing(q) == [built |-> "changing", version |-> 0, by |-> q]
IndexOf(v)  == [built |-> "whole", version |-> v, by |-> None]

Phases   == {"new", "waiting", "update", "indexing", "query", "embed",
             "answered", "failed"}
InTheLock == {"update", "indexing"}
Ended     == {"answered", "failed"}
NoAnswer  == [from |-> None, content |-> Absent]

EmptyCache == [r \in Repos |-> "none"]

Init ==
  /\ version = [r \in Repos |-> 0]
  /\ index = [r \in Repos |-> IF r \in Indexed THEN IndexOf(0) ELSE Absent]
  /\ lock = None
  /\ cache = EmptyCache
  /\ configured = None
  /\ bound = None
  /\ walked = 0
  /\ phase = [q \in Requests |-> "new"]
  /\ arrived = [q \in Requests |-> 0]
  /\ answer = [q \in Requests |-> NoAnswer]
  /\ restarts = 0

Goto(q, to) == phase' = [phase EXCEPT ![q] = to]

-----------------------------------------------------------------------------
(* The environment: the files of a repository change, a request arrives.   *)

EditRepo(r) ==
  /\ version[r] < MaxVersion
  /\ version' = [version EXCEPT ![r] = @ + 1]
  /\ UNCHANGED <<index, process, calls, restarts>>

Arrive(q) ==
  /\ phase[q] = "new"
  /\ Goto(q, "waiting")
  /\ arrived' = [arrived EXCEPT ![q] = version[Repo[q]]]
  /\ UNCHANGED <<files, process, answer, restarts>>

-----------------------------------------------------------------------------
(* search_code.                                                            *)

\* Slips: the update runs after the lock has been given back; the lock is one
\* per repository.
MutantKeepLock(q)   == lock' = None
MutantLockByRepo(q) == lock' = Repo[q]

\* The lock stays with a request that goes on to update the index.
KeepLock(q) == lock' = q

\* What follows the load: update, in the lock, or leave the lock and query.
AfterLoad(q, withIndexer) ==
  IF Refresh[q] /\ withIndexer
  THEN Goto(q, "update") /\ KeepLock(q)
  ELSE Goto(q, "query") /\ UNCHANGED lock

\* _load_modules_sync finds the repository in its cache.
EnterCached(q) ==
  /\ phase[q] = "waiting" /\ lock = None
  /\ cache[Repo[q]] # "none"
  /\ AfterLoad(q, cache[Repo[q]] = "indexer")
  /\ UNCHANGED <<files, cache, configured, bound, walked, arrived,
                 answer, restarts>>

\* A slip: the modules are reloaded without waiting for the lock.
MutantMayLoad(q) == phase[q] = "waiting"

MayLoad(q) == phase[q] = "waiting" /\ lock = None

\* importlib.reload of config and query: both now are of this repository.
Reload(r) ==
  /\ configured' = r
  /\ bound' = IF bound = None THEN r ELSE bound

\* It loads the modules, with the indexer only where there is no database.
EnterLoading(q) ==
  LET r == Repo[q]
      withIndexer == index[r] = Absent IN
    /\ MayLoad(q)
    /\ cache[r] = "none"
    /\ Reload(r)
    /\ cache' = [cache EXCEPT ![r] = IF withIndexer THEN "indexer" ELSE "plain"]
    /\ AfterLoad(q, withIndexer)
    /\ UNCHANGED <<files, walked, arrived, answer, restarts>>

\* Loading throws after the reload: nothing is cached, the request fails.
LoadFails(q) ==
  /\ "load" \in Faults
  /\ MayLoad(q)
  /\ cache[Repo[q]] = "none"
  /\ Reload(Repo[q])
  /\ Goto(q, "failed")
  /\ UNCHANGED <<files, lock, cache, walked, arrived, answer,
                 restarts>>

\* The environment starts at its first use and opens the database of the
\* repository that shared.config is bound to, which creates the file.
OpenEnvironment ==
  index' = [index EXCEPT ![bound] = IF @ = Absent THEN Partial ELSE @]

\* app.update walks the repository that the environment was opened for, and
\* changes the rows of an index that is there one file after the other: until it
\* has ended, whoever reads gets rows of several versions.
StartUpdate(q) ==
  /\ phase[q] = "update"
  /\ index' = [index EXCEPT ![bound] =
                 IF @ \in {Absent, Partial} THEN Partial ELSE Changing(q)]
  /\ walked' = version[bound]
  /\ Goto(q, "indexing")
  /\ UNCHANGED <<version, lock, cache, configured, bound, arrived,
                 answer, restarts>>

Release(q) == lock' = IF lock = q THEN None ELSE lock

FinishUpdate(q) ==
  /\ phase[q] = "indexing"
  /\ index' = [index EXCEPT ![bound] = IndexOf(walked)]
  /\ Release(q)
  /\ Goto(q, "query")
  /\ UNCHANGED <<version, cache, configured, bound, walked, arrived, answer,
                 restarts>>

\* Slips: an update that times out is taken for done; a call that times out is
\* made again.
MutantAfterTimeout(q) == Goto(q, IF phase[q] = "indexing" THEN "query" ELSE "failed")
MutantRetry(q) == Goto(q, "waiting")

\* wait_for raises TimeoutError, and the endpoint reports an error.
AfterTimeout(q) == Goto(q, "failed")

Timeout(q) ==
  /\ "timeout" \in Faults
  /\ phase[q] \in {"update", "indexing", "query", "embed"}
  /\ AfterTimeout(q)
  /\ Release(q)
  /\ UNCHANGED <<files, cache, configured, bound, walked, arrived, answer,
                 restarts>>

\* query_codebase looks for the database of the module's current config.
QueryFindsDatabase(q) ==
  /\ phase[q] = "query"
  /\ index[configured] # Absent
  /\ OpenEnvironment
  /\ Goto(q, "embed")
  /\ UNCHANGED <<version, lock, cache, configured, bound, walked, arrived, answer,
                 restarts>>

QueryFindsNone(q) ==
  /\ phase[q] = "query"
  /\ index[configured] = Absent
  /\ Goto(q, "failed")
  /\ UNCHANGED <<files, process, arrived, answer, restarts>>

\* The rows come from the environment's connection.
ReadRows(q) ==
  /\ phase[q] = "embed"
  /\ answer' = [answer EXCEPT ![q] = [from |-> bound, content |-> index[bound]]]
  /\ Goto(q, "answered")
  /\ UNCHANGED <<files, process, arrived, restarts>>

\* The process ends and a new one starts: its requests get no answer.
Restart ==
  /\ restarts < MaxRestarts
  /\ restarts' = restarts + 1
  /\ lock' = None
  /\ cache' = EmptyCache
  /\ configured' = None
  /\ bound' = None
  /\ walked' = 0
  /\ phase' = [q \in Requests |->
                 IF phase[q] \in Ended \cup {"new"} THEN phase[q] ELSE "failed"]
  /\ UNCHANGED <<files, arrived, answer>>

-----------------------------------------------------------------------------

Step(q) ==
  \/ EnterCached(q) \/ EnterLoading(q) \/ LoadFails(q)
  \/ StartUpdate(q) \/ FinishUpdate(q)
  \/ QueryFindsDatabase(q) \/ QueryFindsNone(q) \/ ReadRows(q)

AllEnded == \A q \in Requests : phase[q] \in Ended

Terminating == AllEnded /\ UNCHANGED vars

Next ==
  \/ \E r \in Repos : EditRepo(r)
  \/ \E q \in Requests : Arrive(q) \/ Step(q) \/ Timeout(q)
  \/ Restart
  \/ Terminating

Spec == Init /\ [][Next]_vars

\* The event loop runs every coroutine that can go on.
FairSpec == Spec /\ \A q \in Requests : WF_vars(Step(q))

-----------------------------------------------------------------------------
(* Properties.                                                             *)

\* Types, and the lock: it is held exactly in the part of search_code that
\* the "async with" encloses beyond the load.
TypeOK ==
  /\ version \in [Repos -> 0..MaxVersion]
  /\ index \in [Repos -> Contents]
  /\ lock \in Requests \cup {None}
  /\ cache \in [Repos -> {"none", "plain", "indexer"}]
  /\ configured \in Repos \cup {None} /\ bound \in Repos \cup {None}
  /\ phase \in [Requests -> Phases]
  /\ arrived \in [Requests -> 0..MaxVersion]
  /\ walked \in 0..MaxVersion
  /\ answer \in [Requests -> [from : Repos \cup {None}, content : Contents]]
  /\ restarts \in 0..MaxRestarts

\* At most one request is between the load and the end of its update, and it
\* holds the lock: no two updates write one database at a time, and no reload
\* changes the modules under an update (coco_client.py, lines 71 to 80).
OneUpdateAtATime ==
  \A q \in Requests : phase[q] \in InTheLock <=> lock = q

\* Nobody reloads the modules while a request holds the lock: the comment on
\* _load_modules_sync asks it of every caller.
ReloadsOutsideUpdates ==
  [][configured' \notin {configured, None} =>
       \A q \in Requests : phase[q] \notin InTheLock]_vars

\* In a process that has loaded the indexer for a repository, a request that
\* asks for a refresh and is answered from that repository gets an index that
\* holds all of it, as new as the repository was when the request arrived, or one
\* that another request has begun to update again since: its own update is not
\* taken for done when it was cut off, and no update of another request, no edit,
\* time-out or failing load makes the index older or loses it.
RefreshIsHonoured ==
  [][\A q \in Requests :
       /\ phase[q] # "answered" /\ phase'[q] = "answered" /\ Refresh[q]
       /\ cache[Repo[q]] = "indexer" /\ bound = Repo[q]
       => \/ /\ answer'[q].content.built = "whole"
             /\ answer'[q].content.version >= arrived[q]
          \/ /\ answer'[q].content.built = "changing"
             /\ answer'[q].content.by # q]_vars


\* Every request that arrived ends with an answer or an error.
EveryRequestEnds ==
  \A q \in Requests : phase[q] = "waiting" ~> phase[q] \in Ended
=============================================================================
