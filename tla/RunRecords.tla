----------------------------- MODULE RunRecords -----------------------------
(***************************************************************************)
(* The records of a run as its readers see them: the read endpoints of     *)
(* scripts/serve_coding_runs.py and ApprovalStore of                       *)
(* runtime/approval_store.py read runs.json, events.jsonl, approvals.jsonl *)
(* and promotions.jsonl one after the other, while promote_run, reject_run *)
(* and the coding run service write them one after the other.              *)
(*                                                                         *)
(* approvals.jsonl and promotions.jsonl only grow, so a reading of them is *)
(* the set of their lines.  Of events.jsonl it only matters whether it can *)
(* be read.                                                                *)
(***************************************************************************)
EXTENDS Naturals, Sequences, FiniteSets

CONSTANTS
  Runs,      \* runs in the ledger, proposing at first, each decided once
  Readers,   \* one reading request each
  Wants      \* the requests that they make, some of Requests

Requests == {"get_run", "get_run_state", "list_awaiting", "ready"}

ASSUME RecordsAssumption ==
  /\ IsFiniteSet(Runs)
  /\ Wants \subseteq Requests

VARIABLES
  runs,        \* runs[r]: the status in runs.json
  approvals,   \* lines of approvals.jsonl
  promotions,  \* lines of promotions.jsonl
  garbled,     \* a line of events.jsonl is no JSON document
  overtaken,   \* runs whose service has found the end of events.jsonl, and
               \* somebody has written there since
  serving,     \* serving[r]: what is left of the coding run service's work on r
  deciding,    \* deciding[r]: what is left of the decision on r
  decision,    \* decision[r]: the decision
  copy,        \* copy[r]: runs.json as the decision on r has read it
  request,     \* request[q]: what q has asked for
  reading,     \* reading[q]: what q has still to read
  seen,        \* seen[q]: what it has read
  listed,      \* listed[q]: the entries that list_awaiting_approval returns
  reply        \* reply[q]: "ok" or "error" once q is answered

files   == <<runs, approvals, promotions, garbled>>
writers == <<overtaken, serving, deciding, decision, copy>>
readers == <<request, reading, seen, listed, reply>>
vars    == <<files, writers, readers>>

Statuses  == {"proposing", "awaiting_approval", "applied", "rejected", "failed"}
Decisions == {"applied", "rejected", "failed", "invalid"}
NoCopy    == [r \in Runs |-> "proposing"]
NothingSeen == [runs |-> NoCopy, approvals |-> {}, promotions |-> {}]

\* What a request reads, in this order; "rest" is the loop over the runs.
Files == {"runs", "events", "approvals", "promotions", "rest"}

Reads(asked) ==
  CASE asked = "get_run"       -> <<"runs", "events", "approvals", "promotions">>
    [] asked = "get_run_state" -> <<"runs", "approvals", "promotions", "events">>
    [] asked = "list_awaiting" -> <<"runs", "rest">>
    [] asked = "ready"         -> <<"runs">>

Init ==
  /\ runs = NoCopy
  /\ approvals = {} /\ promotions = {}
  /\ garbled = FALSE /\ overtaken = {}
  /\ serving = [r \in Runs |-> <<"upsert", "seek", "write">>]
  /\ deciding = [r \in Runs |-> <<>>]
  /\ decision = [r \in Runs |-> "none"]
  /\ copy = [r \in Runs |-> NoCopy]
  /\ request \in [Readers -> Wants]
  /\ reading = [q \in Readers |-> Reads(request[q])]
  /\ seen = [q \in Readers |-> NothingSeen]
  /\ listed = [q \in Readers |-> {}]
  /\ reply = [q \in Readers |-> "none"]

-----------------------------------------------------------------------------
(* The coding run service: the status, and then the event of it.           *)

Serves(r, step) ==
  /\ serving[r] # <<>> /\ Head(serving[r]) = step
  /\ serving' = [serving EXCEPT ![r] = Tail(@)]

Await(r) ==
  /\ Serves(r, "upsert")
  /\ runs' = [runs EXCEPT ![r] = "awaiting_approval"]
  /\ UNCHANGED <<approvals, promotions, garbled, overtaken, deciding,
                 decision, copy, readers>>

SeekToEnd(r) ==
  /\ Serves(r, "seek")
  /\ overtaken' = overtaken \ {r}
  /\ UNCHANGED <<files, deciding, decision, copy, readers>>

\* The services that know the end of events.jsonl and write there next.
AboutToWrite == {r \in Runs : serving[r] # <<>> /\ Head(serving[r]) = "write"}

\* The handle was not opened for appending: the event goes over what others
\* have written since, and may end in the middle of a line.
WriteEvent(r) ==
  /\ Serves(r, "write")
  /\ garbled' \in IF r \in overtaken THEN {garbled, TRUE} ELSE {garbled}
  /\ overtaken' = (overtaken \cup AboutToWrite) \ {r}
  /\ UNCHANGED <<runs, approvals, promotions, deciding, decision, copy, readers>>

-----------------------------------------------------------------------------
(* promote_run and reject_run: their writes, in this order.                *)

\* A slip: the status first, the approval later.
MutantWrites(d) ==
  CASE d = "applied"  -> <<"read", "store", "approve", "event", "promote", "event">>
    [] d = "rejected" -> <<"approve", "read", "store", "event">>
    [] d = "failed"   -> <<"read", "store", "promote", "event">>
    [] d = "invalid"  -> <<"read", "store">>

Writes(d) ==
  CASE d = "applied"  -> <<"approve", "event", "read", "store", "promote", "event">>
    [] d = "rejected" -> <<"approve", "read", "store", "event">>
    [] d = "failed"   -> <<"read", "store", "promote", "event">>
    [] d = "invalid"  -> <<"read", "store">>

\* A slip: a check that fails is taken for a status.
MutantStatusAfter(d) == d

StatusAfter(d) == IF d = "invalid" THEN "failed" ELSE d

Decide(r, d) ==
  /\ runs[r] = "awaiting_approval"
  /\ decision[r] = "none"
  /\ decision' = [decision EXCEPT ![r] = d]
  /\ deciding' = [deciding EXCEPT ![r] = Writes(d)]
  /\ UNCHANGED <<files, overtaken, serving, copy, readers>>

Decides(r, step) ==
  /\ deciding[r] # <<>> /\ Head(deciding[r]) = step
  /\ deciding' = [deciding EXCEPT ![r] = Tail(@)]

RecordApproval(r) ==
  /\ Decides(r, "approve")
  /\ approvals' = approvals \cup
       {<<r, IF decision[r] = "applied" THEN "approved" ELSE "rejected">>}
  /\ UNCHANGED <<runs, promotions, garbled, overtaken, serving, decision,
                 copy, readers>>

\* Opened for appending: the line goes to the end, wherever that is.
RecordEvent(r) ==
  /\ Decides(r, "event")
  /\ overtaken' = overtaken \cup AboutToWrite
  /\ UNCHANGED <<files, serving, decision, copy, readers>>

ReadRuns(r) ==
  /\ Decides(r, "read")
  /\ copy' = [copy EXCEPT ![r] = runs]
  /\ UNCHANGED <<files, overtaken, serving, decision, readers>>

ReplaceRun(r) ==
  /\ Decides(r, "store")
  /\ runs' = [copy[r] EXCEPT ![r] = StatusAfter(decision[r])]
  /\ copy' = [copy EXCEPT ![r] = NoCopy]
  /\ UNCHANGED <<approvals, promotions, garbled, overtaken, serving,
                 decision, readers>>

RecordPromotion(r) ==
  /\ Decides(r, "promote")
  /\ promotions' = promotions \cup {<<r, decision[r]>>}
  /\ UNCHANGED <<runs, approvals, garbled, overtaken, serving, decision,
                 copy, readers>>

-----------------------------------------------------------------------------
(* The readers.                                                            *)

Asks(q) == reading[q] # <<>> /\ reply[q] = "none"

\* The last reading answers the request.
Advance(q) ==
  /\ reading' = [reading EXCEPT ![q] = Tail(@)]
  /\ reply' = [reply EXCEPT ![q] = IF Tail(reading[q]) = <<>> THEN "ok" ELSE @]

ReadFile(q, file) ==
  /\ Asks(q) /\ Head(reading[q]) = file
  /\ seen' = [seen EXCEPT ![q] =
       CASE file = "runs"       -> [@ EXCEPT !.runs = runs]
         [] file = "approvals"  -> [@ EXCEPT !.approvals = approvals]
         [] file = "promotions" -> [@ EXCEPT !.promotions = promotions]]
  /\ Advance(q)
  /\ UNCHANGED <<files, writers, request, listed>>

\* _read_jsonl raises at a line that is no JSON document.
ReadEvents(q) ==
  /\ Asks(q) /\ Head(reading[q]) = "events"
  /\ IF garbled
     THEN reply' = [reply EXCEPT ![q] = "error"] /\ UNCHANGED reading
     ELSE Advance(q)
  /\ UNCHANGED <<files, writers, request, seen, listed>>

\* list_awaiting_approval goes through the runs: get_run_state reads all files
\* again for each of them, and the first reading's entry is what it returns.
Listed(q, r) == IF runs[r] = "awaiting_approval" THEN {<<r, seen[q].runs[r]>>} ELSE {}

Done(q) == {r \in Runs : \E i \in DOMAIN reading[q] : reading[q][i] = r}

LookAgain(q, r) ==
  /\ Asks(q) /\ Head(reading[q]) = "rest"
  /\ r \notin Done(q)
  /\ IF garbled
     THEN reply' = [reply EXCEPT ![q] = "error"] /\ UNCHANGED <<reading, listed>>
     ELSE /\ listed' = [listed EXCEPT ![q] = @ \cup Listed(q, r)]
          /\ IF Done(q) \cup {r} = Runs
             THEN /\ reading' = [reading EXCEPT ![q] = <<>>]
                  /\ reply' = [reply EXCEPT ![q] = "ok"]
             ELSE /\ reading' = [reading EXCEPT ![q] = Append(@, r)]
                  /\ UNCHANGED reply
  /\ UNCHANGED <<files, writers, request, seen>>

-----------------------------------------------------------------------------

Service(r) == Await(r) \/ SeekToEnd(r) \/ WriteEvent(r)

Decision(r) ==
  \/ \E d \in Decisions : Decide(r, d)
  \/ RecordApproval(r) \/ RecordEvent(r) \/ ReadRuns(r) \/ ReplaceRun(r)
  \/ RecordPromotion(r)

Read(q) ==
  \/ \E file \in {"runs", "approvals", "promotions"} : ReadFile(q, file)
  \/ ReadEvents(q)
  \/ \E r \in Runs : LookAgain(q, r)

\* Everything is written and read, or a lost update has left a run undecided.
Terminating ==
  /\ \A r \in Runs : serving[r] = <<>> /\ deciding[r] = <<>>
  /\ \A q \in Readers : reply[q] # "none"
  /\ UNCHANGED vars

Next ==
  \/ \E r \in Runs : Service(r) \/ Decision(r)
  \/ \E q \in Readers : Read(q)
  \/ Terminating

Spec == Init /\ [][Next]_vars

-----------------------------------------------------------------------------
(* Properties.                                                             *)

TypeOK ==
  /\ runs \in [Runs -> Statuses]
  /\ approvals \subseteq Runs \X {"approved", "rejected"}
  /\ promotions \subseteq Runs \X {"applied", "failed"}
  /\ garbled \in BOOLEAN /\ overtaken \subseteq Runs
  /\ serving \in [Runs -> Seq({"upsert", "seek", "write"})]
  /\ deciding \in [Runs -> Seq({"approve", "event", "read", "store", "promote"})]
  /\ decision \in [Runs -> Decisions \cup {"none"}]
  /\ copy \in [Runs -> [Runs -> Statuses]]
  /\ request \in [Readers -> Wants]
  /\ reading \in [Readers -> Seq(Files \cup Runs)]
  /\ seen \in [Readers -> [runs       : [Runs -> Statuses],
                           approvals  : SUBSET (Runs \X {"approved", "rejected"}),
                           promotions : SUBSET (Runs \X {"applied", "failed"})]]
  /\ listed \in [Readers -> SUBSET (Runs \X Statuses)]
  /\ reply \in [Readers -> {"none", "ok", "error"}]

\* Whenever a reader comes by, and however the decisions interleave: an answer
\* that shows a run as applied or rejected shows the approval or the rejection
\* that made it so (get_run and get_run_state read the status first, and
\* promote_run and reject_run write it after the approval).
DecidedShowsDecision ==
  \A q \in Readers, r \in Runs :
    request[q] \in {"get_run", "get_run_state"} /\ reply[q] = "ok" =>
      /\ seen[q].runs[r] = "applied"  => <<r, "approved">> \in seen[q].approvals
      /\ seen[q].runs[r] = "rejected" => <<r, "rejected">> \in seen[q].approvals
=============================================================================
