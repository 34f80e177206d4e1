-------------------------- MODULE RunRecordsProofs --------------------------
(***************************************************************************)
(* What holds of RunRecords for all runs and all readers, proved with      *)
(* TLAPS: its types, and that an answer which shows a run as decided shows *)
(* the decision.                                                           *)
(***************************************************************************)
EXTENDS RunRecords, SequenceTheorems, TLAPS

\* The definitions that only name things.
USE DEF files, writers, readers

Lines == SUBSET (Runs \X {"approved", "rejected"})

\* What is left of a decision: nothing before it is made, and a receipt only
\* of a promotion.
Remaining ==
  \A r \in Runs :
    /\ decision[r] = "none" => deciding[r] = <<>>
    /\ \A i \in DOMAIN deciding[r] :
         deciding[r][i] = "promote" => decision[r] \in {"applied", "failed"}

\* The lines tell of every run that is applied or rejected who decided so.
Backed(statuses, lines) ==
  \A r \in Runs :
    /\ statuses[r] = "applied"  => <<r, "approved">> \in lines
    /\ statuses[r] = "rejected" => <<r, "rejected">> \in lines

\* The writers: the approval is there before runs.json is read.
WritersInv ==
  /\ Backed(runs, approvals)
  /\ \A r \in Runs :
       /\ Backed(copy[r], approvals)
       /\ decision[r] = "applied" =>
            <<r, "approved">> \in approvals \/ deciding[r] = Writes("applied")
       /\ decision[r] = "rejected" =>
            <<r, "rejected">> \in approvals \/ deciding[r] = Writes("rejected")

\* What a request for one run has still to read when it has seen the status,
\* and when it has seen the approvals too.
BeforeApprovals == {<<"events", "approvals", "promotions">>, <<"approvals", "promotions">>,
                    <<"approvals", "promotions", "events">>}
AfterApprovals == {<<"promotions">>, <<"promotions", "events">>, <<"events">>, <<>>}

Single(q) == request[q] \in {"get_run", "get_run_state"}

\* The readers: the status they have seen is backed by the approvals that they
\* have read, or by those that they will read.
ReaderInv(q) ==
  /\ \/ reading[q] = Reads(request[q])
     \/ reading[q] \in BeforeApprovals /\ Backed(seen[q].runs, approvals)
     \/ reading[q] \in AfterApprovals /\ Backed(seen[q].runs, seen[q].approvals)
  /\ reply[q] = "ok" => reading[q] = <<>>

RecordsInv ==
  /\ Remaining
  /\ WritersInv
  /\ \A q \in Readers : Single(q) => ReaderInv(q)
(***************************************************************************)
(* Types.                                                                  *)
(***************************************************************************)

WriteSteps == {"approve", "event", "read", "store", "promote"}

LEMMA WritesType ==
  ASSUME NEW d \in Decisions
  PROVE  /\ Writes(d) \in Seq(WriteSteps)
         /\ \A i \in DOMAIN Writes(d) : Writes(d)[i] = "promote" => d \in {"applied", "failed"}
  <1>1. CASE d = "applied"
    <2>1. Writes(d) = <<"approve", "event", "read", "store", "promote", "event">>
      BY <1>1 DEF Writes
    <2>2. Writes(d) \in Seq(WriteSteps)
      BY <2>1 DEF WriteSteps
    <2>3. QED
      BY <1>1, <2>2
  <1>2. CASE d = "failed"
    <2>1. Writes(d) = <<"read", "store", "promote", "event">>
      BY <1>2 DEF Writes
    <2>2. Writes(d) \in Seq(WriteSteps)
      BY <2>1 DEF WriteSteps
    <2>3. QED
      BY <1>2, <2>2
  <1>3. CASE d = "rejected"
    <2>1. Writes(d) = <<"approve", "read", "store", "event">>
      BY <1>3 DEF Writes
    <2>2. DOMAIN Writes(d) = {1, 2, 3, 4} /\ Writes(d) \in Seq(WriteSteps)
      BY <2>1 DEF WriteSteps
    <2>3. QED
      BY <2>1, <2>2
  <1>4. CASE d = "invalid"
    <2>1. Writes(d) = <<"read", "store">>
      BY <1>4 DEF Writes
    <2>2. DOMAIN Writes(d) = {1, 2} /\ Writes(d) \in Seq(WriteSteps)
      BY <2>1 DEF WriteSteps
    <2>3. QED
      BY <2>1, <2>2
  <1>5. QED
    BY <1>1, <1>2, <1>3, <1>4 DEF Decisions

LEMMA ReadsType ==
  ASSUME NEW asked \in Requests
  PROVE  Reads(asked) \in Seq(Files \cup Runs)
  <1>1. /\ asked = "get_run" => Reads(asked) = <<"runs", "events", "approvals", "promotions">>
        /\ asked = "get_run_state" =>
             Reads(asked) = <<"runs", "approvals", "promotions", "events">>
        /\ asked = "list_awaiting" => Reads(asked) = <<"runs", "rest">>
        /\ asked = "ready" => Reads(asked) = <<"runs">>
    BY DEF Reads
  <1>2. {"runs", "events", "approvals", "promotions", "rest"} \subseteq Files \cup Runs
    BY DEF Files
  <1> HIDE DEF Files
  <1>3. /\ <<"runs", "events", "approvals", "promotions">> \in Seq(Files \cup Runs)
        /\ <<"runs", "approvals", "promotions", "events">> \in Seq(Files \cup Runs)
        /\ <<"runs", "rest">> \in Seq(Files \cup Runs)
        /\ <<"runs">> \in Seq(Files \cup Runs)
    BY <1>2
  <1>4. QED
    BY <1>1, <1>3 DEF Requests

\* What is left of a list after its first element.
LEMMA TailLeft ==
  ASSUME NEW S, NEW s \in Seq(S), s # <<>>
  PROVE  /\ Head(s) \in S /\ Head(s) = s[1] /\ 1 \in DOMAIN s
         /\ Tail(s) \in Seq(S)
         /\ \A i \in DOMAIN Tail(s) : i + 1 \in DOMAIN s /\ Tail(s)[i] = s[i + 1]
  BY HeadTailProperties

LEMMA TypeInit == Init => TypeOK /\ Remaining
  <1> SUFFICES ASSUME Init PROVE TypeOK /\ Remaining
    OBVIOUS
  <1>1. NoCopy \in [Runs -> Statuses]
    BY DEF NoCopy, Statuses
  <1>2. /\ runs \in [Runs -> Statuses] /\ copy \in [Runs -> [Runs -> Statuses]]
        /\ approvals = {} /\ promotions = {} /\ garbled = FALSE /\ overtaken = {}
        /\ decision \in [Runs -> Decisions \cup {"none"}]
        /\ listed \in [Readers -> SUBSET (Runs \X Statuses)]
        /\ reply \in [Readers -> {"none", "ok", "error"}]
    BY <1>1 DEF Init
  <1>3. /\ serving \in [Runs -> Seq({"upsert", "seek", "write"})]
        /\ deciding \in [Runs -> Seq(WriteSteps)]
        /\ \A r \in Runs : deciding[r] = <<>>
    BY DEF Init, WriteSteps
  <1>4. /\ request \in [Readers -> Wants]
        /\ reading \in [Readers -> Seq(Files \cup Runs)]
    BY ReadsType, RecordsAssumption DEF Init
  <1>5. seen \in [Readers -> [runs : [Runs -> Statuses], approvals : Lines,
                             promotions : SUBSET (Runs \X {"applied", "failed"})]]
    BY <1>1 DEF Init, NothingSeen, Lines
  <1>6. QED
    <2>1. Remaining
      BY <1>3 DEF Remaining
    <2>2. QED
      BY <1>2, <1>3, <1>4, <1>5, <2>1 DEF TypeOK, Lines, WriteSteps

LEMMA TypeService ==
  ASSUME TypeOK, Remaining, NEW r \in Runs, Service(r)
  PROVE  TypeOK' /\ Remaining'
  <1>1. serving' \in [Runs -> Seq({"upsert", "seek", "write"})]
    <2>1. serving[r] # <<>> /\ serving' = [serving EXCEPT ![r] = Tail(@)]
      BY DEF Service, Await, SeekToEnd, WriteEvent, Serves
    <2>2. Tail(serving[r]) \in Seq({"upsert", "seek", "write"})
      BY <2>1, TailLeft DEF TypeOK
    <2>3. QED
      BY <2>1, <2>2 DEF TypeOK
  <1>2. /\ runs' \in [Runs -> Statuses] /\ garbled' \in BOOLEAN /\ overtaken' \subseteq Runs
    BY DEF Service, Await, SeekToEnd, WriteEvent, AboutToWrite, TypeOK, Statuses
  <1>3. UNCHANGED <<approvals, promotions, deciding, decision, copy, readers>>
    BY DEF Service, Await, SeekToEnd, WriteEvent
  <1>4. QED
    BY <1>1, <1>2, <1>3 DEF TypeOK, Remaining

\* The decision's next write is taken off its list.
LEMMA TypeDecides ==
  ASSUME TypeOK, Remaining, NEW r \in Runs, NEW step, Decides(r, step), UNCHANGED decision
  PROVE  /\ deciding' \in [Runs -> Seq(WriteSteps)]
         /\ Remaining'
         /\ decision[r] \in Decisions
         /\ step = "promote" => decision[r] \in {"applied", "failed"}
  <1>1. /\ deciding[r] # <<>> /\ Head(deciding[r]) = step
        /\ deciding' = [deciding EXCEPT ![r] = Tail(@)]
        /\ deciding[r] \in Seq(WriteSteps)
    BY DEF Decides, TypeOK, WriteSteps
  <1>2. deciding' \in [Runs -> Seq(WriteSteps)]
    BY <1>1, TailLeft DEF TypeOK, WriteSteps
  <1>3. decision[r] # "none"
    BY <1>1 DEF Remaining
  <1>4. /\ deciding[r][1] = step /\ 1 \in DOMAIN deciding[r]
        /\ \A i \in DOMAIN Tail(deciding[r]) :
             i + 1 \in DOMAIN deciding[r] /\ Tail(deciding[r])[i] = deciding[r][i + 1]
    BY <1>1, TailLeft
  <1>5. /\ deciding'[r] = Tail(deciding[r])
        /\ \A x \in Runs \ {r} : deciding'[x] = deciding[x]
    BY <1>1 DEF TypeOK
  <1>6. Remaining'
    <2>1. decision[r] = "none" => deciding'[r] = <<>>
      BY <1>3
    <2>2. \A i \in DOMAIN deciding'[r] :
            deciding'[r][i] = "promote" => decision[r] \in {"applied", "failed"}
      BY <1>4, <1>5 DEF Remaining
    <2>3. QED
      BY <1>5, <2>1, <2>2 DEF Remaining
  <1>7. QED
    BY <1>2, <1>3, <1>4, <1>6 DEF TypeOK, Remaining

LEMMA TypeDecision ==
  ASSUME TypeOK, Remaining, NEW r \in Runs, Decision(r)
  PROVE  TypeOK' /\ Remaining'
  <1>1. ASSUME NEW d \in Decisions, Decide(r, d)
        PROVE  TypeOK' /\ Remaining'
    <2>1. /\ decision' = [decision EXCEPT ![r] = d]
          /\ deciding' = [deciding EXCEPT ![r] = Writes(d)]
          /\ UNCHANGED <<files, overtaken, serving, copy, readers>>
          /\ d # "none"
      BY <1>1 DEF Decide, Decisions
    <2>2. deciding' \in [Runs -> Seq(WriteSteps)]
      BY <2>1, WritesType DEF TypeOK, WriteSteps
    <2>3. TypeOK'
      BY <2>1, <2>2 DEF TypeOK, WriteSteps
    <2>4. Remaining'
      BY <2>1, WritesType DEF TypeOK, Remaining
    <2>5. QED
      BY <2>3, <2>4
  <1>2. CASE RecordApproval(r)
    <2>1. Decides(r, "approve") /\ UNCHANGED decision
      BY <1>2 DEF RecordApproval
    <2>2. approvals' \subseteq Runs \X {"approved", "rejected"}
      BY <1>2 DEF RecordApproval, TypeOK
    <2>3. QED
      BY <1>2, <2>1, <2>2, TypeDecides DEF RecordApproval, TypeOK, WriteSteps
  <1>3. CASE RecordEvent(r)
    <2>1. Decides(r, "event") /\ UNCHANGED decision /\ overtaken' \subseteq Runs
      BY <1>3 DEF RecordEvent, TypeOK, AboutToWrite
    <2>2. QED
      BY <1>3, <2>1, TypeDecides DEF RecordEvent, TypeOK, WriteSteps
  <1>4. CASE ReadRuns(r)
    <2>1. Decides(r, "read") /\ UNCHANGED decision /\ copy' \in [Runs -> [Runs -> Statuses]]
      BY <1>4 DEF ReadRuns, TypeOK
    <2>2. QED
      BY <1>4, <2>1, TypeDecides DEF ReadRuns, TypeOK, WriteSteps
  <1>5. CASE ReplaceRun(r)
    <2>1. Decides(r, "store") /\ UNCHANGED decision
      BY <1>5 DEF ReplaceRun
    <2>2. StatusAfter(decision[r]) \in Statuses
      BY <2>1, TypeDecides DEF StatusAfter, Decisions, Statuses
    <2>3. runs' \in [Runs -> Statuses] /\ copy' \in [Runs -> [Runs -> Statuses]]
      BY <1>5, <2>2 DEF ReplaceRun, TypeOK, NoCopy, Statuses
    <2>4. QED
      BY <1>5, <2>1, <2>3, TypeDecides DEF ReplaceRun, TypeOK, WriteSteps
  <1>6. CASE RecordPromotion(r)
    <2>1. Decides(r, "promote") /\ UNCHANGED decision
      BY <1>6 DEF RecordPromotion
    <2>2. promotions' \subseteq Runs \X {"applied", "failed"}
      BY <1>6, <2>1, TypeDecides DEF RecordPromotion, TypeOK
    <2>3. QED
      BY <1>6, <2>1, <2>2, TypeDecides DEF RecordPromotion, TypeOK, WriteSteps
  <1>7. QED
    BY <1>1, <1>2, <1>3, <1>4, <1>5, <1>6 DEF Decision

LEMMA TypeRead ==
  ASSUME TypeOK, NEW q \in Readers, Read(q)
  PROVE  TypeOK'
  <1>1. UNCHANGED <<files, overtaken, serving, deciding, decision, copy, request>>
    BY DEF Read, ReadFile, ReadEvents, LookAgain
  <1>2. ASSUME Asks(q), Advance(q)
        PROVE  /\ reading' \in [Readers -> Seq(Files \cup Runs)]
               /\ reply' \in [Readers -> {"none", "ok", "error"}]
    <2>1. Tail(reading[q]) \in Seq(Files \cup Runs)
      BY <1>2, TailLeft DEF Asks, TypeOK
    <2>2. QED
      BY <1>2, <2>1 DEF Advance, TypeOK
  <1>3. ASSUME NEW file \in {"runs", "approvals", "promotions"}, ReadFile(q, file)
        PROVE  TypeOK'
    <2>1. \/ seen' = [seen EXCEPT ![q] = [@ EXCEPT !.runs = runs]]
          \/ seen' = [seen EXCEPT ![q] = [@ EXCEPT !.approvals = approvals]]
          \/ seen' = [seen EXCEPT ![q] = [@ EXCEPT !.promotions = promotions]]
      BY <1>3 DEF ReadFile
    <2>2. seen' \in [Readers -> [runs : [Runs -> Statuses],
                                approvals : SUBSET (Runs \X {"approved", "rejected"}),
                                promotions : SUBSET (Runs \X {"applied", "failed"})]]
      <3>1. /\ seen[q] \in [runs : [Runs -> Statuses],
                             approvals : SUBSET (Runs \X {"approved", "rejected"}),
                             promotions : SUBSET (Runs \X {"applied", "failed"})]
            /\ runs \in [Runs -> Statuses]
            /\ approvals \in SUBSET (Runs \X {"approved", "rejected"})
            /\ promotions \in SUBSET (Runs \X {"applied", "failed"})
        BY DEF TypeOK
      <3>2. /\ \A x \in Readers \ {q} : seen'[x] = seen[x]
            /\ \/ seen'[q] = [seen[q] EXCEPT !.runs = runs]
               \/ seen'[q] = [seen[q] EXCEPT !.approvals = approvals]
               \/ seen'[q] = [seen[q] EXCEPT !.promotions = promotions]
            /\ seen' = [x \in Readers |-> seen'[x]]
        BY <2>1 DEF TypeOK
      <3>3. seen'[q] \in [runs : [Runs -> Statuses],
                          approvals : SUBSET (Runs \X {"approved", "rejected"}),
                          promotions : SUBSET (Runs \X {"applied", "failed"})]
        BY <3>1, <3>2
      <3>4. QED
        BY <3>2, <3>3 DEF TypeOK
    <2>3. QED
      BY <1>1, <1>2, <1>3, <2>2 DEF ReadFile, TypeOK
  <1>4. CASE ReadEvents(q)
    BY <1>1, <1>2, <1>4 DEF ReadEvents, TypeOK
  <1>5. ASSUME NEW r \in Runs, LookAgain(q, r)
        PROVE  TypeOK'
    <2>1. /\ listed' \in [Readers -> SUBSET (Runs \X Statuses)]
          /\ reply' \in [Readers -> {"none", "ok", "error"}]
      <3>1. Listed(q, r) \subseteq Runs \X Statuses
        BY DEF Listed, TypeOK
      <3>2. QED
        <4>1. /\ UNCHANGED listed \/ listed' = [listed EXCEPT ![q] = @ \cup Listed(q, r)]
              /\ \/ UNCHANGED reply
                 \/ reply' = [reply EXCEPT ![q] = "ok"]
                 \/ reply' = [reply EXCEPT ![q] = "error"]
          BY <1>5 DEF LookAgain
        <4>2. listed' \in [Readers -> SUBSET (Runs \X Statuses)]
          <5>1. listed[q] \cup Listed(q, r) \in SUBSET (Runs \X Statuses)
            BY <3>1 DEF TypeOK
          <5>2. QED
            BY <4>1, <5>1 DEF TypeOK
        <4>3. reply' \in [Readers -> {"none", "ok", "error"}]
          BY <4>1 DEF TypeOK
        <4>4. QED
          BY <4>2, <4>3
    <2>2. Append(reading[q], r) \in Seq(Files \cup Runs)
      BY DEF TypeOK
    <2>3. reading' \in [Readers -> Seq(Files \cup Runs)]
      <3>1. <<>> \in Seq(Files \cup Runs)
        OBVIOUS
      <3>2. \/ UNCHANGED reading
            \/ reading' = [reading EXCEPT ![q] = <<>>]
            \/ reading' = [reading EXCEPT ![q] = Append(@, r)]
        BY <1>5 DEF LookAgain
      <3>3. QED
        BY <2>2, <3>1, <3>2 DEF TypeOK
    <2>4. QED
      BY <1>1, <1>5, <2>1, <2>3 DEF LookAgain, TypeOK
  <1>6. QED
    BY <1>3, <1>4, <1>5 DEF Read

\* One step keeps the types, and what is left of each decision in order.
LEMMA TypeStep == TypeOK /\ Remaining /\ [Next]_vars => TypeOK' /\ Remaining'
  <1> SUFFICES ASSUME TypeOK, Remaining, [Next]_vars PROVE TypeOK' /\ Remaining'
    OBVIOUS
  <1>1. CASE UNCHANGED vars
    BY <1>1 DEF TypeOK, Remaining, vars
  <1>2. ASSUME NEW q \in Readers, Read(q) PROVE TypeOK' /\ Remaining'
    <2>1. UNCHANGED <<deciding, decision>>
      BY <1>2 DEF Read, ReadFile, ReadEvents, LookAgain
    <2>2. QED
      BY <1>2, <2>1, TypeRead DEF Remaining
  <1>3. QED
    BY <1>1, <1>2, TypeService, TypeDecision DEF Next, Terminating

\* Every variable keeps its type, for all runs, readers and requests: among
\* others no writer runs out of its list, and a receipt says "applied" or
\* "failed" and nothing else.
THEOREM TypeCorrect == Spec => []TypeOK
  BY TypeInit, TypeStep, PTL DEF Spec
(***************************************************************************)
(* Decided runs show their decision.                                       *)
(***************************************************************************)

\* The writers: nothing is written before its approval, and approvals.jsonl
\* only grows.
LEMMA WritersService ==
  ASSUME TypeOK, WritersInv, NEW r \in Runs, Service(r)
  PROVE  WritersInv' /\ UNCHANGED <<approvals, readers>>
  <1>1. UNCHANGED <<approvals, deciding, decision, copy, readers>>
    BY DEF Service, Await, SeekToEnd, WriteEvent
  <1>2. UNCHANGED runs \/ runs' = [runs EXCEPT ![r] = "awaiting_approval"]
    BY DEF Service, Await, SeekToEnd, WriteEvent
  <1>3. Backed(runs', approvals)
    BY <1>2 DEF WritersInv, Backed, TypeOK
  <1>4. QED
    BY <1>1, <1>3 DEF WritersInv, Backed

LEMMA WritersDecision ==
  ASSUME TypeOK, Remaining, WritersInv, NEW r \in Runs, Decision(r)
  PROVE  WritersInv' /\ approvals \subseteq approvals' /\ UNCHANGED readers
  <1>1. UNCHANGED readers
    BY DEF Decision, Decide, RecordApproval, RecordEvent, ReadRuns, ReplaceRun, RecordPromotion
  <1>2. ASSUME NEW d \in Decisions, Decide(r, d)
        PROVE  WritersInv' /\ UNCHANGED approvals
    <2>1. /\ UNCHANGED <<runs, approvals, copy>>
          /\ decision' = [decision EXCEPT ![r] = d]
          /\ deciding' = [deciding EXCEPT ![r] = Writes(d)]
      BY <1>2 DEF Decide
    <2>2. QED
      BY <2>1 DEF WritersInv, Backed, TypeOK
  <1>3. ASSUME NEW step, Decides(r, step), UNCHANGED decision, approvals \subseteq approvals',
               step = "approve" =>
                 approvals' = approvals \cup
                   {<<r, IF decision[r] = "applied" THEN "approved" ELSE "rejected">>}
        PROVE  \A x \in Runs :
                 /\ decision'[x] = "applied" =>
                      <<x, "approved">> \in approvals' \/ deciding'[x] = Writes("applied")
                 /\ decision'[x] = "rejected" =>
                      <<x, "rejected">> \in approvals' \/ deciding'[x] = Writes("rejected")
    <2>1. /\ Head(deciding[r]) = step
          /\ \A x \in Runs \ {r} : deciding'[x] = deciding[x]
      BY <1>3 DEF Decides, TypeOK
    <2>2. Head(Writes("applied")) = "approve" /\ Head(Writes("rejected")) = "approve"
      BY DEF Writes
    <2>3. QED
      BY <1>3, <2>1, <2>2 DEF WritersInv
  <1>4. CASE RecordApproval(r)
    <2>1. /\ Decides(r, "approve") /\ UNCHANGED <<runs, decision, copy>>
          /\ approvals' = approvals \cup
               {<<r, IF decision[r] = "applied" THEN "approved" ELSE "rejected">>}
      BY <1>4 DEF RecordApproval
    <2>2. Backed(runs, approvals') /\ \A x \in Runs : Backed(copy[x], approvals')
      BY <2>1 DEF WritersInv, Backed
    <2>3. QED
      BY <1>1, <1>3, <2>1, <2>2 DEF WritersInv, Backed
  <1>5. CASE RecordEvent(r) \/ RecordPromotion(r)
    <2>1. /\ Decides(r, "event") \/ Decides(r, "promote")
          /\ UNCHANGED <<runs, approvals, decision, copy>>
      BY <1>5 DEF RecordEvent, RecordPromotion
    <2>2. QED
      BY <1>1, <1>3, <2>1 DEF WritersInv, Backed
  <1>6. CASE ReadRuns(r)
    <2>1. /\ Decides(r, "read") /\ UNCHANGED <<runs, approvals, decision>>
          /\ copy' = [copy EXCEPT ![r] = runs]
      BY <1>6 DEF ReadRuns
    <2>2. \A x \in Runs : copy'[x] = copy[x] \/ copy'[x] = runs
      BY <2>1 DEF TypeOK
    <2>3. \A x \in Runs : Backed(copy'[x], approvals)
      BY <2>2 DEF WritersInv
    <2>4. QED
      BY <1>1, <1>3, <2>1, <2>3 DEF WritersInv, Backed
  <1>7. CASE ReplaceRun(r)
    <2>1. /\ Decides(r, "store") /\ UNCHANGED <<approvals, decision>>
          /\ runs' = [copy[r] EXCEPT ![r] = StatusAfter(decision[r])]
          /\ copy' = [copy EXCEPT ![r] = NoCopy]
      BY <1>7 DEF ReplaceRun
    <2>2. /\ decision[r] = "applied" => <<r, "approved">> \in approvals
          /\ decision[r] = "rejected" => <<r, "rejected">> \in approvals
      <3>1. Head(Writes("applied")) = "approve" /\ Head(Writes("rejected")) = "approve"
        BY DEF Writes
      <3>2. QED
        BY <2>1, <3>1 DEF Decides, WritersInv
    <2>3. Backed(runs', approvals)
      <3>1. /\ runs'[r] = StatusAfter(decision[r])
            /\ \A x \in Runs \ {r} : runs'[x] = copy[r][x]
        BY <2>1 DEF TypeOK
      <3>2. StatusAfter(decision[r]) \in {"applied", "rejected"} =>
              StatusAfter(decision[r]) = decision[r]
        BY DEF StatusAfter
      <3>3. QED
        BY <2>2, <3>1, <3>2 DEF WritersInv, Backed
    <2>4. \A x \in Runs : Backed(copy'[x], approvals)
      <3>1. Backed(NoCopy, approvals)
        BY DEF Backed, NoCopy
      <3>2. \A x \in Runs : copy'[x] = copy[x] \/ copy'[x] = NoCopy
        BY <2>1 DEF TypeOK
      <3>3. QED
        BY <3>1, <3>2 DEF WritersInv
    <2>5. QED
      BY <1>1, <1>3, <2>1, <2>3, <2>4 DEF WritersInv, Backed
  <1>8. QED
    BY <1>1, <1>2, <1>4, <1>5, <1>6, <1>7
    DEF Decision, RecordApproval, RecordEvent, ReadRuns, ReplaceRun, RecordPromotion
\* How the requests for one run go through their files.
LEMMA Progress ==
  /\ \A s \in {<<"runs", "events", "approvals", "promotions">>,
              <<"runs", "approvals", "promotions", "events">>} :
       s # <<>> /\ Head(s) = "runs" /\ Tail(s) \in BeforeApprovals
  /\ \A s \in BeforeApprovals :
       /\ s # <<>>
       /\ \/ Head(s) = "events" /\ Tail(s) \in BeforeApprovals
          \/ Head(s) = "approvals" /\ Tail(s) \in AfterApprovals
  /\ \A s \in AfterApprovals : s # <<>> =>
       Head(s) \in {"promotions", "events"} /\ Tail(s) \in AfterApprovals
  <1>1. /\ Tail(<<"runs", "events", "approvals", "promotions">>) =
             <<"events", "approvals", "promotions">>
        /\ Tail(<<"runs", "approvals", "promotions", "events">>) =
             <<"approvals", "promotions", "events">>
        /\ Tail(<<"events", "approvals", "promotions">>) = <<"approvals", "promotions">>
        /\ Tail(<<"approvals", "promotions">>) = <<"promotions">>
        /\ Tail(<<"approvals", "promotions", "events">>) = <<"promotions", "events">>
        /\ Tail(<<"promotions", "events">>) = <<"events">>
        /\ Tail(<<"promotions">>) = <<>> /\ Tail(<<"events">>) = <<>>
    OBVIOUS
  <1>2. /\ Head(<<"runs", "events", "approvals", "promotions">>) = "runs"
        /\ Head(<<"runs", "approvals", "promotions", "events">>) = "runs"
        /\ Head(<<"events", "approvals", "promotions">>) = "events"
        /\ Head(<<"approvals", "promotions">>) = "approvals"
        /\ Head(<<"approvals", "promotions", "events">>) = "approvals"
        /\ Head(<<"promotions", "events">>) = "promotions"
        /\ Head(<<"promotions">>) = "promotions" /\ Head(<<"events">>) = "events"
    OBVIOUS
  <1>3. \A s \in BeforeApprovals : s # <<>>
    BY DEF BeforeApprovals
  <1>4. \A s \in BeforeApprovals :
          \/ Head(s) = "events" /\ Tail(s) \in BeforeApprovals
          \/ Head(s) = "approvals" /\ Tail(s) \in AfterApprovals
    BY <1>1, <1>2, Zenon DEF BeforeApprovals, AfterApprovals
  <1>5. \A s \in AfterApprovals : s # <<>> =>
          Head(s) \in {"promotions", "events"} /\ Tail(s) \in AfterApprovals
    BY <1>1, <1>2, Zenon DEF AfterApprovals
  <1>6. \A s \in {<<"runs", "events", "approvals", "promotions">>,
                 <<"runs", "approvals", "promotions", "events">>} :
          Head(s) = "runs" /\ Tail(s) \in BeforeApprovals
    BY <1>1, <1>2, Zenon DEF BeforeApprovals
  <1>7. QED
    BY <1>3, <1>4, <1>5, <1>6

LEMMA ReaderStep ==
  ASSUME TypeOK, WritersInv, NEW q \in Readers, Read(q), Single(q) => ReaderInv(q)
  PROVE  Single(q)' => ReaderInv(q)'
  <1> SUFFICES ASSUME Single(q) PROVE ReaderInv(q)'
    BY DEF Read, ReadFile, ReadEvents, LookAgain, Single
  <1>1. /\ UNCHANGED <<request, runs, approvals>>
        /\ Reads(request[q]) \in {<<"runs", "events", "approvals", "promotions">>,
                                 <<"runs", "approvals", "promotions", "events">>}
    BY DEF Read, ReadFile, ReadEvents, LookAgain, Single, Reads
  <1>2. ASSUME Advance(q)
        PROVE  reading'[q] = Tail(reading[q]) /\ (reply'[q] = "ok" => reading'[q] = <<>>)
    <2>1. reading'[q] = Tail(reading[q])
      BY <1>2 DEF Advance, TypeOK
    <2>2. reply'[q] = "ok" => Tail(reading[q]) = <<>> \/ reading[q] = <<>>
      BY <1>2 DEF Advance, TypeOK, ReaderInv
    <2>3. Asks(q)
      BY DEF Read, ReadFile, ReadEvents, LookAgain
    <2>4. QED
      BY <2>1, <2>2, <2>3 DEF Asks
  <1>3. CASE ReadFile(q, "runs")
    <2>1. Head(reading[q]) = "runs" /\ reading[q] # <<>> /\ Advance(q) /\ seen'[q].runs = runs
      BY <1>3 DEF ReadFile, Asks, TypeOK
    <2>2. reading[q] = Reads(request[q])
      BY <2>1, Progress DEF ReaderInv
    <2>3. Tail(reading[q]) \in BeforeApprovals
      BY <1>1, <2>2, Progress
    <2>4. QED
      BY <1>1, <1>2, <2>1, <2>3 DEF ReaderInv, WritersInv, Backed
  <1>4. CASE ReadFile(q, "approvals")
    <2>1. /\ Head(reading[q]) = "approvals" /\ reading[q] # <<>> /\ Advance(q)
          /\ seen'[q].runs = seen[q].runs /\ seen'[q].approvals = approvals
      BY <1>4 DEF ReadFile, Asks, TypeOK
    <2>2. reading[q] \in BeforeApprovals /\ Backed(seen[q].runs, approvals)
      BY <1>1, <2>1, Progress DEF ReaderInv
    <2>3. Tail(reading[q]) \in AfterApprovals
      BY <2>1, <2>2, Progress
    <2>4. QED
      BY <1>2, <2>1, <2>2, <2>3 DEF ReaderInv, Backed
  <1>5. CASE ReadFile(q, "promotions")
    <2>1. /\ Head(reading[q]) = "promotions" /\ reading[q] # <<>> /\ Advance(q)
          /\ seen'[q].runs = seen[q].runs /\ seen'[q].approvals = seen[q].approvals
      BY <1>5 DEF ReadFile, Asks, TypeOK
    <2>2. reading[q] \in AfterApprovals /\ Backed(seen[q].runs, seen[q].approvals)
      BY <1>1, <2>1, Progress DEF ReaderInv
    <2>3. Tail(reading[q]) \in AfterApprovals
      BY <2>1, <2>2, Progress
    <2>4. QED
      BY <1>2, <2>1, <2>2, <2>3 DEF ReaderInv, Backed
  <1>6. CASE ReadEvents(q)
    <2>1. CASE garbled
      <3>1. UNCHANGED <<reading, seen>> /\ reply'[q] = "error"
        BY <1>6, <2>1 DEF ReadEvents, TypeOK
      <3>2. QED
        BY <1>1, <3>1 DEF ReaderInv, Backed
    <2>2. CASE ~garbled
      <3>1. Head(reading[q]) = "events" /\ reading[q] # <<>> /\ Advance(q) /\ UNCHANGED seen
        BY <1>6, <2>2 DEF ReadEvents, Asks
      <3>2. \/ Tail(reading[q]) \in BeforeApprovals /\ Backed(seen[q].runs, approvals)
            \/ Tail(reading[q]) \in AfterApprovals /\ Backed(seen[q].runs, seen[q].approvals)
        BY <1>1, <3>1, Progress DEF ReaderInv
      <3>3. QED
        BY <1>1, <1>2, <3>1, <3>2 DEF ReaderInv, Backed
    <2>3. QED
      BY <2>1, <2>2
  <1>7. ASSUME NEW r \in Runs, LookAgain(q, r)
        PROVE  FALSE
    <2>1. Head(reading[q]) = "rest" /\ reading[q] # <<>>
      BY <1>7 DEF LookAgain, Asks
    <2>2. QED
      BY <1>1, <2>1, Progress DEF ReaderInv
  <1>8. QED
    BY <1>3, <1>4, <1>5, <1>6, <1>7 DEF Read

\* A reader is left as it was by whatever others do.
LEMMA ReadersStay ==
  ASSUME NEW q \in Readers, UNCHANGED <<request, reading[q], seen[q], reply[q]>>,
         approvals \subseteq approvals', Single(q) => ReaderInv(q)
  PROVE  Single(q)' => ReaderInv(q)'
  BY DEF Single, ReaderInv, Backed

\* Whenever a reader comes by, and however the decisions and their lost updates
\* interleave: the answer about a run that shows it as applied or rejected shows
\* the approval or the rejection, for all runs and readers.
THEOREM DecisionsAreShown == Spec => []DecidedShowsDecision
  <1>1. Init => RecordsInv
    <2> SUFFICES ASSUME Init PROVE RecordsInv
      OBVIOUS
    <2>1. \A q \in Readers : reading[q] = Reads(request[q]) /\ reply[q] = "none"
      BY DEF Init
    <2>2. WritersInv
      BY DEF Init, WritersInv, Backed, NoCopy
    <2>3. QED
      BY <2>1, <2>2, TypeInit DEF RecordsInv, ReaderInv
  <1>2. TypeOK /\ RecordsInv /\ [Next]_vars => RecordsInv'
    <2> SUFFICES ASSUME TypeOK, RecordsInv, [Next]_vars PROVE RecordsInv'
      OBVIOUS
    <2>1. Remaining'
      BY TypeStep DEF RecordsInv
    <2>2. CASE UNCHANGED vars \/ Terminating
      <3>1. UNCHANGED vars
        BY <2>2 DEF Terminating
      <3>2. QED
        BY <2>1, <3>1 DEF vars, RecordsInv, WritersInv, Backed, Single, ReaderInv
    <2>3. ASSUME NEW r \in Runs, Service(r) \/ Decision(r)
          PROVE  RecordsInv'
      <3>1. WritersInv' /\ approvals \subseteq approvals' /\ UNCHANGED readers
        BY <2>3, WritersService, WritersDecision DEF RecordsInv
      <3>2. QED
        BY <2>1, <3>1, ReadersStay DEF RecordsInv
    <2>4. ASSUME NEW q \in Readers, Read(q)
          PROVE  RecordsInv'
      <3>1. /\ UNCHANGED <<runs, approvals, deciding, decision, copy, request>>
            /\ \A x \in Readers \ {q} :
                 reading'[x] = reading[x] /\ seen'[x] = seen[x] /\ reply'[x] = reply[x]
        BY <2>4 DEF Read, ReadFile, ReadEvents, LookAgain, Advance, TypeOK
      <3>2. WritersInv'
        BY <3>1 DEF RecordsInv, WritersInv, Backed
      <3>3. Single(q)' => ReaderInv(q)'
        BY <2>4, ReaderStep DEF RecordsInv
      <3>4. QED
        BY <2>1, <3>1, <3>2, <3>3, ReadersStay DEF RecordsInv
    <2>5. QED
      BY <2>2, <2>3, <2>4 DEF Next
  <1>3. RecordsInv => DecidedShowsDecision
    <2> SUFFICES ASSUME RecordsInv, NEW q \in Readers, Single(q), reply[q] = "ok"
                 PROVE  Backed(seen[q].runs, seen[q].approvals)
      BY DEF DecidedShowsDecision, Single, Backed
    <2>1. reading[q] = <<>> /\ ReaderInv(q)
      BY DEF RecordsInv, ReaderInv
    <2>2. Reads(request[q]) # <<>>
      BY DEF Single, Reads
    <2>3. QED
      BY <2>1, <2>2 DEF ReaderInv, BeforeApprovals
  <1>4. QED
    BY <1>1, <1>2, <1>3, TypeCorrect, PTL DEF Spec
=============================================================================
