---------------------------- MODULE SessionProofs ----------------------------
(***************************************************************************)
(* What holds of the program whichever command line it is given.  Only the *)
(* run that was selected touches its own variables: the agent keeps the    *)
(* snapshot of a stream right whichever streams start or count meanwhile,  *)
(* a summary or a budget keeps the books of its events, an export plan is  *)
(* written in its order, a crawl and an audit judge by all the answers in  *)
(* whatever order they come, and a resumed screen catches up.              *)
(***************************************************************************)
EXTENDS Session, SequenceTheorems, FiniteSetTheorems, TLAPS

(* The agent. *)
Configs == Seq([id : STRING, starts : BOOLEAN])

Counts(i) ==
  /\ G!Stream(i).id \in DOMAIN registry
  /\ registry[G!Stream(i).id] = [stream |-> i, events |-> counted[i]]

\* A stream that is yet to start has sent nothing, so that its fresh snapshot
\* is right; one that started has a snapshot under its id, if not its own.
AgentInv ==
  /\ streams \in Configs
  /\ spawned \in 0 .. Len(streams)
  /\ counted \in [DOMAIN streams -> Nat]
  /\ \A i \in DOMAIN streams : i > spawned => counted[i] = 0
  /\ \A i \in 1 .. spawned : G!Stream(i).id \in DOMAIN registry
  /\ \A i \in 1 .. spawned : G!OwnId(i) => Counts(i)

LEMMA AgentInvInit ==
  ASSUME NEW configs \in SUBSET Configs, G!AgentInit(configs)
  PROVE  AgentInv
BY DEF G!AgentInit, AgentInv, Configs

\* Another id keeps its snapshot.
LEMMA InsertOne ==
  ASSUME NEW i, G!Insert(i)
  PROVE  /\ DOMAIN registry' = {G!Stream(i).id} \cup DOMAIN registry
         /\ registry'[G!Stream(i).id] = G!Fresh(i)
         /\ \A id \in DOMAIN registry : id # G!Stream(i).id => registry'[id] = registry[id]
BY DEF G!Insert

LEMMA AgentInvStep == AgentInv /\ [G!AgentNext]_agentVars => AgentInv'
<1> SUFFICES ASSUME AgentInv, [G!AgentNext]_agentVars PROVE AgentInv'
  OBVIOUS
<1> USE DEF AgentInv, Configs
<1>0. DOMAIN streams = 1 .. Len(streams) /\ Len(streams) \in Nat
  OBVIOUS
<1>1. CASE G!SpawnStream
  <2>0. PICK new \in Nat : new = spawned + 1
    OBVIOUS
  <2>1. G!Insert(new) /\ new \in DOMAIN streams /\ counted[new] = 0
        /\ UNCHANGED <<streams, counted>> /\ spawned' \in {spawned, new}
    BY <1>0, <1>1, <2>0 DEF G!SpawnStream
  <2>2. DOMAIN registry \subseteq DOMAIN registry' /\ G!Stream(new).id \in DOMAIN registry'
    BY <2>1, InsertOne
  <2>3. ASSUME NEW i \in 1 .. spawned, G!OwnId(i)
        PROVE  G!Stream(i).id # G!Stream(new).id
    BY <1>0, <2>0, <2>1, <2>3 DEF G!OwnId, G!Stream
  <2>4. ASSUME NEW i \in 1 .. spawned, G!OwnId(i)
        PROVE  Counts(i)'
    BY <2>1, <2>2, <2>3, <2>4, InsertOne DEF Counts, G!Stream
  <2>5. Counts(new)'
    BY <2>1, <2>2, InsertOne DEF Counts, G!Fresh, G!Stream
  <2>6. \A i \in 1 .. spawned' : G!Stream(i)'.id \in DOMAIN registry'
    BY <1>0, <2>0, <2>1, <2>2 DEF G!Stream
  <2>7. \A i \in 1 .. spawned' : G!OwnId(i)' => Counts(i)'
    <3> SUFFICES ASSUME NEW i \in 1 .. spawned', G!OwnId(i)' PROVE Counts(i)'
      OBVIOUS
    <3>1. G!OwnId(i)
      BY <2>1 DEF G!OwnId, G!Stream
    <3>2. i \in 1 .. spawned \/ i = new
      BY <1>0, <2>0, <2>1
    <3> QED
      <4>1. CASE i = new
        BY <2>5, <4>1
      <4>2. CASE i \in 1 .. spawned
        BY <2>4, <3>1, <4>2
      <4> QED
        BY <3>2, <4>1, <4>2
  <2> QED
    BY <1>0, <2>0, <2>1, <2>6, <2>7
<1>2. CASE G!Serve
  BY <1>2 DEF G!Serve, G!OwnId, Counts, G!Stream
<1>3. ASSUME NEW i \in G!Pollers, G!SendCounted(i)
      PROVE  AgentInv'
  <2>1. i \in 1 .. spawned /\ i \in DOMAIN streams /\ UNCHANGED <<streams, spawned>>
        /\ counted' = [counted EXCEPT ![i] = @ + 1]
        /\ registry' = [registry EXCEPT ![G!Stream(i).id].events = @ + 1]
    BY <1>0, <1>3 DEF G!Pollers, G!SendCounted
  <2>2. DOMAIN registry' = DOMAIN registry
    BY <2>1
  <2>3. ASSUME NEW j \in 1 .. spawned, G!OwnId(j)
        PROVE  Counts(j)'
    <3>1. Counts(j) /\ j \in DOMAIN streams
      BY <1>0, <2>3
    <3>2. CASE j = i
      BY <2>1, <2>2, <3>1, <3>2 DEF Counts, G!Stream
    <3>3. CASE j # i
      <4>1. G!Stream(j).id # G!Stream(i).id
        BY <2>1, <2>3, <3>3 DEF G!OwnId
      <4> QED
        BY <2>1, <2>2, <3>1, <3>3, <4>1 DEF Counts, G!Stream
    <3> QED
      BY <3>2, <3>3
  <2>4. \A j \in 1 .. spawned' : G!OwnId(j)' => Counts(j)'
    BY <2>1, <2>3 DEF G!OwnId, G!Stream
  <2> QED
    BY <1>0, <2>1, <2>2, <2>4 DEF G!Stream
<1>4. CASE UNCHANGED agentVars
  BY <1>4 DEF agentVars, G!OwnId, Counts, G!Stream
<1> QED
  BY <1>1, <1>2, <1>3, <1>4 DEF G!AgentNext

-----------------------------------------------------------------------------
(* The program. *)
LEMMA RegistryInit == Init => AgentInv
<1> SUFFICES ASSUME Init PROVE AgentInv
  OBVIOUS
<1>1. PICK configs \in SUBSET Configs : G!AgentInit(configs)
  <2>1. ConfigsFor(Selected) \in SUBSET Configs
    BY AgentConfigsAreLists DEF ConfigsFor, Configs
  <2>2. G!AgentInit(ConfigsFor(Selected))
    BY DEF Init
  <2> QED
    BY <2>1, <2>2
<1> QED
  BY <1>1, AgentInvInit

\* Every step is one of the agent or leaves its variables alone.
LEMMA OnlyTheAgent == [Next]_vars => [G!AgentNext]_agentVars
<1> SUFFICES ASSUME [Next]_vars PROVE G!AgentNext \/ UNCHANGED agentVars
  OBVIOUS
<1>1. ASSUME NEW run, NEW code, Over(run, code)
      PROVE  UNCHANGED agentVars
  BY <1>1 DEF Over
<1>2. CASE Dispatch
  BY <1>2 DEF Dispatch
<1>3. CASE Auditing
  BY <1>1, <1>3 DEF Auditing
<1>4. CASE Crawling
  BY <1>1, <1>4 DEF Crawling
<1>5. CASE Measuring
  BY <1>1, <1>5 DEF Measuring
<1>6. CASE Exporting
  BY <1>1, <1>6 DEF Exporting, Capture, WriteExport, ExportFails
<1>7. CASE Comparing
  BY <1>1, <1>7 DEF Comparing
<1>8. CASE MultiCdn
  BY <1>1, <1>8 DEF MultiCdn
<1>9. CASE Agent
  BY <1>1, <1>9 DEF Agent
<1>10. CASE Whep \/ Elsewhere \/ UNCHANGED vars
  BY <1>1, <1>10 DEF Whep, Elsewhere, vars
<1> QED
  BY <1>2, <1>3, <1>4, <1>5, <1>6, <1>7, <1>8, <1>9, <1>10 DEF Next

\* The snapshot under an id that one stream alone has counts every event its
\* poller sent, those sent while other streams start too (run_agent,
\* spawn_agent_stream).
THEOREM AgentCounts == Spec => []AgentCountsItsStreams
<1>1. AgentInv => AgentCountsItsStreams
  BY DEF AgentInv, Counts, AgentCountsItsStreams, G!Stream
<1>2. AgentInv /\ [Next]_vars => AgentInv'
  BY OnlyTheAgent, AgentInvStep
<1> QED
  BY RegistryInit, <1>1, <1>2, PTL DEF Spec
-----------------------------------------------------------------------------
(* A run with a deadline loses no event from its books.                    *)

Event ==
  {"LIVE", "VOD", "DEGRADED", "ERROR", "playlist", "segment", "odd segment", "slow segment",
   "too many cc errors", "score 85", "score 84", "origin stall", "rfc error", "warning",
   "failure", "end"}

\* Occurrences of an event in a sequence of them, as Waiting and Found count.
Where(q, e) == {i \in DOMAIN q : q[i] = e}
Count(q, e) == Cardinality(Where(q, e))

LEMMA WhereIsFinite ==
  ASSUME NEW q \in Seq(Event), NEW e
  PROVE  IsFiniteSet(Where(q, e)) /\ Count(q, e) \in Nat
<1>1. IsFiniteSet(1 .. Len(q))
  <2>1. 1 \in Int /\ Len(q) \in Int
    OBVIOUS
  <2> QED
    BY <2>1, FS_Interval
<1>2. Where(q, e) \in SUBSET (1 .. Len(q))
  BY DEF Where
<1>3. IsFiniteSet(Where(q, e))
  BY <1>1, <1>2, FS_Subset
<1> QED
  BY <1>3, FS_CardinalityType DEF Count

LEMMA CountEmpty == ASSUME NEW e PROVE Count(<<>>, e) = 0
<1>1. Where(<<>>, e) = {}
  BY DEF Where
<1> QED
  BY <1>1, FS_EmptySet DEF Count

LEMMA CountAppend ==
  ASSUME NEW q \in Seq(Event), NEW x \in Event, NEW e
  PROVE  Count(Append(q, x), e) = Count(q, e) + (IF x = e THEN 1 ELSE 0)
<1> DEFINE n == Len(q) + 1
<1>0. /\ DOMAIN Append(q, x) = (1 .. Len(q)) \cup {n} /\ n \notin 1 .. Len(q)
      /\ \A i \in 1 .. Len(q) : Append(q, x)[i] = q[i]
      /\ Append(q, x)[n] = x /\ DOMAIN q = 1 .. Len(q)
  <2>1. Len(q) \in Nat /\ DOMAIN q = 1 .. Len(q)
    OBVIOUS
  <2>2. /\ Append(q, x) \in Seq(Event) /\ Len(Append(q, x)) = n
        /\ \A i \in 1 .. Len(q) : Append(q, x)[i] = q[i]
        /\ Append(q, x)[n] = x
    OBVIOUS
  <2>3. DOMAIN Append(q, x) = 1 .. n
    BY <2>2
  <2>4. 1 .. n = (1 .. Len(q)) \cup {n} /\ n \notin 1 .. Len(q)
    BY <2>1
  <2> QED
    BY <2>1, <2>2, <2>3, <2>4
<1> HIDE DEF n
<1>1. n \notin Where(q, e)
  BY <1>0 DEF Where
<1>2. CASE x = e
  <2>1. Where(Append(q, x), e) = Where(q, e) \cup {n}
    BY <1>0, <1>2 DEF Where
  <2>2. IsFiniteSet(Where(q, e)) /\ Count(q, e) \in Nat
    BY WhereIsFinite
  <2>3. Cardinality(Where(q, e) \cup {n}) = Cardinality(Where(q, e)) + 1
    BY <1>1, <2>2, FS_AddElement
  <2> QED
    BY <1>2, <2>1, <2>2, <2>3 DEF Count
<1>3. CASE x # e
  <2>1. Where(Append(q, x), e) = Where(q, e)
    BY <1>0, <1>3 DEF Where
  <2> QED
    BY <1>3, <2>1, WhereIsFinite DEF Count
<1> QED
  BY <1>2, <1>3

LEMMA CountTail ==
  ASSUME NEW q \in Seq(Event), q # <<>>, NEW e
  PROVE  Count(q, e) = Count(Tail(q), e) + (IF Head(q) = e THEN 1 ELSE 0)
<1> DEFINE rest == Where(q, e) \ {1}
           tail == Where(Tail(q), e)
           f == [i \in tail |-> i + 1]
<1>1. /\ Tail(q) \in Seq(Event) /\ Len(Tail(q)) = Len(q) - 1
      /\ \A i \in 1 .. Len(Tail(q)) : Tail(q)[i] = q[i + 1]
  BY HeadTailProperties
<1>2. tail \subseteq 1 .. Len(Tail(q)) /\ rest \subseteq 2 .. Len(q)
  BY <1>1 DEF Where
<1>3. \A i \in tail : i + 1 \in rest
  BY <1>1 DEF Where
<1>4. \A j \in rest : j - 1 \in tail
  BY <1>1 DEF Where
<1>5. f \in Bijection(tail, rest)
  <2>1. f \in [tail -> rest]
    BY <1>3
  <2>2. \A a, b \in tail : f[a] = f[b] => a = b
    BY <1>2
  <2>3. \A j \in rest : \E i \in tail : f[i] = j
    <3> SUFFICES ASSUME NEW j \in rest PROVE \E i \in tail : f[i] = j
      OBVIOUS
    <3>1. j - 1 \in tail /\ (j - 1) + 1 = j
      BY <1>2, <1>4
    <3> QED
      BY <3>1
  <2> HIDE DEF rest, tail, f
  <2> QED
    BY <2>1, <2>2, <2>3 DEF Bijection, Injection, Surjection, IsInjective
<1>6. IsFiniteSet(tail) /\ Cardinality(tail) \in Nat
  BY <1>1, WhereIsFinite DEF Count
<1>7. Cardinality(rest) = Cardinality(tail)
  <2> HIDE DEF rest, tail, f
  <2> QED
    BY <1>5, <1>6, FS_Bijection DEF ExistsBijection
<1>8. IsFiniteSet(Where(q, e)) /\ Cardinality(Where(q, e)) \in Nat
  BY WhereIsFinite DEF Count
<1>9. 1 \in Where(q, e) <=> Head(q) = e
  BY DEF Where
<1>10. Cardinality(rest) = IF 1 \in Where(q, e) THEN Cardinality(Where(q, e)) - 1
                           ELSE Cardinality(Where(q, e))
  BY <1>8, FS_RemoveElement
<1> HIDE DEF rest
<1> QED
  BY <1>6, <1>7, <1>8, <1>9, <1>10 DEF Count

Judging == {"summary", "budget"}
Adds(t) ==
  /\ {"stalls", "rfc", "breaches"} \subseteq DOMAIN t
  /\ t.stalls \in Nat /\ t.rfc \in Nat /\ t.breaches \in Seq(Event)
Books ==
  /\ script \in Seq(Event) /\ rqueue \in Seq(Event)
  /\ made \in [R!Adverse -> Nat] /\ dropped \in [R!Adverse -> Nat]
  /\ Adds(tally)
Balanced(job) ==
  \A e \in FailingKinds(job) : made[e] = dropped[e] + Count(rqueue, e) + Found(job, e)

LEMMA ScriptOf ==
  ASSUME NEW a \in Event, NEW b \in Event, NEW c \in Event, NEW d \in Event, NEW f \in Event
  PROVE  /\ <<a, b, c>> \in Seq(Event)
         /\ <<a, b, c, d>> \in Seq(Event)
         /\ <<a, b, c, d, f>> \in Seq(Event)
<1>1. <<a, b, c>> \in Seq(Event)
  OBVIOUS
<1>2. <<a, b, c, d>> \in Seq(Event)
  OBVIOUS
<1>3. <<a, b, c, d, f>> \in Seq(Event)
  OBVIOUS
<1> QED
  BY <1>1, <1>2, <1>3

\* The scripts of a poller.
LEMMA Scripts ==
  /\ R!GoodCycles \subseteq Seq(Event)
  /\ \A n : R!FailedCycles(n) \subseteq Seq(Event)
<1>1. ASSUME NEW middle \in Seq(Event), NEW status \in Event, NEW score \in Event
      PROVE  R!Clean(middle, status, score) \in Seq(Event)
  <2>0. "playlist" \in Event
    BY DEF Event
  <2>1. <<"playlist">> \in Seq(Event) /\ <<status, score>> \in Seq(Event)
    BY <2>0
  <2>2. <<"playlist">> \o middle \in Seq(Event)
    BY <2>1, ConcatProperties
  <2> QED
    BY <2>1, <2>2, ConcatProperties DEF R!Clean
<1>2. R!GoodCycles \subseteq Seq(Event)
  <2>1. /\ <<>> \in Seq(Event) /\ <<"segment">> \in Seq(Event)
        /\ <<"odd segment">> \in Seq(Event) /\ <<"slow segment">> \in Seq(Event)
        /\ <<"segment", "too many cc errors">> \in Seq(Event)
    BY DEF Event
  <2>2. ASSUME NEW finding \in {"origin stall", "rfc error", "warning"}
        PROVE  <<"playlist", "segment", "LIVE", finding, "score 85">> \in Seq(Event)
    <3>1. /\ finding \in Event /\ "playlist" \in Event /\ "segment" \in Event
          /\ "LIVE" \in Event /\ "score 85" \in Event
      BY DEF Event
    <3> QED
      BY <3>1, ScriptOf, Zenon
  <2>3. /\ "LIVE" \in Event /\ "VOD" \in Event
        /\ "score 85" \in Event /\ "score 84" \in Event
    BY DEF Event
  <2>4. \A status \in {"LIVE", "VOD"} : R!Clean(<<"segment">>, status, "score 85") \in Seq(Event)
    BY <1>1, <2>1, <2>3
  <2>5. \A middle \in {<<>>, <<"odd segment">>, <<"slow segment">>,
                      <<"segment", "too many cc errors">>} :
          R!Clean(middle, "LIVE", "score 85") \in Seq(Event)
    BY <1>1, <2>1, <2>3
  <2>6. R!Clean(<<"segment">>, "LIVE", "score 84") \in Seq(Event)
    BY <1>1, <2>1, <2>3
  <2> QED
    BY <2>2, <2>4, <2>5, <2>6, Zenon DEF R!GoodCycles
<1>3. ASSUME NEW n PROVE R!FailedCycles(n) \subseteq Seq(Event)
  <2> DEFINE status == IF n >= 3 THEN "ERROR" ELSE "DEGRADED"
  <2>1. status \in {"ERROR", "DEGRADED"}
    BY Zenon
  <2> HIDE DEF status
  <2>2. /\ <<"failure", status, "score 85">> \in Seq(Event)
        /\ <<"failure", status, "origin stall", "score 84">> \in Seq(Event)
    <3>1. /\ status \in Event /\ "failure" \in Event /\ "origin stall" \in Event
          /\ "score 84" \in Event /\ "score 85" \in Event
      BY <2>1 DEF Event
    <3> QED
      BY <3>1, ScriptOf, Zenon
  <2>3. R!FailedCycles(n) = {<<"failure", status, "score 85">>,
                            <<"failure", status, "origin stall", "score 84">>}
    BY DEF R!FailedCycles, status
  <2> QED
    BY <2>2, <2>3
<1> QED
  BY <1>2, <1>3

LEMMA KindsAreAdverse == \A job \in Judging : FailingKinds(job) \subseteq R!Adverse
BY DEF Judging, FailingKinds, R!Adverse


\* What a step of the run does to the count of an event.
One(x, e) == IF x = e THEN 1 ELSE 0

LEMMA CountedOne ==
  ASSUME NEW job \in Judging, NEW counts \in [R!Adverse -> Nat], NEW x
  PROVE  /\ R!Counted(job, counts, x) \in [R!Adverse -> Nat]
         /\ \A e \in R!Adverse : R!Counted(job, counts, x)[e] = counts[e] + One(x, e)
<1>1. CASE x \in R!Adverse
  <2>1. R!Counted(job, counts, x) = [counts EXCEPT ![x] = @ + 1]
    BY <1>1 DEF R!Counted, Judging
  <2> HIDE DEF R!Adverse
  <2> QED
    BY <1>1, <2>1 DEF One
<1>2. CASE x \notin R!Adverse
  <2>1. R!Counted(job, counts, x) = counts
    BY <1>2 DEF R!Counted
  <2> QED
    BY <1>2, <2>1 DEF One
<1> QED
  BY <1>1, <1>2

LEMMA SummaryCounts ==
  ASSUME NEW t, Adds(t), NEW x \in Event
  PROVE  /\ Adds(R!TallySummary(t, x))
         /\ R!TallySummary(t, x).stalls = t.stalls + One(x, "origin stall")
         /\ R!TallySummary(t, x).rfc = t.rfc + One(x, "rfc error")
<1>0. PICK u : u = R!TallySummary(t, x)
  OBVIOUS
<1> SUFFICES /\ Adds(u) /\ u.stalls = t.stalls + One(x, "origin stall")
             /\ u.rfc = t.rfc + One(x, "rfc error")
  BY <1>0, Zenon
<1>1. CASE x = "origin stall"
  <2>1. PICK n, fs : n = t.stalls + 1 /\ u = [t EXCEPT !.stalls = n, !.findings = fs]
    BY <1>0, <1>1 DEF R!TallySummary, R!Statuses, R!Segments
  <2>2. One(x, "origin stall") = 1 /\ One(x, "rfc error") = 0
    BY <1>1 DEF One
  <2>3. u.stalls = n /\ u.rfc = t.rfc /\ u.breaches = t.breaches /\ DOMAIN u = DOMAIN t
    BY <2>1 DEF Adds
  <2>4. Adds(u)
    BY <2>1, <2>3 DEF Adds
  <2>5. t.stalls + 0 = t.stalls /\ t.rfc + 0 = t.rfc
    BY DEF Adds
  <2> QED
    BY <2>1, <2>2, <2>3, <2>4, <2>5, Zenon
<1>2. CASE x = "rfc error"
  <2>1. PICK n, fs : n = t.rfc + 1 /\ u = [t EXCEPT !.rfc = n, !.findings = fs]
    BY <1>0, <1>2 DEF R!TallySummary, R!Statuses, R!Segments
  <2>2. One(x, "origin stall") = 0 /\ One(x, "rfc error") = 1
    BY <1>2 DEF One
  <2>3. u.rfc = n /\ u.stalls = t.stalls /\ u.breaches = t.breaches /\ DOMAIN u = DOMAIN t
    BY <2>1 DEF Adds
  <2>4. Adds(u)
    BY <2>1, <2>3 DEF Adds
  <2>5. t.stalls + 0 = t.stalls /\ t.rfc + 0 = t.rfc
    BY DEF Adds
  <2> QED
    BY <2>1, <2>2, <2>3, <2>4, <2>5, Zenon
<1>3. CASE x # "origin stall" /\ x # "rfc error"
  <2>1. \/ \E v : u = [t EXCEPT !.score = v]
        \/ \E v : u = [t EXCEPT !.status = v]
        \/ \E v : u = [t EXCEPT !.segment = TRUE, !.http = v]
        \/ \E v : u = [t EXCEPT !.failures = v]
        \/ \E v : u = [t EXCEPT !.findings = v]
        \/ u = t
    BY <1>0, <1>3 DEF R!TallySummary, R!Statuses, R!Segments
  <2>2. One(x, "origin stall") = 0 /\ One(x, "rfc error") = 0
    BY <1>3 DEF One
  <2>3. u.rfc = t.rfc /\ u.stalls = t.stalls /\ u.breaches = t.breaches /\ DOMAIN u = DOMAIN t
    BY <2>1 DEF Adds
  <2>4. Adds(u)
    BY <2>3 DEF Adds
  <2>5. t.stalls + 0 = t.stalls /\ t.rfc + 0 = t.rfc
    BY DEF Adds
  <2> QED
    BY <2>2, <2>3, <2>4, <2>5, Zenon
<1> QED
  BY <1>1, <1>2, <1>3

LEMMA BudgetCounts ==
  ASSUME NEW t, Adds(t), NEW x \in Event
  PROVE  /\ Adds(R!TallyBudget(t, x))
         /\ \A e \in R!Breaching :
               Count(R!TallyBudget(t, x).breaches, e) = Count(t.breaches, e) + One(x, e)
<1>0. t.breaches \in Seq(Event)
  BY DEF Adds
<1>1. CASE x \in R!Breaching
  <2>1. R!TallyBudget(t, x) = [t EXCEPT !.breaches = Append(t.breaches, x)]
    BY <1>1 DEF R!TallyBudget
  <2>2. Append(t.breaches, x) \in Seq(Event)
    BY <1>0
  <2>3. Adds(R!TallyBudget(t, x)) /\ R!TallyBudget(t, x).breaches = Append(t.breaches, x)
    BY <2>1, <2>2 DEF Adds
  <2> QED
    BY <1>0, <2>3, CountAppend DEF One
<1>2. CASE x \notin R!Breaching
  <2>1. R!TallyBudget(t, x) = t
    BY <1>2 DEF R!TallyBudget
  <2>2. \A e \in R!Breaching : One(x, e) = 0 /\ Count(t.breaches, e) \in Nat
    BY <1>0, <1>2, WhereIsFinite DEF One
  <2> QED
    BY <2>1, <2>2
<1> QED
  BY <1>1, <1>2

LEMMA FoundIsNat ==
  ASSUME Books, NEW job \in Judging, NEW e \in FailingKinds(job)
  PROVE  Found(job, e) \in Nat
<1>1. tally.stalls \in Nat /\ tally.rfc \in Nat /\ Count(tally.breaches, e) \in Nat
  BY WhereIsFinite DEF Books, Adds
<1> QED
  BY <1>1 DEF Found, Count, Where

\* What is sent is made, and then in the queue or dropped; what is received
\* moves from the queue to the tally.
LEMMA BalancedStep ==
  ASSUME NEW job \in Judging, Books, Balanced(job), R!ReadingNext(job)
  PROVE  Books' /\ Balanced(job)'
<1> USE DEF Books
<1>0. FailingKinds(job) \subseteq R!Adverse
  BY KindsAreAdverse
<1>01. \A e \in FailingKinds(job) : Found(job, e) \in Nat
  BY FoundIsNat
<1>1. CASE R!StartPolling
  <2>1. script' \in Seq(Event)
    <3>0. "LIVE" \in Event /\ "failure" \in Event /\ "ERROR" \in Event /\ "end" \in Event
      BY DEF Event
    <3>1. <<"LIVE">> \in Seq(Event) /\ <<"failure", "ERROR", "end">> \in Seq(Event)
      <4>1. <<"LIVE">> \in Seq(Event)
        BY <3>0
      <4> QED
        BY <3>0, <4>1, ScriptOf, Zenon
    <3>2. PICK c \in Seq(Event) : script' = <<"LIVE">> \o c
      BY <1>1, <3>1, Scripts DEF R!StartPolling
    <3> QED
      BY <3>1, <3>2, ConcatProperties
  <2>2. UNCHANGED <<rqueue, dropped, tally, made>>
    BY <1>1 DEF R!StartPolling
  <2> QED
    BY <2>1, <2>2 DEF Balanced, Found
<1>2. CASE R!Poll
  <2>1. script' \in Seq(Event)
    BY <1>2, Scripts DEF R!Poll
  <2>2. UNCHANGED <<rqueue, dropped, tally, made>>
    BY <1>2 DEF R!Poll
  <2> QED
    BY <2>1, <2>2 DEF Balanced, Found
<1>3. CASE R!Emit(job)
  <2>1. PICK x \in Event : x = Head(script)
    BY <1>3 DEF R!Emit
  <2>2. script' \in Seq(Event)
    BY <1>3 DEF R!Emit
  <2>3. made' = R!Counted(job, made, x) /\ UNCHANGED tally
    BY <1>3, <2>1 DEF R!Emit
  <2>4. \/ rqueue' = Append(rqueue, x) /\ UNCHANGED dropped
        \/ dropped' = R!Counted(job, dropped, x) /\ UNCHANGED rqueue
    BY <1>3, <2>1 DEF R!Emit
  <2>5. rqueue' \in Seq(Event) /\ dropped' \in [R!Adverse -> Nat] /\ made' \in [R!Adverse -> Nat]
    <3>1. Append(rqueue, x) \in Seq(Event)
      BY AppendProperties
    <3>2. R!Counted(job, dropped, x) \in [R!Adverse -> Nat]
          /\ R!Counted(job, made, x) \in [R!Adverse -> Nat]
      BY CountedOne, Zenon
    <3> QED
      BY <2>3, <2>4, <3>1, <3>2, Zenon
  <2>6. ASSUME NEW e \in FailingKinds(job)
        PROVE  made'[e] = dropped'[e] + Count(rqueue', e) + Found(job, e)'
    <3>1. made[e] = dropped[e] + Count(rqueue, e) + Found(job, e)
          /\ made'[e] = made[e] + One(x, e) /\ Found(job, e)' = Found(job, e)
      BY <1>0, <2>3, CountedOne DEF Balanced, Found
    <3>2. dropped'[e] + Count(rqueue', e) = dropped[e] + Count(rqueue, e) + One(x, e)
      <4>1. CASE rqueue' = Append(rqueue, x) /\ UNCHANGED dropped
        <5>1. Count(rqueue', e) = Count(rqueue, e) + One(x, e)
          BY <4>1, CountAppend DEF One
        <5>2. Count(rqueue, e) \in Nat /\ dropped[e] \in Nat /\ One(x, e) \in Nat
          BY <1>0, WhereIsFinite DEF One
        <5> QED
          BY <4>1, <5>1, <5>2
      <4>2. CASE dropped' = R!Counted(job, dropped, x) /\ UNCHANGED rqueue
        <5>1. dropped'[e] = dropped[e] + One(x, e)
          BY <1>0, <4>2, CountedOne
        <5>2. Count(rqueue, e) \in Nat /\ dropped[e] \in Nat /\ One(x, e) \in Nat
          BY <1>0, WhereIsFinite DEF One
        <5> QED
          BY <4>2, <5>1, <5>2
      <4> QED
        BY <2>4, <4>1, <4>2
    <3>3. Found(job, e) \in Nat /\ One(x, e) \in Nat /\ dropped[e] \in Nat /\ Count(rqueue, e) \in Nat
      BY <1>0, <1>01, WhereIsFinite DEF One
    <3> QED
      BY <3>1, <3>2, <3>3
  <2> QED
    BY <2>2, <2>3, <2>5, <2>6 DEF Balanced
<1>4. CASE R!EndPolling \/ R!TimeIsUp
  <2>1. /\ script' = <<>> \/ script' = script
        /\ UNCHANGED <<rqueue, dropped, tally, made>>
    BY <1>4 DEF R!EndPolling, R!TimeIsUp
  <2>2. script' \in Seq(Event)
    <3>1. <<>> \in Seq(Event)
      OBVIOUS
    <3>2. CASE script' = <<>>
      BY <3>1, <3>2
    <3>3. CASE script' = script
      BY <3>3
    <3> QED
      BY <2>1, <3>2, <3>3
  <2> QED
    BY <2>1, <2>2 DEF Balanced, Found
<1>5. CASE R!Receive(job)
  <2>1. PICK x \in Event : x = Head(rqueue)
    BY <1>5 DEF R!Receive
  <2>2. /\ rqueue # <<>> /\ rqueue' = Tail(rqueue) /\ tally' = R!TallyOf(job, tally, x)
        /\ UNCHANGED <<script, dropped, made>>
    BY <1>5, <2>1 DEF R!Receive
  <2>3. rqueue' \in Seq(Event)
    BY <2>2
  <2>4. ASSUME NEW e \in FailingKinds(job)
        PROVE  Count(rqueue, e) = Count(rqueue', e) + One(x, e)
    BY <2>1, <2>2, CountTail DEF One
  <2>5. Adds(tally')
        /\ \A e \in FailingKinds(job) : Found(job, e)' = Found(job, e) + One(x, e)
    <3>1. CASE job = "summary"
      <4>1. tally' = R!TallySummary(tally, x)
        BY <2>2, <3>1 DEF R!TallyOf
      <4> QED
        BY <3>1, <4>1, SummaryCounts DEF Found, FailingKinds
    <3>2. CASE job = "budget"
      <4>1. tally' = R!TallyBudget(tally, x)
        BY <2>2, <3>2 DEF R!TallyOf
      <4>2. \A e \in FailingKinds(job) : e \in R!Breaching
               /\ Found(job, e) = Count(tally.breaches, e)
               /\ Found(job, e)' = Count(tally'.breaches, e)
        BY <3>2 DEF Found, FailingKinds, R!Breaching, Count, Where
      <4> QED
        BY <4>1, <4>2, BudgetCounts
    <3> QED
      BY <3>1, <3>2 DEF Judging
  <2>6. ASSUME NEW e \in FailingKinds(job)
        PROVE  made'[e] = dropped'[e] + Count(rqueue', e) + Found(job, e)'
    <3>1. made[e] = dropped[e] + Count(rqueue, e) + Found(job, e)
          /\ UNCHANGED <<made, dropped>>
      BY <2>2 DEF Balanced
    <3>2. /\ Found(job, e) \in Nat /\ One(x, e) \in Nat /\ dropped[e] \in Nat
          /\ Count(rqueue', e) \in Nat
      BY <1>0, <1>01, <2>3, WhereIsFinite DEF One
    <3> QED
      BY <2>4, <2>5, <3>1, <3>2
  <2> QED
    BY <2>2, <2>3, <2>5, <2>6 DEF Balanced
<1> QED
  BY <1>1, <1>2, <1>3, <1>4, <1>5 DEF R!ReadingNext, R!Poller

-----------------------------------------------------------------------------
(* The run within the program. *)
LEMMA SelectedStays == UNCHANGED cli => UNCHANGED Selected
<1> SUFFICES ASSUME UNCHANGED cli PROVE UNCHANGED Selected
  OBVIOUS
<1>0. UNCHANGED Plan
  BY Zenon DEF Plan
<1>1. ASSUME NEW f PROVE UNCHANGED Has(f)
  BY DEF Has
<1>2. ASSUME NEW f PROVE UNCHANGED Wants(f)
  BY <1>0 DEF Wants
<1>3. ASSUME NEW f PROVE UNCHANGED Screen(f)
  BY DEF Screen
<1>4. UNCHANGED ForList
  BY <1>1, <1>2, <1>3 DEF ForList
<1>5. UNCHANGED ForStream
  BY <1>0, <1>1, <1>2, <1>3 DEF ForStream
<1>6. UNCHANGED ForInput
  BY <1>4, <1>5 DEF ForInput
<1>7. UNCHANGED Branches
  BY <1>0, <1>1, <1>2, <1>3, <1>6 DEF Branches
<1>8. UNCHANGED MainRun
  BY <1>7 DEF MainRun
<1> QED
  BY <1>8 DEF Selected, CheckRun

LEMMA CliStays == [Next]_vars => UNCHANGED cli
<1> SUFFICES ASSUME [Next]_vars PROVE UNCHANGED cli
  OBVIOUS
<1>1. ASSUME NEW run, Own(run) PROVE UNCHANGED cli
  BY <1>1 DEF Own, ownVars
<1>2. ASSUME NEW run, NEW code, Over(run, code) PROVE UNCHANGED cli
  BY <1>2 DEF Over
<1>3. CASE Dispatch
  BY <1>3 DEF Dispatch
<1>4. CASE Auditing \/ Crawling \/ Measuring \/ Comparing
  BY <1>1, <1>2, <1>4 DEF Auditing, Crawling, Measuring, Comparing
<1>5. CASE Exporting
  BY <1>1, <1>2, <1>5 DEF Exporting, Capture, WriteExport, ExportFails
<1>6. CASE MultiCdn \/ Agent \/ Whep \/ Elsewhere
  BY <1>1, <1>2, <1>6 DEF MultiCdn, Agent, Whep, Elsewhere
<1>7. CASE UNCHANGED vars
  BY <1>7 DEF vars, ownVars
<1> QED
  BY <1>3, <1>4, <1>5, <1>6, <1>7 DEF Next

Verdict(job) == IF R!Passes(job, tally) THEN "0" ELSE "1"

\* While a judging run is selected nothing else happens.
LEMMA OnlyMeasuring ==
  ASSUME NEW job \in Judging, Selected = job, phase \in {"starting", job, "over"}, [Next]_vars
  PROVE  /\ UNCHANGED cli
         /\ \/ UNCHANGED <<readingVars, phase, exit>>
            \/ phase = "starting" /\ phase' = job /\ UNCHANGED <<readingVars, exit>>
            \/ phase = job /\ R!ReadingNext(job) /\ UNCHANGED <<phase, exit>>
            \/ phase = job /\ phase' = "over" /\ exit' \in {Verdict(job), "error"}
               /\ UNCHANGED readingVars
<1>0. job \in {"summary", "budget"}
  BY DEF Judging
<1>1. CASE Dispatch
  BY <1>0, <1>1 DEF Dispatch, End
<1>2. ASSUME NEW run \in {"audit", "check", "vod", "export", "compare", "multi-cdn", "matrix",
                          "agent", "whep", "exporter", "picker", "dashboard"}
      PROVE  phase # run
  BY <1>0, <1>2
<1>3. CASE Auditing
  BY <1>2, <1>3 DEF Auditing, Own, Over
<1>4. CASE Crawling
  BY <1>2, <1>4 DEF Crawling, Own, Over
<1>5. CASE Measuring
  BY <1>0, <1>5 DEF Measuring, Own, Over, End, ownVars, Verdict
<1>6. CASE Exporting
  BY <1>2, <1>6 DEF Exporting, Capture, WriteExport, ExportFails, Own, Over
<1>7. CASE Comparing
  BY <1>2, <1>7 DEF Comparing, Own, Over
<1>8. CASE MultiCdn
  BY <1>2, <1>8 DEF MultiCdn, Own, Over
<1>9. CASE Agent
  BY <1>2, <1>9 DEF Agent, Own, Over
<1>10. CASE Whep \/ Elsewhere
  BY <1>2, <1>10 DEF Whep, Elsewhere, Over
<1>11. CASE UNCHANGED vars
  BY <1>11 DEF vars, ownVars, readingVars
<1> QED
  BY <1>1, <1>3, <1>4, <1>5, <1>6, <1>7, <1>8, <1>9, <1>10, <1>11 DEF Next

ReadingInv ==
  \A job \in Judging : Selected = job =>
    /\ phase \in {"starting", job, "over"}
    /\ Books /\ Balanced(job)
    /\ exit = "0" => phase = "over" /\ R!Passes(job, tally)

LEMMA ReadingInvInit == Init => ReadingInv
<1> SUFFICES ASSUME Init, NEW job \in Judging
             PROVE  /\ phase \in {"starting", job, "over"} /\ exit # "0"
                    /\ Books /\ Balanced(job)
  BY DEF ReadingInv
<1>1. /\ phase = "starting" /\ exit = "none" /\ script = <<>> /\ rqueue = <<>>
      /\ made = R!None /\ dropped = R!None /\ tally = R!NoTally
  BY DEF Init, R!ReadingInit
<1>2. Books
  <2>1. <<>> \in Seq(Event)
    OBVIOUS
  <2>2. R!None \in [R!Adverse -> Nat]
    BY DEF R!None
  <2>3. Adds(R!NoTally)
    BY <2>1 DEF Adds, R!NoTally
  <2> QED
    BY <1>1, <2>1, <2>2, <2>3 DEF Books
<1>3. Balanced(job)
  <2>1. ASSUME NEW e \in FailingKinds(job) PROVE Found(job, e) = 0
    <3>1. tally.stalls = 0 /\ tally.rfc = 0 /\ tally.breaches = <<>>
      BY <1>1 DEF R!NoTally
    <3>2. Count(tally.breaches, e) = 0
      BY <3>1, CountEmpty
    <3> QED
      BY <3>1, <3>2 DEF Found, Count, Where
  <2> QED
    BY <1>1, <2>1, CountEmpty, KindsAreAdverse DEF Balanced, R!None
<1> QED
  BY <1>1, <1>2, <1>3

LEMMA ReadingInvStep == ReadingInv /\ [Next]_vars => ReadingInv'
<1> SUFFICES ASSUME ReadingInv, [Next]_vars, NEW job \in Judging, Selected' = job
             PROVE  (/\ phase \in {"starting", job, "over"}
                     /\ Books /\ Balanced(job)
                     /\ exit = "0" => phase = "over" /\ R!Passes(job, tally))'
  BY DEF ReadingInv
<1>0. UNCHANGED cli
  BY CliStays
<1>1. Selected = job
  BY <1>0, SelectedStays
<1>2. /\ phase \in {"starting", job, "over"} /\ Books /\ Balanced(job)
      /\ exit = "0" => phase = "over" /\ R!Passes(job, tally)
  BY <1>1 DEF ReadingInv
<1>3. job # "starting" /\ job # "over"
  BY DEF Judging
<1>4. ASSUME UNCHANGED readingVars
      PROVE  Books' /\ Balanced(job)' /\ R!Passes(job, tally)' = R!Passes(job, tally)
  BY <1>2, <1>4 DEF readingVars, Books, Balanced, Found
<1>5. CASE UNCHANGED <<readingVars, phase, exit>>
  BY <1>2, <1>4, <1>5
<1>6. CASE phase = "starting" /\ phase' = job /\ UNCHANGED <<readingVars, exit>>
  BY <1>2, <1>3, <1>4, <1>6
<1>7. CASE phase = job /\ R!ReadingNext(job) /\ UNCHANGED <<phase, exit>>
  BY <1>2, <1>3, <1>7, BalancedStep
<1>8. CASE phase = job /\ phase' = "over" /\ exit' \in {Verdict(job), "error"}
           /\ UNCHANGED readingVars
  BY <1>2, <1>4, <1>8 DEF Verdict
<1> QED
  BY <1>1, <1>2, <1>5, <1>6, <1>7, <1>8, OnlyMeasuring

\* What a summary or a budget was sent and counts against the stream is in its
\* tally, unless the full queue refused it or the time was up before it was
\* read, and a run that exits with success has none of it in its tally
\* (run_summary, run_budget, SummaryReport::exit_code).
THEOREM PassEarned == Spec => []PassIsEarned
<1>1. ReadingInv => PassIsEarned
  <2> SUFFICES ASSUME ReadingInv, NEW job \in Judging, Selected = job
               PROVE  /\ \A e \in FailingKinds(job) :
                           made[e] = dropped[e] + Waiting(e) + Found(job, e)
                      /\ exit = "0" => \A e \in FailingKinds(job) : Found(job, e) = 0
    BY DEF PassIsEarned, Judging
  <2>1. Books /\ Balanced(job) /\ (exit = "0" => R!Passes(job, tally))
    BY DEF ReadingInv
  <2>2. \A e \in FailingKinds(job) : made[e] = dropped[e] + Waiting(e) + Found(job, e)
    BY <2>1 DEF Balanced, Waiting, Count, Where
  <2>3. ASSUME exit = "0", NEW e \in FailingKinds(job)
        PROVE  Found(job, e) = 0
    <3>1. CASE job = "summary"
      BY <2>1, <2>3, <3>1 DEF R!Passes, R!SummaryPasses, FailingKinds, Found
    <3>2. CASE job = "budget"
      <4>1. tally.breaches = <<>>
        BY <2>1, <2>3, <3>2 DEF R!Passes, R!BudgetPasses
      <4>2. Count(tally.breaches, e) = 0
        BY <4>1, CountEmpty
      <4> QED
        BY <3>2, <4>2 DEF FailingKinds, Found, Count, Where
    <3> QED
      BY <3>1, <3>2 DEF Judging
  <2> QED
    BY <2>2, <2>3
<1> QED
  BY ReadingInvInit, ReadingInvStep, <1>1, PTL DEF Spec
-----------------------------------------------------------------------------
(* The export plan.                                                        *)
LEMMA SomePlaces ==
  ASSUME NEW n \in Nat, NEW places \in SUBSET (1 .. n)
  PROVE  IsFiniteSet(places) /\ Cardinality(places) \in Nat
<1>1. IsFiniteSet(1 .. n)
  <2>1. 1 \in Int /\ n \in Int
    OBVIOUS
  <2> QED
    BY <2>1, FS_Interval
<1> QED
  BY <1>1, FS_Subset, FS_CardinalityType

LEMMA PlacesOfAList ==
  ASSUME NEW n \in Nat, NEW places \in SUBSET (1 .. n), NEW list
  PROVE  /\ Cardinality(places) \in Nat
         /\ DOMAIN At(list, places) = 1 .. Cardinality(places)
         /\ \E S : At(list, places) \in Seq(S)
<1>1. Cardinality(places) \in Nat
  BY SomePlaces
<1>2. DOMAIN At(list, places) = 1 .. Cardinality(places)
  BY DEF At
<1>3. PICK e : e = At(list, places)
  OBVIOUS
<1>4. e = [i \in 1 .. Cardinality(places) |-> e[i]]
  BY <1>3 DEF At
<1>5. PICK S : S = {e[i] : i \in 1 .. Cardinality(places)}
  OBVIOUS
<1>6. e \in [1 .. Cardinality(places) -> S]
  BY <1>4, <1>5
<1>7. e \in Seq(S)
  BY <1>1, <1>6
<1> QED
  BY <1>1, <1>2, <1>3, <1>7

LEMMA PendingIsAList == cli \in AllInvocations => \E S : Pending \in Seq(S)
<1> SUFFICES ASSUME cli \in AllInvocations PROVE \E S : Pending \in Seq(S)
  OBVIOUS
<1>1. cli.exports \in Seq(Formats)
  BY DEF AllInvocations
<1>2. Len(cli.exports) \in Nat /\ DOMAIN cli.exports = 1 .. Len(cli.exports)
  BY <1>1
<1>3. PICK m \in Nat : DOMAIN Plan = 1 .. m
  <2> DEFINE first == {i \in DOMAIN cli.exports :
                          \A j \in 1 .. i - 1 : cli.exports[j] # cli.exports[i]}
  <2>1. first \in SUBSET (1 .. Len(cli.exports)) /\ Plan = At(cli.exports, first)
    BY <1>2 DEF Plan, PlanOf
  <2> HIDE DEF first
  <2> QED
    BY <1>2, <2>1, PlacesOfAList
<1> DEFINE rest == {i \in DOMAIN Plan : Plan[i] # "grafana"}
<1>4. rest \in SUBSET (1 .. m) /\ Pending = At(Plan, rest)
  BY <1>3 DEF Pending
<1> HIDE DEF rest
<1> QED
  BY <1>4, PlacesOfAList

\* While the export plan is selected nothing else happens.
LEMMA OnlyExporting ==
  ASSUME Selected = "export", phase \in {"starting", "export", "over"}, [Next]_vars
  PROVE  \/ UNCHANGED <<written, phase, exit>>
         \/ phase = "starting" /\ phase' = "export" /\ UNCHANGED written
         \/ /\ phase = "export" /\ More /\ written' = Append(written, Next_)
            /\ UNCHANGED phase
         \/ /\ phase = "export" /\ phase' = "over" /\ UNCHANGED written
            /\ exit' = "0" <=> ~More
<1>1. CASE Dispatch
  BY <1>1 DEF Dispatch
<1>2. ASSUME NEW run \in {"audit", "check", "vod", "summary", "budget", "compare", "multi-cdn",
                          "matrix", "agent", "whep", "exporter", "picker", "dashboard"}
      PROVE  phase # run
  BY <1>2
<1>3. CASE Auditing
  BY <1>2, <1>3 DEF Auditing, Own, Over
<1>4. CASE Crawling
  BY <1>2, <1>4 DEF Crawling, Own, Over
<1>5. CASE Measuring
  BY <1>2, <1>5 DEF Measuring, Own, Over
<1>6. CASE Exporting
  <2>1. CASE Capture
    BY <2>1 DEF Capture, Own, ownVars
  <2>2. CASE WriteExport
    BY <2>2 DEF WriteExport
  <2>3. CASE ExportFails
    BY <2>3 DEF ExportFails, Over, End
  <2>4. CASE ~More /\ Over("export", "0")
    BY <2>4 DEF Over, End
  <2> QED
    BY <1>6, <2>1, <2>2, <2>3, <2>4 DEF Exporting
<1>7. CASE Comparing
  BY <1>2, <1>7 DEF Comparing, Own, Over
<1>8. CASE MultiCdn
  BY <1>2, <1>8 DEF MultiCdn, Own, Over
<1>9. CASE Agent
  BY <1>2, <1>9 DEF Agent, Own, Over
<1>10. CASE Whep \/ Elsewhere
  BY <1>2, <1>10 DEF Whep, Elsewhere, Over
<1>11. CASE UNCHANGED vars
  BY <1>11 DEF vars, ownVars
<1> QED
  BY <1>1, <1>3, <1>4, <1>5, <1>6, <1>7, <1>8, <1>9, <1>10, <1>11 DEF Next

Begins(p, q) ==
  /\ Len(p) \in 0 .. Len(q) /\ DOMAIN p = 1 .. Len(p)
  /\ \A i \in 1 .. Len(p) : p[i] = q[i]

\* What is written is the beginning of the plan, all of it in the end if and
\* only if the run succeeds.
ExportInv ==
  /\ cli \in AllInvocations
  /\ Selected = "export" =>
       /\ phase \in {"starting", "export", "over"}
       /\ \E S : written \in Seq(S) /\ Pending \in Seq(S)
       /\ Begins(written, Pending)
       /\ phase = "over" => (exit = "0" <=> ~More)

LEMMA ExportInvInit == Init => ExportInv
<1> SUFFICES ASSUME Init PROVE ExportInv
  OBVIOUS
<1>1. cli \in AllInvocations /\ phase = "starting" /\ written = <<>>
  BY InvocationsParse DEF Init
<1>2. PICK S : Pending \in Seq(S)
  BY <1>1, PendingIsAList
<1>3. written \in Seq(S) /\ Begins(written, Pending)
  BY <1>1, <1>2 DEF Begins
<1> QED
  BY <1>1, <1>2, <1>3 DEF ExportInv

LEMMA ExportInvStep == ExportInv /\ [Next]_vars => ExportInv'
<1> SUFFICES ASSUME ExportInv, [Next]_vars PROVE ExportInv'
  OBVIOUS
<1>1. UNCHANGED cli
  BY CliStays
<1>2. UNCHANGED Selected
  BY <1>1, SelectedStays
<1>3. UNCHANGED Pending
  <2>1. UNCHANGED Plan
    BY <1>1, Zenon DEF Plan
  <2> QED
    BY <2>1, Zenon DEF Pending
<1> SUFFICES ASSUME Selected = "export"
             PROVE  /\ phase' \in {"starting", "export", "over"}
                    /\ \E S : written' \in Seq(S) /\ Pending \in Seq(S)
                    /\ Begins(written', Pending)
                    /\ phase' = "over" => (exit' = "0" <=> Len(written') >= Len(Pending))
  <2>1. cli' \in AllInvocations
    BY <1>1 DEF ExportInv
  <2>2. CASE Selected # "export"
    BY <1>2, <2>1, <2>2 DEF ExportInv
  <2>3. CASE Selected = "export"
    <3>1. /\ phase' \in {"starting", "export", "over"}
          /\ \E S : written' \in Seq(S) /\ Pending \in Seq(S)
          /\ Begins(written', Pending)
          /\ phase' = "over" => (exit' = "0" <=> Len(written') >= Len(Pending))
      BY <2>3
    <3>2. More' <=> Len(written') < Len(Pending)
      BY <1>3 DEF More
    <3>3. Len(written') \in Nat /\ Len(Pending) \in Nat
      BY <3>1
    <3>4. ~More' <=> Len(written') >= Len(Pending)
      BY <3>2, <3>3
    <3>5. (\E S : written \in Seq(S) /\ Pending \in Seq(S))'
      BY <1>3, <3>1
    <3>6. Begins(written, Pending)'
      BY <1>3, <3>1 DEF Begins
    <3> QED
      BY <2>1, <3>1, <3>4, <3>5, <3>6 DEF ExportInv
  <2> QED
    BY <2>2, <2>3
<1>4. /\ phase \in {"starting", "export", "over"}
      /\ Begins(written, Pending)
      /\ phase = "over" => (exit = "0" <=> ~More)
  BY DEF ExportInv
<1>5. PICK S : written \in Seq(S) /\ Pending \in Seq(S)
  BY DEF ExportInv
<1>6. Len(written) \in Nat /\ Len(Pending) \in Nat /\ (~More <=> Len(written) >= Len(Pending))
  BY <1>5 DEF More
<1>7. CASE UNCHANGED <<written, phase, exit>>
  BY <1>4, <1>5, <1>6, <1>7
<1>8. CASE phase = "starting" /\ phase' = "export" /\ UNCHANGED written
  BY <1>4, <1>5, <1>8
<1>9. CASE phase = "export" /\ More /\ written' = Append(written, Next_) /\ UNCHANGED phase
  <2>1. Len(written) + 1 \in 1 .. Len(Pending)
    BY <1>6, <1>9
  <2>2. Next_ = Pending[Len(written) + 1] /\ Next_ \in S
    BY <1>5, <2>1 DEF Next_
  <2>3. /\ written' \in Seq(S) /\ Len(written') = Len(written) + 1
        /\ \A i \in 1 .. Len(written) : written'[i] = written[i]
        /\ written'[Len(written) + 1] = Next_
    BY <1>5, <1>9, <2>2
  <2>4. DOMAIN written' = 1 .. Len(written')
    BY <2>3
  <2>5. \A i \in 1 .. Len(written') : i \in 1 .. Len(written) \/ i = Len(written) + 1
    BY <1>6, <2>3
  <2>6. Begins(written', Pending)
    BY <1>4, <2>1, <2>2, <2>3, <2>4, <2>5 DEF Begins
  <2> QED
    BY <1>5, <1>9, <2>3, <2>6
<1>10. CASE phase = "export" /\ phase' = "over" /\ UNCHANGED written /\ (exit' = "0" <=> ~More)
  BY <1>4, <1>5, <1>6, <1>10
<1> QED
  BY <1>4, <1>7, <1>8, <1>9, <1>10, OnlyExporting

\* Whatever the command line asks to export is written in its order, and the
\* program succeeds exactly when the whole plan was written
\* (execute_export_plan, ExportPlan::push).
THEOREM ExportsKeepTheirOrder == Spec => []ExportsInOrder
<1>1. ExportInv => ExportsInOrder
  <2> SUFFICES ASSUME ExportInv, Selected = "export"
               PROVE  /\ IsPrefix(written, Pending)
                      /\ phase = "over" => (exit = "0" <=> written = Pending)
    BY DEF ExportsInOrder
  <2>1. Begins(written, Pending) /\ (phase = "over" => (exit = "0" <=> ~More))
    BY DEF ExportInv
  <2>2. PICK S : written \in Seq(S) /\ Pending \in Seq(S)
    BY DEF ExportInv
  <2>3. /\ Len(written) \in Nat /\ Len(Pending) \in Nat /\ Len(written) <= Len(Pending)
        /\ \A i \in 1 .. Len(written) : written[i] = Pending[i]
    BY <2>1, <2>2 DEF Begins
  <2>4. IsPrefix(written, Pending)
    <3>1. SubSeq(written, 1, Len(written)) = SubSeq(Pending, 1, Len(written))
      BY <2>2, <2>3
    <3> QED
      BY <2>2, <2>3, <3>1 DEF IsPrefix
  <2>5. ~More <=> written = Pending
    <3>1. CASE More
      BY <2>2, <2>3, <3>1 DEF More
    <3>2. CASE ~More
      <4>1. Len(written) = Len(Pending)
        BY <2>3, <3>2 DEF More
      <4> QED
        BY <2>2, <2>3, <3>2, <4>1, SeqEqual
    <3> QED
      BY <3>1, <3>2
  <2> QED
    BY <2>1, <2>4, <2>5
<1> QED
  BY ExportInvInit, ExportInvStep, <1>1, PTL DEF Spec
-----------------------------------------------------------------------------
(* The crawl of an on-demand asset.                                        *)

LEMMA CrawlCounts == ASSUME NEW S PROVE V!Cardinality(S) = Cardinality(S)
BY DEF V!Cardinality, Cardinality

\* A total of the penalties never takes a score below nothing.
LEMMA ScoreIsNat ==
  ASSUME NEW t \in V!AllTrees
  PROVE  V!Validated(t).score \in Nat /\ V!Validated(t).errors \in Nat
<1>1. t.warnings \in Nat /\ t.penalty \in Nat
  BY DEF V!AllTrees
<1>2. ASSUME NEW a \in Nat, NEW b \in Nat PROVE V!Sub(a, b) \in Nat
  BY <1>2 DEF V!Sub
<1>3. PICK p \in Nat : p = IF t.penalty > 10 THEN 10 ELSE t.penalty
  BY <1>1
<1>4. t.warnings * p \in Nat
  BY <1>1, <1>3
<1>5. V!LadderScore(t) \in Nat
  BY <1>2, <1>3, <1>4 DEF V!LadderScore
<1> QED
  BY <1>5 DEF V!Validated

\* A crawl that looked at every url passes if and only if each answered and
\* the ladder is good enough, whichever answered first.
LEMMA VerdictOfAnswers ==
  ASSUME NEW t \in V!AllTrees, NEW order \in Seq(DOMAIN t.probes),
         ToSet(order) = DOMAIN t.probes
  PROVE  V!VodPasses(V!Collected(t, order)) <=>
            /\ t.probes # <<>>
            /\ \A u \in DOMAIN t.probes : t.probes[u] # "failed"
            /\ V!Validated(t).score >= 70
<1> DEFINE answers == {i \in DOMAIN order : t.probes[order[i]] # "failed"}
           lost == DOMAIN order \ answers
           failed == Cardinality(lost)
<1>1. /\ V!Collected(t, order).saw <=> answers # {}
      /\ V!Collected(t, order).errors = V!Validated(t).errors + failed
      /\ V!Collected(t, order).score = V!Sub(V!Validated(t).score, failed * V!ProbePenalty(t))
  BY CrawlCounts DEF V!Collected
<1>2. /\ DOMAIN order = 1 .. Len(order) /\ Len(order) \in Nat
      /\ \A u \in DOMAIN t.probes : \E i \in DOMAIN order : order[i] = u
      /\ \A i \in DOMAIN order : order[i] \in DOMAIN t.probes
  BY DEF ToSet
<1>3. IsFiniteSet(lost) /\ failed \in Nat
  <2>1. lost \in SUBSET (1 .. Len(order))
    BY <1>2
  <2> HIDE DEF lost
  <2> QED
    BY <1>2, <2>1, SomePlaces
<1>4. failed = 0 <=> lost = {}
  <2> HIDE DEF lost
  <2> QED
    BY <1>3, FS_EmptySet
<1>5. lost = {} <=> \A u \in DOMAIN t.probes : t.probes[u] # "failed"
  BY <1>2
<1>6. V!Validated(t).errors = 0 <=> t.probes # <<>>
  BY DEF V!Validated
<1>7. V!Validated(t).score \in Nat /\ V!Validated(t).errors \in Nat
  BY ScoreIsNat
<1>8. t.probes \in Seq(V!Cdns \union {"failed"})
  BY DEF V!AllTrees
<1>9. lost = {} /\ t.probes # <<>> => answers # {}
  BY <1>2, <1>8
<1>10. V!Collected(t, order).errors = 0 <=> V!Validated(t).errors = 0 /\ failed = 0
  BY <1>1, <1>3, <1>7
<1>11. failed = 0 => V!Collected(t, order).score = V!Validated(t).score
  <2>1. V!ProbePenalty(t) \in Nat
    BY DEF V!ProbePenalty
  <2> HIDE DEF failed
  <2>2. failed = 0 => failed * V!ProbePenalty(t) = 0
    BY <2>1
  <2> QED
    BY <1>1, <1>7, <2>2 DEF V!Sub
<1> HIDE DEF answers, lost, failed
<1> QED
  BY <1>1, <1>4, <1>5, <1>6, <1>9, <1>10, <1>11 DEF V!VodPasses

\* What the crawl has found, and that the verdict is made of all of it.
CrawlInv ==
  Selected = "vod" =>
    /\ phase \in {"starting", "vod", "over"}
    /\ tree \in V!AllTrees
    /\ answered \in Seq(DOMAIN tree.probes)
    /\ crawled => tree.kind \in {"ladder", "media"}
    /\ \/ crawl = V!NoCrawl
       \/ ~crawled /\ crawl.exit = "error" /\ tree.kind \notin {"ladder", "media"}
       \/ /\ crawled /\ ToSet(answered) = DOMAIN tree.probes
          /\ crawl.exit = IF V!VodPasses(V!Collected(tree, answered)) THEN "0" ELSE "1"
    /\ phase = "over" => crawl # V!NoCrawl /\ exit = crawl.exit

\* While the crawl is selected nothing else happens.
LEMMA OnlyCrawling ==
  ASSUME Selected = "vod", phase \in {"starting", "vod", "over"}, [Next]_vars
  PROVE  \/ UNCHANGED <<vodVars, phase, exit>>
         \/ phase = "starting" /\ phase' = "vod" /\ UNCHANGED vodVars
         \/ phase = "vod" /\ V!VodNext /\ UNCHANGED phase
         \/ /\ phase = "vod" /\ crawl # V!NoCrawl /\ phase' = "over" /\ exit' = crawl.exit
            /\ UNCHANGED vodVars
<1>1. CASE Dispatch
  BY <1>1 DEF Dispatch
<1>2. ASSUME NEW run \in {"audit", "check", "export", "summary", "budget", "compare",
                          "multi-cdn", "matrix", "agent", "whep", "exporter", "picker",
                          "dashboard"}
      PROVE  phase # run
  BY <1>2
<1>3. CASE Auditing
  BY <1>2, <1>3 DEF Auditing, Own, Over
<1>4. CASE Crawling
  BY <1>4 DEF Crawling, Own, Over, End, ownVars
<1>5. CASE Measuring
  BY <1>2, <1>5 DEF Measuring, Own, Over
<1>6. CASE Exporting
  BY <1>2, <1>6 DEF Exporting, Capture, WriteExport, ExportFails, Own, Over
<1>7. CASE Comparing
  BY <1>2, <1>7 DEF Comparing, Own, Over
<1>8. CASE MultiCdn
  BY <1>2, <1>8 DEF MultiCdn, Own, Over
<1>9. CASE Agent
  BY <1>2, <1>9 DEF Agent, Own, Over
<1>10. CASE Whep \/ Elsewhere
  BY <1>2, <1>10 DEF Whep, Elsewhere, Over
<1>11. CASE UNCHANGED vars
  BY <1>11 DEF vars, ownVars, vodVars
<1> QED
  BY <1>1, <1>3, <1>4, <1>5, <1>6, <1>7, <1>8, <1>9, <1>10, <1>11 DEF Next

LEMMA CrawlInvInit == Init => CrawlInv
<1> SUFFICES ASSUME Init, Selected = "vod"
             PROVE  /\ phase = "starting" /\ tree \in V!AllTrees
                    /\ answered = <<>> /\ ~crawled /\ crawl = V!NoCrawl
  BY DEF CrawlInv
<1>1. phase = "starting" /\ V!VodInit(Trees)
  BY DEF Init, TreesFor
<1> QED
  BY <1>1, TreesAreAssets DEF V!VodInit

LEMMA CrawlInvStep == CrawlInv /\ [Next]_vars => CrawlInv'
<1>1. ASSUME UNCHANGED vodVars
      PROVE  /\ UNCHANGED <<tree, crawled, answered, crawl, V!NoCrawl>>
             /\ UNCHANGED V!VodPasses(V!Collected(tree, answered))
  BY <1>1, Zenon DEF vodVars
<1> SUFFICES ASSUME CrawlInv, [Next]_vars, Selected' = "vod"
             PROVE  (/\ phase \in {"starting", "vod", "over"}
                     /\ tree \in V!AllTrees
                     /\ answered \in Seq(DOMAIN tree.probes)
                     /\ crawled => tree.kind \in {"ladder", "media"}
                     /\ \/ crawl = V!NoCrawl
                        \/ /\ ~crawled /\ crawl.exit = "error"
                           /\ tree.kind \notin {"ladder", "media"}
                        \/ /\ crawled /\ ToSet(answered) = DOMAIN tree.probes
                           /\ crawl.exit = IF V!VodPasses(V!Collected(tree, answered))
                                           THEN "0" ELSE "1"
                     /\ phase = "over" => crawl # V!NoCrawl /\ exit = crawl.exit)'
  BY DEF CrawlInv
<1>2. Selected = "vod"
  BY CliStays, SelectedStays
<1>3. /\ phase \in {"starting", "vod", "over"}
      /\ tree \in V!AllTrees
      /\ answered \in Seq(DOMAIN tree.probes)
      /\ crawled => tree.kind \in {"ladder", "media"}
      /\ \/ crawl = V!NoCrawl
         \/ ~crawled /\ crawl.exit = "error" /\ tree.kind \notin {"ladder", "media"}
         \/ /\ crawled /\ ToSet(answered) = DOMAIN tree.probes
            /\ crawl.exit = IF V!VodPasses(V!Collected(tree, answered)) THEN "0" ELSE "1"
      /\ phase = "over" => crawl # V!NoCrawl /\ exit = crawl.exit
  BY <1>2 DEF CrawlInv
<1>4. CASE UNCHANGED <<vodVars, phase, exit>>
  BY <1>1, <1>3, <1>4
<1>5. CASE phase = "starting" /\ phase' = "vod" /\ UNCHANGED vodVars
  BY <1>1, <1>3, <1>5
<1>6. CASE /\ phase = "vod" /\ crawl # V!NoCrawl /\ phase' = "over" /\ exit' = crawl.exit
           /\ UNCHANGED vodVars
  BY <1>1, <1>3, <1>6
<1>7. CASE phase = "vod" /\ V!VodNext /\ UNCHANGED phase
  <2>1. CASE V!Crawl
    <3>1. CASE tree.kind \in {"unreachable", "garbled"}
      BY <1>3, <1>7, <2>1, <3>1 DEF V!Crawl, V!NoCrawl
    <3>2. CASE tree.kind \notin {"unreachable", "garbled"}
      <4>1. tree.kind \in {"ladder", "media"}
        BY <1>3, <3>2 DEF V!AllTrees
      <4> QED
        BY <1>3, <1>7, <2>1, <3>2, <4>1 DEF V!Crawl
    <3> QED
      BY <3>1, <3>2
  <2>2. ASSUME NEW url \in V!Urls, V!ProbeAnswers(url)
        PROVE  /\ UNCHANGED <<tree, crawled, crawl>> /\ crawled
               /\ crawl = V!NoCrawl
               /\ answered' \in Seq(DOMAIN tree.probes)
    <3>1. answered' = Append(answered, url) /\ url \in DOMAIN tree.probes
          /\ UNCHANGED <<tree, crawled, crawl>> /\ crawled /\ url \notin ToSet(answered)
      BY <2>2 DEF V!ProbeAnswers, V!Urls, V!ToSet, ToSet
    <3>2. crawl = V!NoCrawl
      BY <1>3, <3>1
    <3>3. Append(answered, url) \in Seq(DOMAIN tree.probes)
      BY <1>3, <3>1, AppendProperties
    <3> QED
      BY <3>1, <3>2, <3>3
  <2>3. CASE \E url \in V!Urls : V!ProbeAnswers(url)
    <3>1. UNCHANGED V!NoCrawl
      BY DEF V!NoCrawl
    <3> QED
      BY <1>3, <1>7, <2>2, <2>3, <3>1
  <2>4. CASE V!Conclude
    <3>1. /\ UNCHANGED <<tree, crawled, answered>> /\ crawled
          /\ ToSet(answered) = DOMAIN tree.probes
          /\ crawl'.exit = IF V!VodPasses(V!Collected(tree, answered)) THEN "0" ELSE "1"
      BY <2>4 DEF V!Conclude, V!Urls, V!ToSet, ToSet
    <3>2. UNCHANGED V!VodPasses(V!Collected(tree, answered))
      BY <3>1, Zenon
    <3> QED
      BY <1>3, <1>7, <3>1, <3>2
  <2> QED
    BY <1>7, <2>1, <2>3, <2>4 DEF V!VodNext
<1> QED
  BY <1>2, <1>3, <1>4, <1>5, <1>6, <1>7, OnlyCrawling

\* A crawl succeeds exactly on the assets it should, in whatever order the
\* probes of their variants answer (run_vod, probe_urls).
THEOREM CrawlJudges == Spec => []CrawlIsSound
<1>1. CrawlInv => CrawlIsSound
  <2> SUFFICES ASSUME CrawlInv, Selected = "vod", phase = "over"
               PROVE  exit = "0" <=>
                        /\ tree.kind \in {"ladder", "media"} /\ tree.probes # <<>>
                        /\ \A u \in DOMAIN tree.probes : tree.probes[u] # "failed"
                        /\ V!Validated(tree).score >= 70
    BY DEF CrawlIsSound
  <2>1. /\ tree \in V!AllTrees
        /\ answered \in Seq(DOMAIN tree.probes)
        /\ crawled => tree.kind \in {"ladder", "media"}
        /\ \/ ~crawled /\ crawl.exit = "error" /\ tree.kind \notin {"ladder", "media"}
           \/ /\ crawled /\ ToSet(answered) = DOMAIN tree.probes
              /\ crawl.exit = IF V!VodPasses(V!Collected(tree, answered)) THEN "0" ELSE "1"
        /\ exit = crawl.exit
    BY DEF CrawlInv
  <2>2. CASE ~crawled /\ crawl.exit = "error" /\ tree.kind \notin {"ladder", "media"}
    BY <2>1, <2>2
  <2>3. CASE /\ crawled /\ ToSet(answered) = DOMAIN tree.probes
             /\ crawl.exit = IF V!VodPasses(V!Collected(tree, answered)) THEN "0" ELSE "1"
    BY <2>1, <2>3, VerdictOfAnswers
  <2> QED
    BY <2>1, <2>2, <2>3
<1> QED
  BY CrawlInvInit, CrawlInvStep, <1>1, PTL DEF Spec
-----------------------------------------------------------------------------
(* The audit of a lineup.                                                  *)
LEMMA AuditCounts == ASSUME NEW S PROVE A!Cardinality(S) = Cardinality(S)
BY DEF A!Cardinality, Cardinality

Verdicts == {"LIVE", "VOD", "STALL", "ERROR"}
Whys == {"silent", "refused", "garbled", "barren", "no segments", "slow", "fast", "timeout"}
Rows == [entry : Nat, verdict : Verdicts, error : Whys]

\* One row for every entry of a lineup of n.
OnePerEntry(rows, n) ==
  /\ rows \in Seq(Rows) /\ Len(rows) = n
  /\ \A k \in 1 .. n : rows[k].entry \in 1 .. n
  /\ \A j, k \in 1 .. n : j # k => rows[j].entry # rows[k].entry

Covered(rows, n) == \A c \in 1 .. n : \E k \in 1 .. n : rows[k].entry = c

LEMMA EveryEntry ==
  ASSUME NEW n \in Nat, NEW rows, OnePerEntry(rows, n)
  PROVE  Covered(rows, n)
<1> DEFINE entries == {rows[k].entry : k \in 1 .. n}
           f == [k \in 1 .. n |-> rows[k].entry]
<1>1. f \in Bijection(1 .. n, entries)
  <2>1. f \in [1 .. n -> entries]
    OBVIOUS
  <2>2. \A j, k \in 1 .. n : f[j] = f[k] => j = k
    BY DEF OnePerEntry
  <2>3. \A e \in entries : \E k \in 1 .. n : f[k] = e
    OBVIOUS
  <2> HIDE DEF entries, f
  <2> QED
    BY <2>1, <2>2, <2>3 DEF Bijection, Injection, Surjection, IsInjective
<1>2. IsFiniteSet(1 .. n)
  <2>1. 1 \in Int /\ n \in Int
    OBVIOUS
  <2> QED
    BY <2>1, FS_Interval
<1>3. entries \in SUBSET (1 .. n)
  BY DEF OnePerEntry
<1> HIDE DEF entries, f
<1>4. Cardinality(entries) = Cardinality(1 .. n)
  BY <1>1, <1>2, FS_Bijection DEF ExistsBijection
<1>5. entries = 1 .. n
  BY <1>2, <1>3, <1>4, FS_Subset
<1> QED
  BY <1>5 DEF entries, Covered

\* So that ordering them by the number of rows before them puts row i at i.
LEMMA InTheirPlaces ==
  ASSUME NEW n \in Nat, NEW rows, OnePerEntry(rows, n)
  PROVE  /\ A!ByEntry(rows) \in [1 .. n -> Rows]
         /\ \A i \in 1 .. n : /\ A!ByEntry(rows)[i].entry = i
                              /\ \E k \in 1 .. n : A!ByEntry(rows)[i] = rows[k]
<1>1. DOMAIN rows = 1 .. n /\ \A k \in 1 .. n : rows[k] \in Rows
  BY DEF OnePerEntry
<1> DEFINE before(k) == {j \in 1 .. n : rows[j].entry < rows[k].entry}
<1>2. ASSUME NEW k \in 1 .. n
      PROVE  Cardinality(before(k)) = rows[k].entry - 1
  <2> DEFINE e == rows[k].entry
             f == [j \in before(k) |-> rows[j].entry]
  <2>1. e \in 1 .. n
    BY DEF OnePerEntry
  <2>2. f \in Bijection(before(k), 1 .. e - 1)
    <3>1. f \in [before(k) -> 1 .. e - 1]
      BY <2>1 DEF OnePerEntry
    <3>2. \A i, j \in before(k) : f[i] = f[j] => i = j
      BY DEF OnePerEntry
    <3>3. \A c \in 1 .. e - 1 : \E j \in before(k) : f[j] = c
      <4> SUFFICES ASSUME NEW c \in 1 .. e - 1 PROVE \E j \in before(k) : f[j] = c
        OBVIOUS
      <4>1. c \in 1 .. n /\ c < e
        BY <2>1
      <4>2. PICK j \in 1 .. n : rows[j].entry = c
        BY <4>1, EveryEntry DEF Covered
      <4>3. j \in before(k) /\ f[j] = c
        BY <4>1, <4>2
      <4> QED
        BY <4>3
    <3> HIDE DEF before, f, e
    <3> QED
      BY <3>1, <3>2, <3>3 DEF Bijection, Injection, Surjection, IsInjective
  <2>3. IsFiniteSet(before(k))
    <3>1. before(k) \in SUBSET (1 .. n)
      OBVIOUS
    <3> HIDE DEF before
    <3> QED
      BY <3>1, SomePlaces
  <2>4. Cardinality(1 .. e - 1) = Cardinality(before(k))
    <3> HIDE DEF before, f, e
    <3> QED
      BY <2>2, <2>3, FS_Bijection DEF ExistsBijection
  <2>5. Cardinality(1 .. e - 1) = e - 1
    <3> HIDE DEF e
    <3>1. 1 \in Int /\ e - 1 \in Int /\ (1 > e - 1 => e - 1 = 0) /\ (e - 1) - 1 + 1 = e - 1
      BY <2>1
    <3> QED
      BY <3>1, FS_Interval
  <2> QED
    BY <2>4, <2>5
<1> HIDE DEF before
<1>3. ASSUME NEW i \in 1 .. n
      PROVE  \E k \in 1 .. n : A!ByEntry(rows)[i] = rows[k] /\ rows[k].entry = i
  <2> DEFINE fits(k) == A!Cardinality({j \in DOMAIN rows : rows[j].entry < rows[k].entry}) = i - 1
  <2>1. A!ByEntry(rows)[i] = rows[CHOOSE m \in DOMAIN rows : fits(m)]
    BY <1>1 DEF A!ByEntry
  <2>2. \A k \in DOMAIN rows : fits(k) <=> rows[k].entry - 1 = i - 1
    <3> SUFFICES ASSUME NEW k \in DOMAIN rows
                 PROVE  fits(k) <=> rows[k].entry - 1 = i - 1
      OBVIOUS
    <3>1. {j \in DOMAIN rows : rows[j].entry < rows[k].entry} = before(k)
      BY <1>1 DEF before
    <3> QED
      BY <1>1, <1>2, <3>1, AuditCounts
  <2> HIDE DEF fits
  <2>3. PICK c \in 1 .. n : rows[c].entry = i
    BY EveryEntry DEF Covered
  <2>4. fits(c)
    BY <1>1, <2>2, <2>3
  <2>5. PICK k \in DOMAIN rows : k = (CHOOSE m \in DOMAIN rows : fits(m)) /\ fits(k)
    BY <1>1, <2>4
  <2>6. k \in 1 .. n /\ rows[k].entry - 1 = i - 1 /\ rows[k].entry \in Nat
    BY <1>1, <2>2, <2>5 DEF OnePerEntry
  <2>7. rows[k].entry = i
    BY <2>6
  <2> QED
    BY <2>1, <2>5, <2>6, <2>7
<1>4. A!ByEntry(rows) = [i \in 1 .. n |-> A!ByEntry(rows)[i]]
  <2>1. DOMAIN A!ByEntry(rows) = 1 .. n
    BY <1>1 DEF A!ByEntry
  <2> QED
    BY <2>1 DEF A!ByEntry
<1>5. A!ByEntry(rows) \in [1 .. n -> Rows]
  <2>1. PICK s : s = A!ByEntry(rows)
    OBVIOUS
  <2> QED
    BY <1>1, <1>3, <1>4, <2>1
<1> QED
  BY <1>3, <1>5

\* Every row has one of the four verdicts.
LEMMA TotalsAddUp ==
  ASSUME NEW n \in Nat, NEW rows \in [1 .. n -> Rows]
  PROVE  /\ A!Report(rows).live + A!Report(rows).vod + A!Report(rows).errors
              + A!Report(rows).stalls = n
         /\ A!Report(rows).errors \in Nat
         /\ A!Report(rows).errors = 0 => \A i \in 1 .. n : rows[i].verdict # "ERROR"
<1> DEFINE T(v) == {i \in 1 .. n : rows[i].verdict = v}
<1>1. \A v : IsFiniteSet(T(v)) /\ Cardinality(T(v)) \in Nat
  <2> SUFFICES ASSUME NEW v PROVE IsFiniteSet(T(v)) /\ Cardinality(T(v)) \in Nat
    OBVIOUS
  <2>1. T(v) \in SUBSET (1 .. n)
    OBVIOUS
  <2> HIDE DEF T
  <2> QED
    BY <2>1, SomePlaces
<1>2. /\ A!Report(rows).live = Cardinality(T("LIVE"))
      /\ A!Report(rows).vod = Cardinality(T("VOD"))
      /\ A!Report(rows).errors = Cardinality(T("ERROR"))
      /\ A!Report(rows).stalls = Cardinality(T("STALL"))
  BY AuditCounts DEF A!Report, A!Tally
<1>3. /\ T("LIVE") \cap T("VOD") = {} /\ T("ERROR") \cap T("STALL") = {}
      /\ (T("LIVE") \cup T("VOD")) \cap (T("ERROR") \cup T("STALL")) = {}
      /\ (T("LIVE") \cup T("VOD")) \cup (T("ERROR") \cup T("STALL")) = 1 .. n
  BY DEF Rows, Verdicts
<1>4. T("ERROR") = {} => \A i \in 1 .. n : rows[i].verdict # "ERROR"
  OBVIOUS
<1>5. Cardinality(1 .. n) = n
  <2>1. 1 \in Int /\ n \in Int /\ (1 > n => n = 0) /\ n - 1 + 1 = n
    OBVIOUS
  <2> QED
    BY <2>1, FS_Interval
<1> HIDE DEF T
<1>6. ASSUME NEW S, NEW U, IsFiniteSet(S), IsFiniteSet(U), S \cap U = {}
      PROVE  /\ IsFiniteSet(S \cup U)
             /\ Cardinality(S \cup U) = Cardinality(S) + Cardinality(U)
  <2>1. Cardinality(S \cap U) = 0
    BY <1>6, FS_EmptySet
  <2>2. Cardinality(S) \in Nat /\ Cardinality(U) \in Nat
    BY <1>6, FS_CardinalityType
  <2>3. Cardinality(S \cup U) = Cardinality(S) + Cardinality(U) - Cardinality(S \cap U)
        /\ IsFiniteSet(S \cup U)
    BY <1>6, FS_Union
  <2> QED
    BY <2>1, <2>2, <2>3
<1>7. /\ IsFiniteSet(T("LIVE") \cup T("VOD"))
      /\ Cardinality(T("LIVE") \cup T("VOD")) = Cardinality(T("LIVE")) + Cardinality(T("VOD"))
      /\ IsFiniteSet(T("ERROR") \cup T("STALL"))
      /\ Cardinality(T("ERROR") \cup T("STALL"))
           = Cardinality(T("ERROR")) + Cardinality(T("STALL"))
  BY <1>1, <1>3, <1>6
<1>8. n = Cardinality(T("LIVE") \cup T("VOD")) + Cardinality(T("ERROR") \cup T("STALL"))
  BY <1>3, <1>5, <1>6, <1>7
<1>9. Cardinality(T("ERROR")) = 0 => T("ERROR") = {}
  BY <1>1, FS_EmptySet
<1>10. Cardinality(T("LIVE")) \in Nat /\ Cardinality(T("VOD")) \in Nat
       /\ Cardinality(T("ERROR")) \in Nat /\ Cardinality(T("STALL")) \in Nat
  BY <1>1
<1>11. A!Report(rows).live + A!Report(rows).vod + A!Report(rows).errors
         + A!Report(rows).stalls = n
  BY <1>2, <1>7, <1>8, <1>10
<1> QED
  BY <1>2, <1>4, <1>9, <1>10, <1>11
LEMMA RowsAreTyped ==
  ASSUME NEW c \in Nat, NEW verdict \in Verdicts, NEW why \in Whys
  PROVE  /\ A!Row(c, verdict, why) \in Rows /\ A!ErrorRow(c, why) \in Rows
         /\ A!Row(c, verdict, why).entry = c /\ A!ErrorRow(c, why).entry = c
         /\ A!Row(c, verdict, why).verdict = verdict /\ A!ErrorRow(c, why).verdict = "ERROR"
         /\ A!Row(c, verdict, why).error = why /\ A!ErrorRow(c, why).error = why
<1>1. "ERROR" \in Verdicts
  BY DEF Verdicts
<1> QED
  BY <1>1 DEF A!Row, A!ErrorRow, Rows

\* What an entry being probed has told by the request it waits for.
Asked(what, s) ==
  /\ what = "variant" => s.manifest = "master"
  /\ what = "probe" => \/ s.manifest = "dash"
                       \/ s.manifest \in {"master", "media"} /\ s.media = "segments"

LEMMA LastSegmentTells ==
  ASSUME NEW c \in Nat, server[c] \in A!AllServers,
         server[c].manifest \in {"master", "media"},
         server[c].media \in {"empty", "segments"}, A!LastSegmentUrl(c)
  PROVE  \/ \E row \in Rows : row.entry = c /\ IsTrueOf(row, server[c]) /\ A!Finish(c, row)
         \/ \E what : Asked(what, server[c]) /\ A!Ask(c, what)
<1>1. CASE server[c].media = "empty"
  <2>1. "no segments" \in Whys /\ "ERROR" \in Verdicts
    BY DEF Whys, Verdicts
  <2>2. /\ A!ErrorRow(c, "no segments") \in Rows /\ A!ErrorRow(c, "no segments").entry = c
        /\ A!ErrorRow(c, "no segments").verdict = "ERROR"
        /\ A!ErrorRow(c, "no segments").error = "no segments"
    BY <2>1 DEF A!ErrorRow, A!Row, Rows
  <2>3. A!Finish(c, A!ErrorRow(c, "no segments"))
    BY <1>1 DEF A!LastSegmentUrl
  <2>4. IsTrueOf(A!ErrorRow(c, "no segments"), server[c])
    BY <1>1, <2>2 DEF IsTrueOf, EmptyPlaylist
  <2> QED
    BY <2>2, <2>3, <2>4
<1>2. CASE server[c].media = "segments"
  BY <1>2 DEF A!LastSegmentUrl, Asked
<1> QED
  BY <1>1, <1>2

\* A request of an entry asks the next one or ends with a row that is true.
LEMMA RequestTells ==
  ASSUME NEW c \in Nat, server[c] \in A!AllServers, Asked(asking[c], server[c]), A!Request(c)
  PROVE  \/ \E row \in Rows : row.entry = c /\ IsTrueOf(row, server[c]) /\ A!Finish(c, row)
         \/ \E what : Asked(what, server[c]) /\ A!Ask(c, what)
<1> DEFINE s == server[c]
<1>0. /\ s.manifest \in {"silent", "refused", "garbled", "barren", "master", "media", "dash"}
      /\ s.media \in {"silent", "garbled", "empty", "segments"}
      /\ s.probe \in {"silent", "refused", "slow", "fast"}
      /\ s.vod \in BOOLEAN
      /\ s.manifest = "media" => s.media \in {"empty", "segments"}
  BY DEF A!AllServers
<1>1. ASSUME NEW why \in Whys, why # "timeout", A!Finish(c, A!ErrorRow(c, why)),
             Answers(s) = "ERROR"
      PROVE  \E row \in Rows : row.entry = c /\ IsTrueOf(row, s) /\ A!Finish(c, row)
  <2>1. "ERROR" \in Verdicts
    BY DEF Verdicts
  <2>2. /\ A!ErrorRow(c, why) \in Rows /\ A!ErrorRow(c, why).entry = c
        /\ A!ErrorRow(c, why).verdict = "ERROR" /\ A!ErrorRow(c, why).error = why
    BY <2>1, RowsAreTyped
  <2> QED
    BY <1>1, <2>2 DEF IsTrueOf
<1>2. CASE A!Manifest(c)
  <2>1. CASE s.manifest \in {"silent", "refused", "garbled", "barren"}
             /\ A!Finish(c, A!ErrorRow(c, s.manifest))
    <3>1. s.manifest \in Whys /\ s.manifest # "timeout" /\ Answers(s) = "ERROR"
      BY <2>1 DEF Whys, Answers, EmptyPlaylist
    <3> QED
      BY <1>1, <2>1, <3>1
  <2>2. CASE s.manifest = "master" /\ A!Ask(c, "variant")
    <3>1. Asked("variant", s)
      BY <2>2 DEF Asked
    <3> QED
      BY <2>2, <3>1
  <2>3. CASE s.manifest = "media" /\ A!LastSegmentUrl(c)
    BY <1>0, <2>3, LastSegmentTells
  <2>4. CASE s.manifest = "dash" /\ A!Ask(c, "probe")
    <3>1. Asked("probe", s)
      BY <2>4 DEF Asked
    <3> QED
      BY <2>4, <3>1
  <2> QED
    BY <1>2, <2>1, <2>2, <2>3, <2>4 DEF A!Manifest
<1>3. CASE A!Variant(c)
  <2>1. s.manifest = "master"
    BY <1>3 DEF A!Variant, Asked
  <2>2. CASE s.media \in {"silent", "garbled"}
    <3>1. s.media \in Whys /\ s.media # "timeout" /\ Answers(s) = "ERROR"
      BY <2>1, <2>2 DEF Whys, Answers, EmptyPlaylist
    <3>2. A!Finish(c, A!ErrorRow(c, s.media))
      BY <1>3, <2>2 DEF A!Variant
    <3> QED
      BY <1>1, <3>1, <3>2
  <2>3. CASE s.media \notin {"silent", "garbled"}
    <3>1. A!LastSegmentUrl(c) /\ s.media \in {"empty", "segments"}
      BY <1>0, <1>3, <2>3 DEF A!Variant
    <3> QED
      BY <2>1, <3>1, LastSegmentTells
  <2> QED
    BY <2>2, <2>3
<1>4. CASE A!RangeProbe(c)
  <2>1. s.manifest = "dash" \/ (s.manifest \in {"master", "media"} /\ s.media = "segments")
    BY <1>4 DEF A!RangeProbe, Asked
  <2>2. CASE s.probe = "silent"
    <3>1. s.probe \in Whys /\ s.probe # "timeout" /\ Answers(s) = "ERROR"
      BY <2>1, <2>2 DEF Whys, Answers, EmptyPlaylist
    <3>2. A!Finish(c, A!ErrorRow(c, s.probe))
      BY <1>4, <2>2 DEF A!RangeProbe
    <3> QED
      BY <1>1, <3>1, <3>2
  <2>3. CASE s.probe # "silent"
    <3> DEFINE v == A!MarkVod(A!ClassifyProbe(s.probe), s.vod)
    <3>0. ~EmptyPlaylist(s)
      BY <2>1 DEF EmptyPlaylist
    <3>1. v = Answers(s) /\ v \in Verdicts
      <4>1. Answers(s) = IF s.probe = "refused" THEN "ERROR"
                         ELSE IF s.probe = "slow" THEN "STALL"
                         ELSE IF s.vod THEN "VOD" ELSE "LIVE"
        BY <1>0, <2>1, <2>3, <3>0, SMT DEF Answers
      <4> QED
        BY <1>0, <2>3, <4>1 DEF A!MarkVod, A!ClassifyProbe, Verdicts
    <3>2. s.probe \in Whys /\ s.probe # "timeout"
      BY <1>0 DEF Whys
    <3>3. A!Finish(c, A!Row(c, v, s.probe))
      BY <1>4, <2>3 DEF A!RangeProbe
    <3> HIDE DEF v
    <3>4. /\ A!Row(c, v, s.probe) \in Rows /\ A!Row(c, v, s.probe).entry = c
          /\ A!Row(c, v, s.probe).verdict = v /\ A!Row(c, v, s.probe).error = s.probe
      BY <3>1, <3>2, RowsAreTyped
    <3> QED
      BY <3>0, <3>1, <3>2, <3>3, <3>4 DEF IsTrueOf
  <2> QED
    BY <2>2, <2>3
<1> QED
  BY <1>2, <1>3, <1>4 DEF A!Request

\* Each entry pulled is being probed or has its one row, which is true.
Probed ==
  /\ server \in Seq(A!AllServers)
  /\ pulled \in 0 .. Len(server)
  /\ DOMAIN asking \subseteq 1 .. pulled
  /\ \A c \in DOMAIN asking : Asked(asking[c], server[c])
  /\ arrived \in Seq(Rows)
  /\ \A k \in 1 .. Len(arrived) :
        /\ arrived[k].entry \in 1 .. pulled /\ arrived[k].entry \notin DOMAIN asking
        /\ IsTrueOf(arrived[k], server[arrived[k].entry])
  /\ \A j, k \in 1 .. Len(arrived) : j # k => arrived[j].entry # arrived[k].entry
  /\ report # A!NoReport =>
        report = A!Report(A!ByEntry(arrived)) /\ Len(arrived) = Len(server)

\* When all the rows have arrived nothing is left to pull or to probe.
LEMMA AllArrived ==
  ASSUME Probed, Len(arrived) = Len(server)
  PROVE  /\ OnePerEntry(arrived, Len(server))
         /\ pulled = Len(server) /\ DOMAIN asking = {}
<1>1. Len(server) \in Nat /\ pulled \in 0 .. Len(server)
  BY DEF Probed
<1>2. OnePerEntry(arrived, Len(server))
  BY <1>1 DEF Probed, OnePerEntry
<1>3. \A c \in 1 .. Len(server) : \E k \in 1 .. Len(server) : arrived[k].entry = c
  <2>1. PICK n \in Nat : n = Len(server)
    BY <1>1
  <2>2. PICK rows : rows = arrived
    OBVIOUS
  <2>3. OnePerEntry(rows, n)
    BY <1>2, <2>1, <2>2
  <2>4. Covered(rows, n)
    BY <2>3, EveryEntry
  <2> QED
    BY <2>1, <2>2, <2>4 DEF Covered
<1>4. \A c \in 1 .. Len(server) : c \in 1 .. pulled /\ c \notin DOMAIN asking
  BY <1>3 DEF Probed
<1>5. pulled = Len(server)
  <2>1. CASE Len(server) = 0
    BY <1>1, <2>1
  <2>2. CASE Len(server) # 0
    <3>1. Len(server) \in 1 .. Len(server)
      BY <1>1, <2>2
    <3>2. Len(server) \in 1 .. pulled
      BY <1>4, <3>1
    <3> QED
      BY <1>1, <3>2
  <2> QED
    BY <2>1, <2>2
<1>6. DOMAIN asking = {}
  BY <1>4, <1>5 DEF Probed
<1> QED
  BY <1>2, <1>5, <1>6

LEMMA ProbedStep ==
  ASSUME Probed, NEW limited, A!AuditNext(limited)
  PROVE  Probed'
<1>0. /\ server \in Seq(A!AllServers) /\ Len(server) \in Nat
      /\ DOMAIN server = 1 .. Len(server)
      /\ \A c \in 1 .. Len(server) : server[c] \in A!AllServers
      /\ pulled \in Nat /\ pulled <= Len(server)
      /\ DOMAIN asking \subseteq 1 .. pulled
      /\ Len(arrived) \in Nat
  BY DEF Probed
<1>1. ASSUME NEW c \in A!Entries, A!Pull(c) PROVE Probed'
  <2>1. /\ c = pulled + 1 /\ c <= Len(server) /\ pulled' = c
        /\ asking' = [d \in DOMAIN asking \cup {c} |-> IF d = c THEN "manifest" ELSE asking[d]]
        /\ UNCHANGED <<server, arrived, report>>
    BY <1>0, <1>1 DEF A!Pull, A!Entries, A!InFlight
  <2>2. report = A!NoReport
    <3>1. CASE report # A!NoReport
      <4>1. pulled = Len(server)
        BY <3>1, AllArrived DEF Probed
      <4> QED
        BY <1>0, <2>1, <4>1
    <3> QED
      BY <3>1
  <2>3. report' = A!NoReport'
    BY <2>1, <2>2 DEF A!NoReport
  <2>4. DOMAIN asking' \subseteq 1 .. pulled' /\ pulled' \in 0 .. Len(server')
    BY <1>0, <2>1
  <2>5. \A d \in DOMAIN asking' : Asked(asking'[d], server'[d])
    BY <2>1 DEF Probed, Asked
  <2>6. \A k \in 1 .. Len(arrived') :
           /\ arrived'[k].entry \in 1 .. pulled' /\ arrived'[k].entry \notin DOMAIN asking'
           /\ IsTrueOf(arrived'[k], server'[arrived'[k].entry])
    <3>1. \A k \in 1 .. Len(arrived) :
             /\ arrived[k].entry \in 1 .. pulled /\ arrived[k].entry \notin DOMAIN asking
             /\ IsTrueOf(arrived[k], server[arrived[k].entry])
      BY DEF Probed
    <3>2. \A e \in 1 .. pulled : e \in 1 .. pulled + 1 /\ e # pulled + 1
      BY <1>0
    <3> QED
      BY <2>1, <3>1, <3>2
  <2> QED
    BY <2>1, <2>3, <2>4, <2>5, <2>6 DEF Probed
<1>2. ASSUME NEW c \in DOMAIN asking, NEW row \in Rows, row.entry = c,
             IsTrueOf(row, server[c]), A!Finish(c, row)
      PROVE  Probed'
  <2>1. /\ asking' = [d \in DOMAIN asking \ {c} |-> asking[d]]
        /\ arrived' = Append(arrived, row)
        /\ UNCHANGED <<server, pulled, report>>
    BY <1>2 DEF A!Finish, A!InFlight
  <2>2. report = A!NoReport
    BY <1>2, AllArrived DEF Probed
  <2>3. report' = A!NoReport'
    BY <2>1, <2>2 DEF A!NoReport
  <2>4. DOMAIN asking' = DOMAIN asking \ {c}
    BY <2>1
  <2>5. /\ arrived' \in Seq(Rows) /\ Len(arrived') = Len(arrived) + 1
        /\ \A k \in 1 .. Len(arrived) : arrived'[k] = arrived[k]
        /\ arrived'[Len(arrived) + 1] = row
    BY <2>1 DEF Probed
  <2>6. \A k \in 1 .. Len(arrived') : k \in 1 .. Len(arrived) \/ k = Len(arrived) + 1
    BY <1>0, <2>5
  <2>7. \A k \in 1 .. Len(arrived) : arrived[k].entry # c
    BY <1>2 DEF Probed
  <2>8. \A d \in DOMAIN asking' : Asked(asking'[d], server'[d])
    BY <2>1, <2>4 DEF Probed
  <2>9. \A k \in 1 .. Len(arrived') :
           /\ arrived'[k].entry \in 1 .. pulled' /\ arrived'[k].entry \notin DOMAIN asking'
           /\ IsTrueOf(arrived'[k], server'[arrived'[k].entry])
    <3>1. \A k \in 1 .. Len(arrived) :
             /\ arrived[k].entry \in 1 .. pulled /\ arrived[k].entry \notin DOMAIN asking
             /\ IsTrueOf(arrived[k], server[arrived[k].entry])
      BY DEF Probed
    <3>2. row.entry \in 1 .. pulled /\ row.entry \notin DOMAIN asking'
          /\ IsTrueOf(row, server[row.entry])
      BY <1>0, <1>2, <2>4
    <3> QED
      BY <2>1, <2>4, <2>5, <2>6, <3>1, <3>2
  <2>10. \A j, k \in 1 .. Len(arrived') : j # k => arrived'[j].entry # arrived'[k].entry
    <3>1. \A j, k \in 1 .. Len(arrived) : j # k => arrived[j].entry # arrived[k].entry
      BY DEF Probed
    <3> QED
      BY <1>2, <2>5, <2>6, <2>7, <3>1
  <2> QED
    BY <1>0, <2>1, <2>3, <2>4, <2>5, <2>8, <2>9, <2>10 DEF Probed
<1>3. ASSUME NEW c \in DOMAIN asking, NEW what, Asked(what, server[c]), A!Ask(c, what)
      PROVE  Probed'
  <2>1. asking' = [asking EXCEPT ![c] = what] /\ UNCHANGED <<server, pulled, arrived, report>>
    BY <1>3 DEF A!Ask
  <2>2. DOMAIN asking' = DOMAIN asking
    BY <2>1
  <2>3. \A d \in DOMAIN asking' : Asked(asking'[d], server'[d])
    BY <1>3, <2>1, <2>2 DEF Probed
  <2>4. UNCHANGED A!NoReport /\ UNCHANGED A!Report(A!ByEntry(arrived))
    BY <2>1, Zenon DEF A!NoReport
  <2> QED
    BY <2>1, <2>2, <2>3, <2>4 DEF Probed
<1>4. CASE A!Collect
  <2>1. /\ Len(arrived) = Len(server) /\ report' = A!Report(A!ByEntry(arrived))
        /\ UNCHANGED <<server, pulled, asking, arrived>>
    BY <1>4 DEF A!Collect
  <2>2. UNCHANGED A!Report(A!ByEntry(arrived))
    BY <2>1, Zenon
  <2> QED
    BY <2>1, <2>2 DEF Probed
<1>5. ASSUME NEW c \in DOMAIN asking, A!Request(c) PROVE Probed'
  <2>1. c \in Nat /\ server[c] \in A!AllServers /\ Asked(asking[c], server[c])
    BY <1>0 DEF Probed
  <2> QED
    BY <1>2, <1>3, <1>5, <2>1, RequestTells
<1>6. ASSUME NEW c \in DOMAIN asking, A!TimeOut(c) PROVE Probed'
  <2>1. c \in Nat /\ "timeout" \in Whys /\ "ERROR" \in Verdicts
    BY <1>0 DEF Whys, Verdicts
  <2>2. /\ A!ErrorRow(c, "timeout") \in Rows /\ A!ErrorRow(c, "timeout").entry = c
        /\ A!ErrorRow(c, "timeout").verdict = "ERROR"
        /\ A!ErrorRow(c, "timeout").error = "timeout"
    BY <2>1, RowsAreTyped
  <2>3. IsTrueOf(A!ErrorRow(c, "timeout"), server[c])
    BY <2>2 DEF IsTrueOf
  <2> QED
    BY <1>2, <1>6, <2>2, <2>3 DEF A!TimeOut
<1> QED
  BY <1>1, <1>4, <1>5, <1>6 DEF A!AuditNext, A!InFlight

\* While a lineup is probed nothing else happens to its books.
LEMMA OnlyAuditing ==
  ASSUME [Next]_vars
  PROVE  /\ phase = "over" => UNCHANGED <<auditVars, phase, exit>>
         /\ \/ UNCHANGED auditVars
            \/ /\ phase \in {"audit", "check"} /\ \E limited \in BOOLEAN : A!AuditNext(limited)
               /\ UNCHANGED <<phase, exit>>
         /\ phase' # "over" => UNCHANGED exit
         /\ \/ phase' = phase \/ phase = "starting"
            \/ phase' = "over" /\ (phase \in {"audit", "check"} => exit' \in {AuditExit, "error"})
<1>0. ASSUME NEW run, NEW code, run \in {"vod", "export", "summary", "budget", "compare",
                "multi-cdn", "matrix", "agent", "whep", "exporter", "picker", "dashboard"},
             Over(run, code)
      PROVE  /\ UNCHANGED auditVars /\ phase' = "over" /\ phase # "over"
             /\ phase \notin {"audit", "check"}
  BY <1>0 DEF Over, End
<1>1. ASSUME NEW run, run # "over", Own(run)
      PROVE  UNCHANGED <<phase, exit>> /\ phase # "over"
  BY <1>1 DEF Own, ownVars
<1>2. CASE Dispatch
  BY <1>2 DEF Dispatch, End
<1>3. CASE Auditing
  <2>1. CASE Own("audit") /\ A!AuditNext(FALSE)
    BY <2>1 DEF Own, ownVars
  <2>2. CASE Own("check") /\ A!AuditNext(TRUE)
    BY <2>2 DEF Own, ownVars
  <2>3. CASE \E run \in {"audit", "check"}, code \in {AuditExit, "error"} : Over(run, code)
    BY <2>3 DEF Over, End
  <2> QED
    BY <1>3, <2>1, <2>2, <2>3 DEF Auditing
<1>4. CASE Crawling
  BY <1>0, <1>1, <1>4 DEF Crawling
<1>5. CASE Measuring
  BY <1>0, <1>1, <1>5 DEF Measuring
<1>6. CASE Exporting
  <2>1. CASE Capture
    BY <1>1, <2>1 DEF Capture
  <2>2. CASE WriteExport
    BY <2>2 DEF WriteExport
  <2>3. CASE ExportFails
    BY <1>0, <2>3 DEF ExportFails
  <2>4. CASE Over("export", "0")
    BY <1>0, <2>4
  <2> QED
    BY <1>6, <2>1, <2>2, <2>3, <2>4 DEF Exporting
<1>7. CASE Comparing
  BY <1>0, <1>1, <1>7 DEF Comparing
<1>8. CASE MultiCdn
  BY <1>0, <1>1, <1>8 DEF MultiCdn
<1>9. CASE Agent
  BY <1>0, <1>1, <1>9 DEF Agent
<1>10. CASE Whep
  BY <1>0, <1>10 DEF Whep
<1>11. CASE Elsewhere
  BY <1>0, <1>11 DEF Elsewhere
<1>12. CASE UNCHANGED vars
  BY <1>12 DEF vars, ownVars
<1> QED
  BY <1>2, <1>3, <1>4, <1>5, <1>6, <1>7, <1>8, <1>9, <1>10, <1>11, <1>12 DEF Next

AuditInv ==
  /\ Probed
  /\ phase # "over" => exit = "none"
  /\ A!Collected => phase \in {"audit", "check", "over"}
  /\ A!Collected /\ phase = "over" /\ Has("fail-on-dead") /\ exit = "0" => report.errors = 0

LEMMA AuditInvInit == Init => AuditInv
<1> SUFFICES ASSUME Init PROVE AuditInv
  OBVIOUS
<1>1. /\ phase = "starting" /\ exit = "none" /\ pulled = 0 /\ asking = <<>> /\ arrived = <<>>
      /\ report = A!NoReport /\ server \in LineupsFor(Selected)
  BY DEF Init, A!AuditInit
<1>2. server \in Seq(A!AllServers)
  <2>1. ASSUME NEW lengths \in SUBSET Nat, server \in A!Lineups(lengths)
        PROVE  server \in Seq(A!AllServers)
    <3>1. PICK n \in Nat : server \in [1 .. n -> Servers]
      BY <2>1 DEF A!Lineups
    <3>2. server \in [1 .. n -> A!AllServers]
      BY <3>1, ServersAnswer
    <3> QED
      BY <3>2
  <2>2. {1} \in SUBSET Nat /\ 1 .. Lineup \in SUBSET Nat
    BY SMT
  <2>3. <<>> \in Seq(A!AllServers)
    OBVIOUS
  <2> QED
    BY <1>1, <2>1, <2>2, <2>3 DEF LineupsFor
<1>3. Probed
  <2>1. DOMAIN asking = {} /\ Len(arrived) = 0 /\ arrived \in Seq(Rows)
        /\ pulled \in 0 .. Len(server)
    BY <1>1, <1>2
  <2> QED
    BY <1>1, <1>2, <2>1 DEF Probed
<1> QED
  BY <1>1, <1>3 DEF AuditInv, A!Collected

LEMMA AuditInvStep == AuditInv /\ [Next]_vars => AuditInv'
<1> SUFFICES ASSUME AuditInv, [Next]_vars PROVE AuditInv'
  OBVIOUS
<1>0. UNCHANGED cli /\ (Has("fail-on-dead")' <=> Has("fail-on-dead"))
  <2>1. UNCHANGED cli
    BY CliStays
  <2> QED
    BY <2>1 DEF Has
<1>1. /\ Probed /\ (phase # "over" => exit = "none")
      /\ A!Collected => phase \in {"audit", "check", "over"}
      /\ A!Collected /\ phase = "over" /\ Has("fail-on-dead") /\ exit = "0" => report.errors = 0
  BY DEF AuditInv
<1>2. CASE /\ phase \in {"audit", "check"} /\ \E limited \in BOOLEAN : A!AuditNext(limited)
           /\ UNCHANGED <<phase, exit>>
  BY <1>1, <1>2, ProbedStep DEF AuditInv
<1>3. CASE UNCHANGED auditVars
  <2>1. Probed' /\ UNCHANGED report /\ (A!Collected' <=> A!Collected)
    <3>1. UNCHANGED <<server, pulled, asking, arrived, report>>
      BY <1>3 DEF auditVars
    <3>2. UNCHANGED A!NoReport /\ UNCHANGED A!Report(A!ByEntry(arrived))
      BY <3>1, Zenon DEF A!NoReport
    <3> QED
      BY <1>1, <3>1, <3>2 DEF Probed, A!Collected
  <2>2. phase' # "over" => exit' = "none"
    BY <1>1, OnlyAuditing
  <2>3. A!Collected' => phase' \in {"audit", "check", "over"}
    BY <1>1, <2>1, OnlyAuditing
  <2>4. A!Collected' /\ phase' = "over" /\ Has("fail-on-dead")' /\ exit' = "0"
          => report'.errors = 0
    <3> SUFFICES ASSUME A!Collected', phase' = "over", Has("fail-on-dead"), exit' = "0"
                 PROVE  report.errors = 0
      BY <1>0, <2>1
    <3>1. A!Collected
      BY <2>1
    <3>2. CASE phase = "over"
      BY <1>1, <3>1, <3>2, OnlyAuditing
    <3>3. CASE phase \in {"audit", "check"}
      <4>1. AuditExit = "0"
        BY <3>3, OnlyAuditing
      <4>2. report.errors \in Nat
        <5>1. report = A!Report(A!ByEntry(arrived)) /\ Len(arrived) = Len(server)
          BY <1>1, <3>1 DEF Probed, A!Collected
        <5>2. OnePerEntry(arrived, Len(server)) /\ Len(server) \in Nat
          BY <1>1, <5>1, AllArrived DEF Probed
        <5>3. A!ByEntry(arrived) \in [1 .. Len(server) -> Rows]
          BY <5>2, InTheirPlaces, Zenon
        <5> QED
          BY <5>1, <5>2, <5>3, TotalsAddUp, Zenon
      <4> QED
        BY <4>1, <4>2 DEF AuditExit, A!ShouldFail
    <3> QED
      BY <1>1, <3>1, <3>2, <3>3
  <2> QED
    BY <2>1, <2>2, <2>3, <2>4 DEF AuditInv
<1> QED
  BY <1>2, <1>3, OnlyAuditing

\* Whichever entry ends first, a report says of every entry what its servers
\* answer, and the totals, the living and the exit code agree with it
\* (probe_channels, alive_m3u, run_check_cmd).
THEOREM ReportsAreTrue == Spec => []ReportIsTrue
<1>1. AuditInv => ReportIsTrue
  <2> SUFFICES ASSUME AuditInv, A!Collected PROVE ReportIsTrue
    BY DEF ReportIsTrue
  <2> DEFINE n == Len(server)
             rows == report.rows
  <2>1. /\ Probed /\ report = A!Report(A!ByEntry(arrived)) /\ Len(arrived) = n
        /\ n \in Nat /\ DOMAIN server = 1 .. n
    BY DEF AuditInv, Probed, A!Collected
  <2>2. OnePerEntry(arrived, n)
    BY <2>1, AllArrived
  <2>3. rows = A!ByEntry(arrived)
    BY <2>1 DEF A!Report
  <2> HIDE DEF n, rows
  <2>4. /\ rows \in [1 .. n -> Rows]
        /\ \A i \in 1 .. n : rows[i].entry = i /\ \E k \in 1 .. n : rows[i] = arrived[k]
    <3>1. PICK m, came : m \in Nat /\ m = n /\ came = arrived
      BY <2>1
    <3>2. OnePerEntry(came, m) /\ rows = A!ByEntry(came)
      BY <2>2, <2>3, <3>1
    <3>3. /\ A!ByEntry(came) \in [1 .. m -> Rows]
          /\ \A i \in 1 .. m : /\ A!ByEntry(came)[i].entry = i
                               /\ \E k \in 1 .. m : A!ByEntry(came)[i] = came[k]
      BY <3>1, <3>2, InTheirPlaces
    <3> QED
      BY <3>1, <3>2, <3>3
  <2>5. \A i \in 1 .. n : rows[i].entry = i /\ IsTrueOf(rows[i], server[i])
    <3> SUFFICES ASSUME NEW i \in 1 .. n
                 PROVE  rows[i].entry = i /\ IsTrueOf(rows[i], server[i])
      OBVIOUS
    <3>1. PICK k \in 1 .. n : rows[i] = arrived[k] /\ rows[i].entry = i
      BY <2>4
    <3>2. IsTrueOf(arrived[k], server[arrived[k].entry])
      BY <2>1 DEF Probed
    <3> QED
      BY <3>1, <3>2
  <2>6. /\ report.live + report.vod + report.errors + report.stalls = n
        /\ report.errors = 0 => \A i \in 1 .. n : rows[i].verdict # "ERROR"
    BY <2>1, <2>3, <2>4, TotalsAddUp
  <2>7. \A strict \in BOOLEAN, i \in 1 .. n : ~EmptyPlaylist(server[i]) =>
           (i \in A!Alive(report, strict) <=>
                rows[i].error # "timeout" /\ Answers(server[i]) \in Living(strict))
    <3> SUFFICES ASSUME NEW strict \in BOOLEAN, NEW i \in 1 .. n, ~EmptyPlaylist(server[i])
                 PROVE  i \in A!Alive(report, strict) <=>
                          rows[i].error # "timeout" /\ Answers(server[i]) \in Living(strict)
      OBVIOUS
    <3>1. rows[i].verdict = IF rows[i].error = "timeout" THEN "ERROR" ELSE Answers(server[i])
      BY <2>5 DEF IsTrueOf
    <3>2. i \in A!Alive(report, strict) <=> rows[i].verdict \in Living(strict)
      BY <2>1 DEF A!Alive, A!Keep, A!Entries, Living, rows
    <3> QED
      BY <3>1, <3>2 DEF Living
  <2>8. phase = "over" /\ Has("fail-on-dead") /\ exit = "0"
          => \A i \in 1 .. n : rows[i].verdict # "ERROR"
    BY <2>6 DEF AuditInv
  <2> QED
    BY <2>1, <2>4, <2>5, <2>6, <2>7, <2>8 DEF ReportIsTrue, n, rows
<1> QED
  BY AuditInvInit, AuditInvStep, <1>1, PTL DEF Spec
-----------------------------------------------------------------------------
(* The compare screen.                                                     *)
Sighted == [kind : C!Kinds, n : Nat]

LEMMA LastOfLength ==
  ASSUME NEW q, NEW n, Len(q) = n
  PROVE  LastOf(q) = SubSeq(q, IF n > RingCap THEN n - RingCap + 1 ELSE 1, n)
BY DEF LastOf

\* Pushing to the last RingCap events gives the last RingCap of one more.
LEMMA PushKeepsTheLast ==
  ASSUME NEW q \in Seq(Sighted), NEW e \in Sighted
  PROVE  /\ LastOf(q) \in Seq(Sighted)
         /\ C!Push(LastOf(q), e) = LastOf(Append(q, e))
<1> DEFINE n == Len(q)
           from == IF n > RingCap THEN n - RingCap + 1 ELSE 1
           last == LastOf(q)
           buf == IF Len(last) >= RingCap THEN Tail(last) ELSE last
           both == Append(q, e)
           start == IF n + 1 > RingCap THEN (n + 1) - RingCap + 1 ELSE 1
           size == n - from + 1
           less == n - start + 1
<1>0. RingCap \in Nat /\ RingCap >= 1 /\ n \in Nat
  BY RingCapAssumption
<1>1. /\ last \in Seq(Sighted) /\ Len(last) = size
      /\ \A i \in 1 .. size : last[i] = q[from + i - 1]
  <2>1. from \in 1 .. n + 1
    BY <1>0
  <2>2. last = SubSeq(q, from, n)
    BY DEF LastOf
  <2>3. \A i \in from .. n : q[i] \in Sighted
    BY <2>1
  <2> HIDE DEF n, from, last
  <2> QED
    BY <1>0, <2>1, <2>2, <2>3, SubSeqProperties
<1>2. /\ both \in Seq(Sighted) /\ Len(both) = n + 1
      /\ \A i \in 1 .. n : both[i] = q[i]
      /\ both[n + 1] = e
  OBVIOUS
<1>3. buf \in Seq(Sighted) /\ Len(buf) = less /\ \A i \in 1 .. less : buf[i] = q[start + i - 1]
  <2>1. CASE n >= RingCap
    <3>1. size = RingCap /\ less = RingCap - 1 /\ start = from + 1
      BY <1>0, <2>1
    <3>2. buf = Tail(last) /\ last # <<>>
      BY <1>0, <1>1, <3>1
    <3>3. Tail(last) \in Seq(Sighted) /\ Len(Tail(last)) = RingCap - 1
          /\ \A i \in 1 .. RingCap - 1 : Tail(last)[i] = last[i + 1]
      <4> HIDE DEF last, size, from, n
      <4> QED
        BY <1>0, <1>1, <3>1, <3>2, HeadTailProperties
    <3>4. \A i \in 1 .. RingCap - 1 : last[i + 1] = q[start + i - 1]
      BY <1>0, <1>1, <3>1
    <3> QED
      BY <3>1, <3>2, <3>3, <3>4
  <2>2. CASE n < RingCap
    <3>1. size = n /\ less = n /\ start = 1 /\ from = 1
      BY <1>0, <2>2
    <3>2. buf = last
      BY <1>0, <1>1, <2>2, <3>1
    <3> QED
      BY <1>1, <3>1, <3>2
  <2>3. n >= RingCap \/ n < RingCap
    BY <1>0
  <2> HIDE DEF buf, less, n, start
  <2> QED
    BY <2>1, <2>2, <2>3
<1>4. C!Push(last, e) = Append(buf, e)
  BY DEF C!Push
<1>5. LastOf(both) = SubSeq(both, start, n + 1)
  BY <1>2, LastOfLength, Zenon
<1>6. start \in 1 .. n + 1 /\ less \in Nat /\ less + 1 = n + 1 - start + 1
  BY <1>0
<1> HIDE DEF buf, both, last, start, less, from, n, size
<1>7. /\ SubSeq(both, start, n + 1) \in Seq(Sighted)
      /\ Len(SubSeq(both, start, n + 1)) = less + 1
      /\ \A i \in 1 .. less + 1 : SubSeq(both, start, n + 1)[i] = both[start + i - 1]
  <2>1. \A i \in start .. n + 1 : both[i] \in Sighted
    BY <1>0, <1>2, <1>6
  <2> QED
    BY <1>0, <1>2, <1>6, <2>1, SubSeqProperties
<1>8. /\ Append(buf, e) \in Seq(Sighted) /\ Len(Append(buf, e)) = less + 1
      /\ \A i \in 1 .. less : Append(buf, e)[i] = buf[i]
      /\ Append(buf, e)[less + 1] = e
  BY <1>3, <1>6
<1>9. \A i \in 1 .. less + 1 : Append(buf, e)[i] = both[start + i - 1]
  <2> SUFFICES ASSUME NEW i \in 1 .. less + 1
               PROVE  Append(buf, e)[i] = both[start + i - 1]
    OBVIOUS
  <2>1. CASE i \in 1 .. less
    <3>1. start + i - 1 \in 1 .. n
      BY <1>0, <1>6, <2>1 DEF less
    <3> QED
      BY <1>2, <1>3, <1>8, <2>1, <3>1
  <2>2. CASE i = less + 1
    <3>1. start + i - 1 = n + 1
      BY <1>0, <1>6, <2>2 DEF less
    <3> QED
      BY <1>2, <1>8, <2>2, <3>1
  <2>3. i \in 1 .. less \/ i = less + 1
    BY <1>6
  <2> QED
    BY <2>1, <2>2, <2>3
<1>10. Append(buf, e) = SubSeq(both, start, n + 1)
  BY <1>6, <1>7, <1>8, <1>9, SeqEqual
<1> QED
  BY <1>1, <1>4, <1>5, <1>10 DEF last, both

\* The ring of a pane is the end of what it has not applied.
CompareInv ==
  /\ sent \in [C!Sides -> Nat]
  /\ pending \in [C!Sides -> Seq(Sighted)]
  /\ since \in [C!Sides -> Seq(Sighted)]
  /\ ring = [s \in C!Sides |-> LastOf(since[s])]

LEMMA CompareInvInit == Init => CompareInv
<1> SUFFICES ASSUME Init PROVE CompareInv
  OBVIOUS
<1>1. C!CompareInit
  BY DEF Init
<1>2. <<>> \in Seq(Sighted)
  OBVIOUS
<1>3. LastOf(<<>>) = <<>>
  <2>1. LastOf(<<>>) = SubSeq(<<>>, 1, 0)
    BY RingCapAssumption DEF LastOf
  <2> QED
    BY <2>1
<1> QED
  BY <1>1, <1>2, <1>3 DEF C!CompareInit, CompareInv

LEMMA CompareInvStep == CompareInv /\ [C!CompareNext]_compareVars => CompareInv'
<1> SUFFICES ASSUME CompareInv, [C!CompareNext]_compareVars PROVE CompareInv'
  OBVIOUS
<1> USE DEF CompareInv
<1>1. ASSUME NEW s \in C!Sides, C!Send(s) PROVE CompareInv'
  <2>1. PICK k \in C!Kinds :
          pending' = [pending EXCEPT ![s] = Append(@, [kind |-> k, n |-> sent'[s]])]
    BY <1>1 DEF C!Send
  <2>2. sent' \in [C!Sides -> Nat] /\ UNCHANGED <<ring, since>>
    BY <1>1 DEF C!Send
  <2>3. [kind |-> k, n |-> sent'[s]] \in Sighted
    BY <2>2 DEF Sighted
  <2>4. Append(pending[s], [kind |-> k, n |-> sent'[s]]) \in Seq(Sighted)
    BY <2>3, AppendProperties
  <2>5. pending' \in [C!Sides -> Seq(Sighted)]
    BY <2>1, <2>4
  <2> QED
    BY <2>2, <2>5
<1>2. ASSUME NEW s \in C!Sides, C!Recv(s) PROVE CompareInv'
  <2>1. PICK e \in Sighted : e = Head(pending[s])
    BY <1>2 DEF C!Recv
  <2>2. UNCHANGED sent /\ pending' \in [C!Sides -> Seq(Sighted)]
    <3>1. Tail(pending[s]) \in Seq(Sighted) /\ pending' = [pending EXCEPT ![s] = Tail(@)]
      BY <1>2 DEF C!Recv
    <3> QED
      BY <1>2, <3>1 DEF C!Recv
  <2>3. \/ UNCHANGED <<ring, since>>
        \/ /\ ring' = [ring EXCEPT ![s] = C!Push(@, e)]
           /\ since' = [since EXCEPT ![s] = Append(@, e)]
    BY <1>2, <2>1, Zenon DEF C!Recv
  <2>4. CASE UNCHANGED <<ring, since>>
    BY <2>2, <2>4
  <2>5. CASE /\ ring' = [ring EXCEPT ![s] = C!Push(@, e)]
             /\ since' = [since EXCEPT ![s] = Append(@, e)]
    <3>1. since[s] \in Seq(Sighted)
      OBVIOUS
    <3>2. Append(since[s], e) \in Seq(Sighted)
      BY <3>1, AppendProperties
    <3>3. since' \in [C!Sides -> Seq(Sighted)]
      BY <2>5, <3>2
    <3>4. C!Push(ring[s], e) = LastOf(Append(since[s], e))
      BY <3>1, PushKeepsTheLast
    <3>5. ring' = [t \in C!Sides |-> LastOf(since'[t])]
      BY <2>5, <3>4
    <3> QED
      BY <2>2, <3>3, <3>5
  <2> QED
    BY <2>3, <2>4, <2>5
<1>3. CASE C!Pause \/ C!Close \/ UNCHANGED compareVars
  BY <1>3 DEF C!Pause, C!Close, compareVars
<1>4. CASE C!Resume
  <2>1. /\ ring' = [s \in C!Sides |-> <<>>] /\ since' = [s \in C!Sides |-> <<>>]
        /\ UNCHANGED <<sent, pending>>
    BY <1>4 DEF C!Resume
  <2>2. <<>> \in Seq(Sighted)
    OBVIOUS
  <2>3. LastOf(<<>>) = <<>>
    <3>1. LastOf(<<>>) = SubSeq(<<>>, 1, 0)
      BY RingCapAssumption DEF LastOf
    <3> QED
      BY <3>1
  <2> QED
    BY <2>1, <2>2, <2>3
<1> QED
  BY <1>1, <1>2, <1>3, <1>4 DEF C!CompareNext

\* Every step is one of the compare screen or leaves its variables alone.
LEMMA OnlyTheScreen == [Next]_vars => [C!CompareNext]_compareVars
<1> SUFFICES ASSUME [Next]_vars PROVE C!CompareNext \/ UNCHANGED compareVars
  OBVIOUS
<1>1. ASSUME NEW run, NEW code, Over(run, code)
      PROVE  UNCHANGED compareVars
  BY <1>1 DEF Over
<1>2. CASE Dispatch
  BY <1>2 DEF Dispatch
<1>3. CASE Auditing
  BY <1>1, <1>3 DEF Auditing
<1>4. CASE Crawling
  BY <1>1, <1>4 DEF Crawling
<1>5. CASE Measuring
  BY <1>1, <1>5 DEF Measuring
<1>6. CASE Exporting
  BY <1>1, <1>6 DEF Exporting, Capture, WriteExport, ExportFails
<1>7. CASE Comparing
  BY <1>1, <1>7 DEF Comparing
<1>8. CASE MultiCdn
  BY <1>1, <1>8 DEF MultiCdn
<1>9. CASE Agent
  BY <1>1, <1>9 DEF Agent
<1>10. CASE Whep \/ Elsewhere \/ UNCHANGED vars
  BY <1>1, <1>10 DEF Whep, Elsewhere, vars
<1> QED
  BY <1>2, <1>3, <1>4, <1>5, <1>6, <1>7, <1>8, <1>9, <1>10 DEF Next

\* A paused compare screen stands still, and resuming it applies the last
\* PAUSE_RING_CAP events of each side, however many came (PauseRingBuffer,
\* handle_key).
THEOREM ResumingCatchesUp == Spec => ResumeCatchesUp
<1>1. CompareInv /\ [Next]_vars => [Resuming]_vars
  <2> SUFFICES ASSUME CompareInv, [C!CompareNext]_compareVars PROVE Resuming
    BY OnlyTheScreen
  <2>1. CASE C!Resume
    BY <2>1 DEF C!Resume, CompareInv, Resuming
  <2>2. CASE C!Pause
    BY <2>2 DEF C!Pause, Resuming
  <2>3. CASE C!Close \/ UNCHANGED compareVars \/ \E s \in C!Sides : C!Send(s)
    BY <2>3 DEF C!Close, C!Send, compareVars, Resuming
  <2>4. ASSUME NEW s \in C!Sides, C!Recv(s) PROVE Resuming
    BY <2>4 DEF C!Recv, Resuming
  <2> QED
    BY <2>1, <2>2, <2>3, <2>4 DEF C!CompareNext
<1>2. CompareInv /\ [Next]_vars => CompareInv'
  BY OnlyTheScreen, CompareInvStep
<1> QED
  BY CompareInvInit, <1>1, <1>2, PTL DEF Spec, ResumeCatchesUp
=============================================================================
