----------------------------- MODULE IntentEngine -----------------------------
(***************************************************************************)
(* cognos-intent: requests share one IntentParser behind a mutex that is   *)
(* held across the inference.  A parse looks in the IntentKvCache, asks    *)
(* the HTTP backend, which retries once on output the schema validator     *)
(* rejects, and degrades to the keyword backend on any failure.            *)
(***************************************************************************)
EXTENDS Integers, Sequences, FiniteSets, SequencesExt

CONSTANTS
  Requests, Inputs,    \* normalised inputs with the session's domain: the cache's key
  BlankInput,          \* an input that normalises to nothing
  InputOf(_),          \* the input of a request
  Outputs,             \* what the language model may answer
  MaxEntries, MaxAge,  \* MAX_ENTRIES and MAX_AGE_SECS, scaled down
  MaxIntentTime        \* bound of the clock

ASSUME IntentAssumption == {MaxEntries, MaxAge, MaxIntentTime} \subseteq Nat /\ MaxEntries > 0 /\ BlankInput \notin Inputs

VARIABLES
  phase,   \* where a request is
  holder,  \* who has the parser
  cache,   \* per key: the stored schema
  reply,   \* the response a request got
  time
intentVars == <<phase, holder, cache, reply, time>>

NoEntryYet == [id |-> "nobody"]
NoReply == [status |-> "none"]
Free == "free"

ASSUME NamesAssumption ==
  Free \notin Requests /\ \A o \in Outputs : o.source = "model"

\* The schema validator: parse_llm_output_with_injection, parse_f32, validate.
ParsedLax(o) == o.json /\ o.goal \notin {"missing", "empty"} /\ o.scores = "in range" /\ o.candidates
Parsed(o) ==
  /\ o.json /\ o.goal \notin {"missing", "empty"}
  /\ o.scores = "in range" /\ o.candidates
  /\ o.required => o.question

\* KeywordBackend::build_intent, serialized: what the parser reads back.
KeywordOutputMute(certain) ==
  [json |-> TRUE, goal |-> "run", scores |-> "in range", candidates |-> TRUE,
   required |-> ~certain, question |-> FALSE, confidence |-> IF certain THEN 40 ELSE 25, source |-> "keyword"]
KeywordOutput(certain) ==
  [json |-> TRUE, goal |-> "run", scores |-> "in range", candidates |-> TRUE,
   required |-> ~certain, question |-> ~certain, confidence |-> IF certain THEN 40 ELSE 25, source |-> "keyword"]

\* non_executable_reason
NetworkGoals == {"network_download", "network_send"}
StatusOf(goal) == IF goal \in NetworkGoals THEN "unsupported" ELSE "ok"

IntentInit ==
  /\ phase = [r \in Requests |-> "idle"] /\ holder = Free
  /\ cache = [i \in Inputs |-> NoEntryYet]
  /\ reply = [r \in Requests |-> NoReply] /\ time = 0

Stored == {i \in Inputs : cache[i] # NoEntryYet}
Expired(i) == time - cache[i].born > MaxAge

Arrive(r) ==
  /\ phase[r] = "idle" /\ phase' = [phase EXCEPT ![r] = "waiting"]
  /\ UNCHANGED <<holder, cache, reply, time>>

Answer(r, a) ==
  /\ reply' = [reply EXCEPT ![r] = a] /\ phase' = [phase EXCEPT ![r] = "done"] /\ holder' = Free

\* parse up to the inference: blank input, a hit, an expired or a missing entry.
Lookup(r) ==
  LET i == InputOf(r) IN
  /\ phase[r] = "waiting" /\ holder = Free /\ UNCHANGED time
  /\ CASE i = BlankInput ->
            /\ Answer(r, [status |-> "ok", id |-> r, hit |-> FALSE, from |-> r, source |-> "none", age |-> 0])
            /\ UNCHANGED cache
       [] i # BlankInput /\ i \in Stored /\ ~Expired(i) ->
            /\ Answer(r, [status |-> StatusOf(cache[i].goal), id |-> cache[i].id, hit |-> TRUE,
                          from |-> cache[i].id, source |-> cache[i].source, age |-> time - cache[i].born])
            /\ cache' = [cache EXCEPT ![i].used = time]
       [] OTHER ->
            /\ cache' = (IF i \in Stored THEN [cache EXCEPT ![i] = NoEntryYet] ELSE cache)
            /\ phase' = [phase EXCEPT ![r] = "inferring"] /\ holder' = r /\ UNCHANGED reply

\* IntentKvCache::insert with evict_lru: the caches it may leave.
InsertUnsure(i, e) == {[cache EXCEPT ![i] = e]}
Insert(i, e) ==
  LET oldest == {j \in Stored : \A k \in Stored : cache[j].used <= cache[k].used}
      victims == IF Cardinality(Stored) >= MaxEntries THEN oldest ELSE {i} IN
  IF e.confidence < 80 THEN {cache}
  ELSE {[j \in Inputs |-> IF j = i THEN e ELSE IF j = v THEN NoEntryYet ELSE cache[j]] : v \in victims}

\* The output reaches parse, is read again and answered.
Finish(r, o) ==
  /\ UNCHANGED time
  /\ IF Parsed(o)
     THEN /\ cache' \in Insert(InputOf(r), [id |-> r, goal |-> o.goal, confidence |-> o.confidence,
                                          source |-> o.source, born |-> time, used |-> time])
          /\ Answer(r, [status |-> StatusOf(o.goal), id |-> r, hit |-> FALSE, from |-> r, source |-> o.source, age |-> 0])
     ELSE /\ Answer(r, [status |-> "failed", id |-> r, hit |-> FALSE, from |-> r, source |-> o.source, age |-> 0])
          /\ UNCHANGED cache

\* complete answers with output; infer keeps it or asks once more.
Completes(r, o) ==
  /\ phase[r] \in {"inferring", "correcting"}
  /\ \/ Parsed(o) /\ Finish(r, o)
     \/ /\ ~Parsed(o) /\ phase[r] = "inferring"
        /\ phase' = [phase EXCEPT ![r] = "correcting"] /\ UNCHANGED <<holder, cache, reply, time>>
     \/ ~Parsed(o) /\ phase[r] = "correcting" /\ \E certain \in BOOLEAN : Finish(r, KeywordOutput(certain))
\* complete fails: refused, timed out, wrong status, empty or malformed body.
CompletionFails(r) ==
  phase[r] \in {"inferring", "correcting"} /\ \E certain \in BOOLEAN : Finish(r, KeywordOutput(certain))

CancelHolding(r) ==
  /\ phase[r] \in {"waiting", "inferring", "correcting"}
  /\ phase' = [phase EXCEPT ![r] = "gone"] /\ UNCHANGED <<holder, cache, reply, time>>
\* The caller goes away: the handler's future is dropped, and the lock with it.
Cancel(r) ==
  /\ phase[r] \in {"waiting", "inferring", "correcting"}
  /\ phase' = [phase EXCEPT ![r] = "gone"] /\ holder' = (IF holder = r THEN Free ELSE holder)
  /\ UNCHANGED <<cache, reply, time>>

InvalidateAll == holder = Free /\ Stored # {} /\ cache' = [i \in Inputs |-> NoEntryYet] /\ UNCHANGED <<phase, holder, reply, time>>
IntentTick == time < MaxIntentTime /\ time' = time + 1 /\ UNCHANGED <<phase, holder, cache, reply>>

Infers(r) == CompletionFails(r) \/ \E o \in Outputs : Completes(r, o)
IntentNext ==
  \/ \E r \in Requests : Arrive(r) \/ Lookup(r) \/ Infers(r) \/ Cancel(r)
  \/ InvalidateAll \/ IntentTick

IntentTypeOK ==
  /\ phase \in [Requests -> {"idle", "waiting", "inferring", "correcting", "done", "gone"}]
  /\ holder \in Requests \cup {Free} /\ time \in 0..MaxIntentTime
  /\ \A i \in Inputs : cache[i].id \in Requests \cup {"nobody"}
  /\ \A r \in Requests : reply[r].status \in {"none", "ok", "unsupported", "failed"}

(* What keeps these: a reply is the request's own or an entry's, and an    *)
(* entry is of its key's input and not the keyword backend's.              *)
Replies(r) == [status : {"ok", "unsupported"}, id : {s \in Requests : InputOf(s) = InputOf(r)}, hit : BOOLEAN,
               from : Requests, source : {"none", "model", "keyword"}, age : Int]
Entries == [id : Requests, goal : {o.goal : o \in Outputs}, confidence : {o.confidence : o \in Outputs},
            source : {"model"}, born : Nat, used : Nat]
CacheGood ==
  /\ DOMAIN cache = Inputs /\ IsFiniteSet(Stored) /\ Cardinality(Stored) <= MaxEntries
  /\ \A i \in Stored : cache[i] \in Entries /\ InputOf(cache[i].id) = i
ReplyGood(r) ==
  reply[r] # NoReply =>
    /\ reply[r] \in Replies(r) /\ (~reply[r].hit => reply[r].id = r)
    /\ reply[r].hit => reply[r].age <= MaxAge /\ reply[r].source # "keyword"
HolderGood == \A r \in Requests : phase[r] \in {"inferring", "correcting"} <=> holder = r
IntentShape ==
  /\ phase \in [Requests -> {"idle", "waiting", "inferring", "correcting", "done", "gone"}]
  /\ holder \in Requests \cup {Free} /\ time \in 0..MaxIntentTime /\ DOMAIN reply = Requests
IntentInv == IntentShape /\ CacheGood /\ HolderGood /\ \A r \in Requests : ReplyGood(r)

(***************************************************************************)
(* Whatever the model answers, a request never ends in "failed": what the  *)
(* backends let through, the keyword answer included, parses again.  Two   *)
(* replies carry the same intent id only when one was served from the      *)
(* cache, for the same input, within the age limit, and never from a       *)
(* keyword answer; the cache keeps its size and the parser its one user.   *)
(***************************************************************************)
RepliesSound ==
  /\ \A r \in Requests : reply[r].status # "failed"
  /\ \A r, s \in Requests :
       r # s /\ reply[r] # NoReply /\ reply[s] # NoReply /\ reply[r].id = reply[s].id =>
         (reply[r].hit \/ reply[s].hit) /\ InputOf(r) = InputOf(s)
  /\ \A r \in Requests : reply[r] # NoReply /\ reply[r].hit => reply[r].age <= MaxAge /\ reply[r].source # "keyword"
  /\ Cardinality(Stored) <= MaxEntries
  /\ \A r \in Requests : phase[r] \in {"inferring", "correcting"} <=> holder = r

\* A request that waits is answered, unless its caller leaves: the backend answers or times out.
RequestsEnd == \A r \in Requests : phase[r] = "waiting" ~> phase[r] \in {"done", "gone"}

-------------------------------------------------------------------------------
(***************************************************************************)
(* What follows a parsed intent: the DisambiguationEngine                  *)
(* (disambiguation.rs), which asks, remembers what the user chose and      *)
(* keeps it in a file, and the ActionGraph (action_graph.rs), which orders *)
(* the actions.                                                            *)
(***************************************************************************)

CONSTANTS
  Contexts,        \* hashes of goal, domain and last active domain
  CandidateLists,  \* sequences of [target, domain, draft, confidence, recency]
  GraphNodes       \* nodes of the action graph, in the order of sort_deterministic

ASSUME ChoicesAssumption ==
  /\ GraphNodes \subseteq Nat /\ IsFiniteSet(GraphNodes)
  /\ \A cands \in CandidateLists :
       /\ Len(cands) \in Nat /\ DOMAIN cands = 1..Len(cands)
       /\ \A i \in DOMAIN cands : {cands[i].confidence, cands[i].recency} \subseteq Int

VARIABLES
  learned, stored, \* learned_choices in memory and in the file
  chosen,          \* what the user chose last in a context
  forgot,          \* a choice was lost with a failed or torn write
  resolved,        \* the last resolution
  nodes, edges     \* the action graph
choiceVars == <<learned, stored, chosen, forgot, resolved, nodes, edges>>
memoryVars == <<learned, stored, chosen, forgot, resolved>>

Nothing == "nothing"
Unlearned == [c \in Contexts |-> Nothing]
Unresolved == [how |-> "not yet"]

ChoicesInit ==
  /\ learned = Unlearned /\ stored = Unlearned /\ chosen = Unlearned /\ forgot = FALSE
  /\ resolved = Unresolved /\ nodes = {} /\ edges = {}

\* The last candidate with the largest value, as max_by takes it.
LargestBy(cands, key(_)) ==
  CHOOSE i \in DOMAIN cands :
    /\ \A j \in DOMAIN cands : key(cands[j]) <= key(cands[i])
    /\ \A j \in DOMAIN cands : key(cands[j]) = key(cands[i]) => j <= i
ByConfidence(c) == c.confidence
ByRecency(c) == c.recency

\* classify_difference: recencies in tenths.
Classify(cands) ==
  LET top == LargestBy(cands, ByRecency)
      rest == {cands[j].recency : j \in DOMAIN cands \ {top}} IN
  IF Len(cands) < 2 THEN "NameOnly"
  ELSE IF \A r \in rest : cands[top].recency - r > 4 THEN "Recency"
  ELSE IF Cardinality({cands[i].domain : i \in DOMAIN cands}) > 1 THEN "Domain"
  ELSE IF \E i \in DOMAIN cands : cands[i].draft THEN "CompletionState" ELSE "NameOnly"

\* select_question: does it ask?
Asks(ctx, cands) == Len(cands) >= 2 /\ learned[ctx] = Nothing /\ Classify(cands) # "Recency"

\* match_response, and the most confident candidate when nothing matches.
Selected(cands, response) ==
  LET matching == {i \in DOMAIN cands : cands[i].target = response} IN
  IF matching # {} THEN CHOOSE i \in matching : \A j \in matching : j <= i ELSE LargestBy(cands, ByConfidence)

\* resolve: learn, record, write the file; a write that fails is ignored.
Resolve(ctx, cands, response, written) ==
  LET target == cands[Selected(cands, response)].target IN
  /\ Asks(ctx, cands)
  /\ learned' = [learned EXCEPT ![ctx] = target] /\ chosen' = [chosen EXCEPT ![ctx] = target]
  /\ stored' = IF written THEN learned' ELSE stored
  /\ forgot' = (forgot \/ ~written) /\ resolved' = Unresolved
  /\ UNCHANGED <<nodes, edges>>

\* try_auto_resolve: the learned target, else the first candidate; or the recent one.
AutoPickStale(ctx, cands) ==
  IF learned[ctx] # Nothing /\ cands # <<>> THEN 1
  ELSE IF learned[ctx] = Nothing /\ Classify(cands) = "Recency" THEN LargestBy(cands, ByRecency) ELSE 0
AutoPick(ctx, cands) ==
  LET same == {i \in DOMAIN cands : cands[i].target = learned[ctx]} IN
  IF learned[ctx] # Nothing /\ cands # <<>>
  THEN IF same = {} THEN 1 ELSE CHOOSE i \in same : \A j \in same : i <= j
  ELSE IF learned[ctx] = Nothing /\ Classify(cands) = "Recency" THEN LargestBy(cands, ByRecency) ELSE 0
TryAutoResolve(ctx, cands) ==
  /\ AutoPick(ctx, cands) # 0
  /\ resolved' = [how |-> "auto", ctx |-> ctx, cands |-> cands, target |-> cands[AutoPick(ctx, cands)].target]
  /\ UNCHANGED <<learned, stored, chosen, forgot, nodes, edges>>

\* A stop in the middle of persist tears the file, which the next load reads as empty.
StopWhileWriting == learned # Unlearned /\ learned' = Unlearned /\ stored' = Unlearned /\ forgot' = TRUE /\ resolved' = Unresolved /\ UNCHANGED <<chosen, nodes, edges>>
LoadChoices == learned # stored /\ learned' = stored /\ resolved' = Unresolved /\ UNCHANGED <<stored, chosen, forgot, nodes, edges>>

-------------------------------------------------------------------------------
AddNode(n) == n \notin nodes /\ nodes' = nodes \cup {n} /\ UNCHANGED <<edges, memoryVars>>
AddDependency(a, b) == {a, b} \subseteq nodes /\ edges' = edges \cup {<<a, b>>} /\ UNCHANGED <<nodes, memoryVars>>

\* execution_order: Kahn's algorithm, ready nodes sorted when they become ready.
Sorted(set) == [k \in 1..Cardinality(set) |-> CHOOSE n \in set : Cardinality({m \in set : m <= n}) = k]
StepEager(k) ==
  LET n == Head(k.queue) IN
  [order |-> Append(k.order, n),
   queue |-> Tail(k.queue) \o Sorted({m \in nodes : <<n, m>> \in edges /\ m \notin Range(k.order) \cup Range(k.queue)})]
KahnStep(k) ==
  LET n == Head(k.queue)
      placed == Range(k.order) \cup {n}
      ready == {m \in nodes \ placed : <<n, m>> \in edges /\ \A p \in nodes : <<p, m>> \in edges => p \in placed} IN
  [order |-> Append(k.order, n), queue |-> Tail(k.queue) \o Sorted(ready)]
ExecutionOrder ==
  LET start == [order |-> <<>>, queue |-> Sorted({n \in nodes : \A p \in nodes : <<p, n>> \notin edges})]
      run[i \in 0..Cardinality(GraphNodes)] ==
        IF i = 0 THEN start ELSE IF run[i - 1].queue = <<>> THEN run[i - 1] ELSE KahnStep(run[i - 1]) IN
  run[Cardinality(GraphNodes)].order

ChoicesNext ==
  \/ /\ nodes = {}
     /\ \/ \E ctx \in Contexts, cands \in CandidateLists :
             \/ TryAutoResolve(ctx, cands)
             \/ \E response \in {cands[i].target : i \in DOMAIN cands} \cup {"unclear"}, written \in BOOLEAN :
                  Resolve(ctx, cands, response, written)
        \/ StopWhileWriting \/ LoadChoices
  \/ /\ chosen = Unlearned /\ resolved = Unresolved
     /\ \/ \E n \in GraphNodes : AddNode(n)
        \/ \E a, b \in GraphNodes : AddDependency(a, b)

ChoicesTypeOK ==
  /\ DOMAIN learned = Contexts /\ DOMAIN chosen = Contexts /\ forgot \in BOOLEAN
  /\ nodes \subseteq GraphNodes /\ edges \subseteq nodes \X nodes

(* What keeps the first: memory and file hold the last choices, until a    *)
(* write is lost.                                                          *)
ChoicesInv ==
  /\ ChoicesTypeOK /\ DOMAIN stored = Contexts
  /\ ~forgot => learned = chosen /\ stored = chosen
  /\ resolved.how = "auto" => resolved.ctx \in Contexts
  /\ resolved.how = "auto" /\ ~forgot /\ chosen[resolved.ctx] # Nothing =>
       \/ resolved.target = chosen[resolved.ctx]
       \/ \A i \in DOMAIN resolved.cands : resolved.cands[i].target # chosen[resolved.ctx]

(***************************************************************************)
(* With two candidates or more, either a question is asked or the engine   *)
(* resolves by itself; what it resolves to is the user's last choice in    *)
(* that context whenever that is a candidate, as long as no write of the   *)
(* file failed or was torn.                                                *)
(***************************************************************************)
ChoicesHonoured ==
  /\ \A ctx \in Contexts, cands \in CandidateLists :
       Len(cands) >= 2 => (Asks(ctx, cands) <=> AutoPick(ctx, cands) = 0)
  /\ resolved.how = "auto" /\ ~forgot /\ chosen[resolved.ctx] # Nothing =>
       \/ resolved.target = chosen[resolved.ctx]
       \/ \A i \in DOMAIN resolved.cands : resolved.cands[i].target # chosen[resolved.ctx]

(***************************************************************************)
(* execution_order places every node exactly when the graph has no cycle,  *)
(* and then places a node after all it depends on; otherwise the caller    *)
(* falls back to an unordered list (graph_to_proto).                       *)
(***************************************************************************)
OrderSound ==
  LET order == ExecutionOrder
      reach == {s \in SUBSET nodes : s # {} /\ \A n \in s : \E p \in s : <<p, n>> \in edges} IN
  /\ Len(order) = Cardinality(nodes) <=> reach = {}
  /\ \A i, j \in DOMAIN order : i # j => order[i] # order[j]
  /\ \A i, j \in DOMAIN order : <<order[i], order[j]>> \in edges => i < j
===============================================================================
