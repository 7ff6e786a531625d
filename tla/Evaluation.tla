----------------------------- MODULE Evaluation -----------------------------
(***************************************************************************)
(* The M6 evaluation runner: it starts two containers, fills them, runs    *)
(* every case against them and takes everything down again.  Any call may  *)
(* raise; what has to be released then depends on how far the run was.     *)
(*                                                                         *)
(* The fixtures are the names in them; what the two searches find is       *)
(* chosen freely.  A text is the record of the names it mentions, which is *)
(* what the content of a chunk or of evidence is for the runner.           *)
(***************************************************************************)
EXTENDS Integers, Sequences, FiniteSets

CONSTANTS
    Fixtures,   \* the names of the entities in both stores
    Cases,      \* the dataset: a sequence of [seed, expected, multi_hop]
    NoName      \* no expected_object_entity, and no improvement that can be stated

ASSUME EvaluationConstants ==
    /\ NoName \notin Fixtures
    /\ \A k \in DOMAIN Cases : Cases[k].expected \in Fixtures \cup {NoName}

Containers == {"neo4j", "postgres"}

VARIABLES
    stage,       \* what run_evaluation does next
    container,   \* container[c]: "absent", "running" or "stopped"
    driver,      \* "none", "open" or "closed"
    pg_conn,
    results,     \* what came of the cases so far
    report,      \* what is returned, in the end
    outcome,     \* how the try block ended: "none", "completed", "skipped" or "raised"
    unreleased   \* history: containers the code cannot take down after what raised

evaluationVars == <<stage, container, driver, pg_conn, results, report, outcome, unreleased>>

NoReport == [evaluated |-> 0, improvement |-> NoName, meets_target |-> FALSE]

EvaluationInit ==
    /\ stage = "start neo4j"
    /\ container = [c \in Containers |-> "absent"]
    /\ driver = "none" /\ pg_conn = "none"
    /\ results = <<>> /\ report = NoReport /\ outcome = "none" /\ unreleased = {}

At(s) == stage = s
Then(s) == stage' = s

Running(c) == container' = [container EXCEPT ![c] = "running"]

-----------------------------------------------------------------------------
\* The first two try blocks, one for each container.

StartNeo4j ==
    /\ At("start neo4j") /\ Running("neo4j") /\ Then("look up neo4j")
    /\ UNCHANGED <<driver, pg_conn, results, report, outcome, unreleased>>

\* No Docker: nothing was started and the run is skipped.
NoNeo4j ==
    /\ At("start neo4j") /\ outcome' = "skipped" /\ Then("end")
    /\ UNCHANGED <<container, driver, pg_conn, results, report, unreleased>>

LookUpNeo4j ==
    /\ At("look up neo4j") /\ Then("start postgres")
    /\ UNCHANGED <<container, driver, pg_conn, results, report, outcome, unreleased>>

\* It runs and is not ready, or has no port: the except branch does not stop it.
NoNeo4jPort ==
    /\ At("look up neo4j") /\ outcome' = "skipped" /\ Then("end")
    /\ unreleased' = unreleased \cup {"neo4j"}
    /\ UNCHANGED <<container, driver, pg_conn, results, report>>

StartPostgres ==
    /\ At("start postgres") /\ Running("postgres") /\ Then("look up postgres")
    /\ UNCHANGED <<driver, pg_conn, results, report, outcome, unreleased>>

LookUpPostgres ==
    /\ At("look up postgres") /\ Then("connect neo4j")
    /\ UNCHANGED <<container, driver, pg_conn, results, report, outcome, unreleased>>

\* Variant: the first container is forgotten.
SkipWithoutStop ==
    /\ outcome' = "skipped" /\ UNCHANGED container

\* The except branch stops the first container, not the second.
SkipAndStop ==
    /\ outcome' = "skipped" /\ container' = [container EXCEPT !["neo4j"] = "stopped"]

NoPostgres ==
    /\ stage \in {"start postgres", "look up postgres"}
    /\ Then("end")
    /\ \/ SkipAndStop /\ unreleased' = unreleased \cup IF At("look up postgres") THEN {"postgres"} ELSE {}
       \/ /\ outcome' = "raised"
          /\ unreleased' = unreleased \cup {"neo4j"} \cup IF At("look up postgres") THEN {"postgres"} ELSE {}
          /\ UNCHANGED container
    /\ UNCHANGED <<driver, pg_conn, results, report>>

-----------------------------------------------------------------------------
\* The third try block, whose finally clause releases what there is.

ConnectNeo4j ==
    /\ At("connect neo4j") /\ driver' = "open" /\ Then("verify")
    /\ UNCHANGED <<container, pg_conn, results, report, outcome, unreleased>>

\* verify_connectivity, the entities and facts of the fixtures in one transaction.
FillNeo4j ==
    /\ At("verify") /\ Then("connect postgres")
    /\ UNCHANGED <<container, driver, pg_conn, results, report, outcome, unreleased>>

ConnectPostgres ==
    /\ At("connect postgres") /\ pg_conn' = "open" /\ Then("fill postgres")
    /\ UNCHANGED <<container, driver, results, report, outcome, unreleased>>

\* The tables, and a chunk with its embedding for every entity.
FillPostgres ==
    /\ At("fill postgres") /\ Then("evaluate")
    /\ UNCHANGED <<container, driver, pg_conn, results, report, outcome, unreleased>>

Text(names) == [mentions |-> names]
Recall(found) == IF found THEN 1 ELSE 0

\* relative_improvement, in per cent: none can be stated over a baseline of zero.
Improvement(baseline, hybrid) ==
    IF hybrid <= baseline THEN 0
    ELSE IF baseline = 0 THEN NoName ELSE ((hybrid - baseline) * 100) \div baseline

\* _evaluate_case with the chunks and the last objects of the paths that were found. A
\* name is looked for among the texts that mention it, and so among things it never equals.
CaseResult(case, chunks, objects) ==
    LET texts == {Text({n}) : n \in chunks}
        evidence == {Text({case.seed, n}) : n \in objects}
        naming(S) == {t \in S : case.expected \in t.mentions}
        vector == Recall(case.expected \in naming(texts))
        hybrid == Recall(case.expected \in naming(texts \cup evidence))
    IN  IF case.seed \notin Fixtures
        THEN [error |-> TRUE, vector |-> 0, graph |-> 0, hybrid |-> 0, improvement |-> NoName,
              multi_hop |-> case.multi_hop]
        ELSE [error |-> FALSE, vector |-> vector, graph |-> Recall(case.expected \in objects),
              hybrid |-> hybrid, improvement |-> Improvement(vector, hybrid),
              multi_hop |-> case.multi_hop]

EvaluateCase(chunks, objects) ==
    /\ At("evaluate") /\ Len(results) < Len(Cases)
    /\ results' = Append(results, CaseResult(Cases[Len(results) + 1], chunks, objects))
    /\ UNCHANGED <<stage, container, driver, pg_conn, report, outcome, unreleased>>

\* Both sums are over the same cases, so means compare as sums do.
Report ==
    LET multi == {k \in DOMAIN results : results[k].multi_hop /\ ~results[k].error}
        vector == Cardinality({k \in multi : results[k].vector = 1})
        hybrid == Cardinality({k \in multi : results[k].hybrid = 1})
        gain == IF vector > 0 THEN ((hybrid - vector) * 100) \div vector ELSE Improvement(vector, hybrid)
    IN  /\ At("evaluate") /\ Len(results) = Len(Cases)
        /\ report' = [evaluated |-> Cardinality({k \in DOMAIN results : ~results[k].error}),
                      improvement |-> gain,
                      meets_target |-> gain # NoName /\ gain >= 15]
        /\ outcome' = "completed" /\ Then("close postgres")
        /\ UNCHANGED <<container, driver, pg_conn, results, unreleased>>

InTry == {"connect neo4j", "verify", "connect postgres", "fill postgres", "evaluate"}

Raise ==
    /\ stage \in InTry
    /\ outcome' = "raised" /\ Then("close postgres")
    /\ UNCHANGED <<container, driver, pg_conn, results, report, unreleased>>

-----------------------------------------------------------------------------
\* finally: in this order, each if there is something to release.

ClosePostgres ==
    /\ At("close postgres") /\ Then("close neo4j")
    /\ pg_conn' = IF pg_conn = "open" THEN "closed" ELSE pg_conn
    /\ UNCHANGED <<container, driver, results, report, outcome, unreleased>>

CloseNeo4j ==
    /\ At("close neo4j") /\ Then("stop neo4j")
    /\ driver' = IF driver = "open" THEN "closed" ELSE driver
    /\ UNCHANGED <<container, pg_conn, results, report, outcome, unreleased>>

StopNeo4j ==
    /\ At("stop neo4j") /\ Then("stop postgres")
    /\ container' = [container EXCEPT !["neo4j"] = "stopped"]
    /\ UNCHANGED <<driver, pg_conn, results, report, outcome, unreleased>>

StopPostgres ==
    /\ At("stop postgres") /\ Then("end")
    /\ container' = [container EXCEPT !["postgres"] = "stopped"]
    /\ UNCHANGED <<driver, pg_conn, results, report, outcome, unreleased>>

\* A close or a stop raises: what comes after it in the clause is not done.
ReleaseRaises ==
    /\ \/ At("close postgres") /\ pg_conn = "open"
       \/ At("close neo4j") /\ driver = "open"
       \/ At("stop neo4j") \/ At("stop postgres")
    /\ outcome' = "raised" /\ Then("end")
    /\ unreleased' = unreleased \cup {c \in Containers : container[c] = "running"}
    /\ UNCHANGED <<container, driver, pg_conn, results, report>>

EvaluationNext ==
    \/ StartNeo4j \/ NoNeo4j \/ LookUpNeo4j \/ NoNeo4jPort
    \/ StartPostgres \/ LookUpPostgres \/ NoPostgres
    \/ ConnectNeo4j \/ FillNeo4j \/ ConnectPostgres \/ FillPostgres
    \/ \E chunks, objects \in SUBSET Fixtures : EvaluateCase(chunks, objects)
    \/ Report \/ Raise
    \/ ClosePostgres \/ CloseNeo4j \/ StopNeo4j \/ StopPostgres \/ ReleaseRaises

EvaluationSpec == EvaluationInit /\ [][EvaluationNext]_evaluationVars

-----------------------------------------------------------------------------
(***************************************************************************)
(* Whatever raises, a run that has ended left no container running and no  *)
(* connection open behind it, except the containers whose port could not   *)
(* be looked up and those that a failing close or stop kept it from.       *)
(***************************************************************************)
NothingLeftRunning ==
    At("end") =>
        /\ \A c \in Containers : container[c] = "running" => c \in unreleased
        /\ unreleased = {} => driver # "open" /\ pg_conn # "open"

-----------------------------------------------------------------------------
\* What the run holds at each of its stages, which is what makes a failing close or stop
\* leave a container in unreleased, and never an open connection alone.

Early == {"start neo4j", "look up neo4j", "start postgres", "look up postgres", "connect neo4j"}
Stages == Early \cup InTry \cup {"close postgres", "close neo4j", "stop neo4j", "stop postgres", "end"}

EvaluationTypeOK ==
    /\ stage \in Stages
    /\ container \in [Containers -> {"absent", "running", "stopped"}]
    /\ driver \in {"none", "open", "closed"} /\ pg_conn \in {"none", "open", "closed"}
    /\ unreleased \subseteq Containers

HeldAtStage ==
    /\ At("start neo4j") => container["neo4j"] = "absent"
    /\ stage \in {"start neo4j", "look up neo4j", "start postgres"} => container["postgres"] = "absent"
    /\ stage \notin {"start neo4j", "stop postgres", "end"} => container["neo4j"] = "running"
    /\ stage \in Early => driver = "none"
    /\ stage \in Early \cup {"verify", "connect postgres"} => pg_conn = "none"
    /\ stage \in {"close neo4j", "stop neo4j", "stop postgres"} => pg_conn # "open"
    /\ stage \in {"stop neo4j", "stop postgres"} => driver # "open"
    /\ At("stop postgres") => container["neo4j"] = "stopped"

EvaluationIInv == EvaluationTypeOK /\ HeldAtStage /\ NothingLeftRunning
=============================================================================
