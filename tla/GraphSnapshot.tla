--------------------------- MODULE GraphSnapshot ---------------------------
(***************************************************************************)
(* The fan-out over all providers into the graph table and the snapshot    *)
(* bucket: deadbolt.graph.snapshot.run_snapshot and graph.store.  Runs of  *)
(* one hour share the keys of their objects and their record.  Only rows   *)
(* of entitlements are modelled; rows of identities are written, and their *)
(* writes may fail.                                                        *)
(***************************************************************************)
EXTENDS ProviderAdapters, FiniteSets, Sequences

CONSTANTS
    SystemOrder, \* the providers of a run in the order of their names
    Row,         \* the key under which the entitlement of a place is stored
    BatchSize,   \* how many rows one request writes
    MaxAttempts  \* how often a batch is tried

ASSUME GraphAssumption ==
    /\ BatchSize \in Nat \ {0}
    /\ MaxAttempts \in Nat \ {0}
    /\ SystemOrder \in Seq(STRING) \ {<<>>}

VARIABLES
    table,   \* the rows of entitlements
    objects, \* the snapshot objects of the systems that have one, as rows
    record,  \* the record of the hour: what became of each system
    run      \* the variables of the run that is under way

graphVars == <<table, objects, record, run>>

SystemOf(p) ==
    CASE Kind[p] \in GitHub \union Enterprise -> "github"
      [] Kind[p] \in Aws -> "aws-iam"
      [] Kind[p] \in Salesforce -> "salesforce"
      [] Kind[p] \in Workday -> "workday"
      [] OTHER -> "fixture"

Systems == {SystemOrder[n] : n \in DOMAIN SystemOrder}

Rows(places) == {Row[p] : p \in places}

Nothing == [s \in {} |-> {}]

With(f, s, value) ==
    [x \in DOMAIN f \union {s} |-> IF x = s THEN value ELSE f[x]]

NoRun == [at |-> "idle", next |-> 1, listed |-> {}, todo |-> {}, pending |-> {},
          tries |-> 0, statuses |-> Nothing]

GraphInit ==
    /\ table = {}
    /\ objects = Nothing
    /\ record = Nothing
    /\ run = NoRun

-----------------------------------------------------------------------------
BeginRun ==
    /\ run.at \in {"idle", "recorded", "aborted"}
    /\ Spend("runs")
    /\ run' = [NoRun EXCEPT !.at = "list"]
    /\ UNCHANGED <<table, objects, record>>

Current == SystemOrder[run.next]

\* A run goes on with the next system.
NextSystem(status) ==
    [run EXCEPT !.at = IF run.next = Len(SystemOrder) THEN "record" ELSE "list",
                !.next = @ + 1, !.statuses = With(@, Current, status)]

Abort == run' = [run EXCEPT !.at = "aborted"]

\* Faulty variant of Stale, for checking: a provider that fails ends the run.
StaleEnds == [run EXCEPT !.at = "stopped"]

\* A provider that fails is left out.
Stale == NextSystem("stale")

ListSystem ==
    LET listed == {p \in Places : Listable(p) /\ SystemOf(p) = Current}
    IN  /\ run.at = "list"
        /\ run' \in {Stale, [run EXCEPT !.at = "write", !.listed = listed, !.todo = listed]}
        /\ UNCHANGED <<table, objects, record, left>>

\* Rows are written in batches.  A batch that names a key twice is refused.
TakeBatch ==
    /\ run.at = "write"
    /\ IF run.todo = {} THEN run' = [run EXCEPT !.at = "identities"]
       ELSE \E batch \in SUBSET run.todo :
              /\ Cardinality(batch) =
                    IF Cardinality(run.todo) < BatchSize THEN Cardinality(run.todo) ELSE BatchSize
              /\ IF Cardinality(Rows(batch)) < Cardinality(batch) THEN Abort
                 ELSE run' = [run EXCEPT !.at = "batch", !.todo = @ \ batch,
                                         !.pending = Rows(batch), !.tries = MaxAttempts]
    /\ UNCHANGED <<table, objects, record, left>>

\* Faulty variant of GivesUp, for checking: the rest of a batch is forgotten.
GivesUpSilently(rest) == [run EXCEPT !.at = "write", !.pending = {}]

\* What a run does when a batch was tried often enough.
GivesUp(rest) == [run EXCEPT !.at = "aborted", !.pending = rest]

\* The table takes any part of a batch and gives the rest back, or the request
\* fails.
WriteBatch ==
    /\ run.at = "batch"
    /\ \E taken \in SUBSET run.pending :
          LET rest == run.pending \ taken
          IN  /\ table' = table \union taken
              /\ \/ Abort
                 \/ run' = CASE rest = {} -> [run EXCEPT !.at = "write", !.pending = {}]
                             [] rest # {} /\ run.tries = 1 -> GivesUp(rest)
                             [] OTHER -> [run EXCEPT !.pending = rest, !.tries = @ - 1]
    /\ UNCHANGED <<objects, record, left>>

\* One row for each identity, one after the other.
WriteIdentities ==
    /\ run.at = "identities"
    /\ Abort \/ run' = [run EXCEPT !.at = "object"]
    /\ UNCHANGED <<table, objects, record, left>>

WriteObject ==
    /\ run.at = "object"
    /\ \/ /\ objects' = With(objects, Current, Rows(run.listed))
          /\ Abort \/ run' = NextSystem("fresh")
       \/ Abort /\ UNCHANGED objects
    /\ UNCHANGED <<table, record, left>>

WriteRecord ==
    /\ run.at = "record"
    /\ \/ /\ record' = run.statuses
          /\ Abort \/ run' = [run EXCEPT !.at = "recorded"]
       \/ Abort /\ UNCHANGED record
    /\ UNCHANGED <<table, objects, left>>

GraphStep ==
    /\ \/ ListSystem \/ TakeBatch \/ WriteBatch \/ WriteIdentities \/ WriteObject \/ WriteRecord
    /\ UNCHANGED <<worldVars, adapterVars>>

FanOut ==
    \/ GraphStep
    \/ BeginRun /\ UNCHANGED <<worldVars, adapterVars>>

-----------------------------------------------------------------------------
(* Reading the table. *)

\* Who holds a right on the place of a row, or did.
WhoCanReach(rows) == rows \intersect table

-----------------------------------------------------------------------------
(* Properties. *)

Statuses == UNION {[S -> {"fresh", "stale"}] : S \in SUBSET Systems}

Runs ==
    [at : {"idle", "list", "write", "batch", "identities", "object", "record", "recorded",
           "aborted"},
     next : Nat, listed : SUBSET Places, todo : SUBSET Places, pending : SUBSET Rows(Places),
     tries : Nat, statuses : Statuses]

GraphTypeOK ==
    /\ table \subseteq Rows(Places)
    /\ DOMAIN objects \subseteq Systems
    /\ \A s \in DOMAIN objects : objects[s] \subseteq Rows(Places)
    /\ record \in Statuses
    /\ run \in Runs
    /\ run.at \in {"list", "write", "batch", "identities", "object"} =>
          run.next \in DOMAIN SystemOrder

\* A system that the record calls fresh has an object, and every row of it can
\* be found in the table, whatever failed, was tried again or was run twice
\* (store.py:136, snapshot.py:109).
FreshIsStored ==
    \A s \in DOMAIN record : record[s] = "fresh" =>
        s \in DOMAIN objects /\ WhoCanReach(objects[s]) = objects[s]

\* A run that begins is recorded, with every system, unless a write failed: a
\* provider that fails does not keep the others from being stored
\* (snapshot.py:105).  A run that a failed write aborts ends without a record,
\* and what it had stored by then stays (snapshot.py:109): that the record tells
\* of every run is not claimed.
RunIsRecorded ==
    (run.at = "list") ~> \/ run.at = "recorded" /\ DOMAIN run.statuses = Systems
                         \/ run.at = "aborted"
=============================================================================
