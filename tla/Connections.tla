---------------------------- MODULE Connections ----------------------------
(***************************************************************************)
(* The connector configuration of one operator for one provider, and the   *)
(* requests that read it, work with it and write it back:                  *)
(* deadbolt.connections.  Every access to the parameter store is a step of *)
(* its own, so that requests of several browsers and instances may come    *)
(* between; a call of the provider takes any time.                         *)
(*                                                                         *)
(* A configuration is the number of the write that supplied its            *)
(* credentials; the time of the last test and the record count that are    *)
(* stored beside them are left out, but Blank is what is left when only    *)
(* these are written.                                                      *)
(***************************************************************************)
EXTENDS Naturals, Sequences

CONSTANTS
    Requests,  \* requests about the connection
    Servers,   \* the processes that serve requests
    Listings,  \* what the provider may list, as findings in detected order
    MaxWrites, \* bound on the configurations saved and removed
    MaxFaults, \* bound on the failing calls of AWS
    None

Blank == 0

ASSUME ConnectionsAssumption ==
    /\ MaxWrites \in Nat \ {0}
    /\ MaxFaults \in Nat
    /\ None \notin Nat
    /\ None \notin Requests

VARIABLES
    store,   \* the stored configuration, None without one
    pc,      \* where a request is
    local,   \* the variables of a request
    writes,  \* how many configurations were saved and removed so far
    asked,   \* history: what operators asked the store to hold
    faults   \* failing calls so far

connectionVars == <<store, pc, local, writes, asked, faults>>

Configurations == 0..MaxWrites \union {None}

NoLocal == [op |-> None, server |-> None, config |-> None, outer |-> None,
            value |-> None, records |-> <<>>, overtaken |-> FALSE]

ConnectionsInit ==
    /\ \/ store = None /\ writes = 0
       \/ store = 1 /\ writes = 1
    /\ pc = [r \in Requests |-> "idle"]
    /\ local = [r \in Requests |-> NoLocal]
    /\ asked = {store}
    /\ faults = 0

-----------------------------------------------------------------------------
Goto(r, next) == pc' = [pc EXCEPT ![r] = next]

Begin(op, i) == [NoLocal EXCEPT !.op = op, !.server = i]

\* A request ends: its variables are gone.
Leave(r) ==
    /\ Goto(r, "done")
    /\ local' = [local EXCEPT ![r] = NoLocal]

\* A call of AWS that raises ends the request with status 500.
Unavailable(r) ==
    /\ faults < MaxFaults
    /\ faults' = faults + 1
    /\ Leave(r)
    /\ UNCHANGED <<store, writes, asked>>

\* SsmConnectionStore.get.
Get(r, next) ==
    \/ /\ local' = [local EXCEPT ![r].value = store]
       /\ Goto(r, next)
       /\ UNCHANGED <<store, writes, asked, faults>>
    \/ Unavailable(r)

\* put and delete; each may take effect and raise nevertheless.  The other
\* requests that are under way are overtaken.
Put(r, config, next) ==
    /\ store' = config
    /\ \/ Goto(r, next) /\ UNCHANGED faults
       \/ /\ faults < MaxFaults
          /\ faults' = faults + 1
          /\ Goto(r, "done")
    /\ local' = [q \in Requests |->
          CASE q = r -> IF pc'[r] = "done" THEN NoLocal ELSE local[r]
            [] q # r /\ pc[q] \in {"idle", "done"} -> local[q]
            [] OTHER -> [local[q] EXCEPT !.overtaken = TRUE]]

-----------------------------------------------------------------------------
(* Requests. *)

\* The dashboard sends well formed credentials.
BeginSave(r, i) ==
    /\ pc[r] = "idle"
    /\ writes < MaxWrites
    /\ writes' = writes + 1
    /\ local' = [local EXCEPT ![r] = [Begin("save", i) EXCEPT !.config = writes + 1]]
    /\ Goto(r, "existing")
    /\ UNCHANGED <<store, asked, faults>>

ReadExisting(r) ==
    /\ pc[r] = "existing"
    /\ Get(r, "put new")

\* What an operator asks for is all the store may hold once it is
\* acknowledged, and one of the things it may hold before.
Ask(r, config) ==
    /\ Put(r, config, "done")
    /\ asked' = IF faults' = faults THEN {config} ELSE asked \union {config}

PutNew(r) ==
    /\ pc[r] = "put new"
    /\ \/ Ask(r, local[r].config) /\ UNCHANGED writes
       \/ Unavailable(r)

Remove(r, i) ==
    /\ pc[r] = "idle"
    /\ writes < MaxWrites
    /\ \/ Ask(r, None) /\ writes' = writes + 1
       \/ Unavailable(r)

BeginScan(r, i) ==
    /\ pc[r] = "idle"
    /\ \/ /\ local' = [local EXCEPT ![r] = [Begin("scan", i) EXCEPT !.value = store]]
          /\ Goto(r, "client")
          /\ UNCHANGED <<store, writes, asked, faults>>
       \/ Unavailable(r)

\* test reads the configuration for itself, then takes a snapshot.
BeginTest(r, i) ==
    /\ pc[r] = "idle"
    /\ \/ /\ local' = [local EXCEPT ![r] = [Begin("test", i) EXCEPT !.outer = store]]
          /\ Goto(r, "value")
          /\ UNCHANGED <<store, writes, asked, faults>>
       \/ Unavailable(r)

ReadValue(r) ==
    /\ pc[r] = "value"
    /\ Get(r, "client")

\* Faulty variant of Usable, for checking: whatever was read is tried.
UsableAlways(config) == TRUE

\* There are credentials to build a client from.
Usable(config) == config \notin {None, Blank}

\* The configuration is read once more, for the client.
OpenProvider(r) ==
    /\ pc[r] = "client"
    /\ \/ /\ Usable(store)
          /\ Goto(r, "call")
          /\ UNCHANGED <<store, local, writes, asked, faults>>
       \/ /\ ~Usable(store)
          /\ Leave(r)
          /\ UNCHANGED <<store, writes, asked, faults>>
       \/ Unavailable(r)

\* The provider answers, or fails and the request is refused.
CallProvider(r) ==
    /\ pc[r] = "call"
    /\ \/ /\ \E list \in Listings : local' = [local EXCEPT ![r].records = list]
          /\ Goto(r, "put tested")
       \/ Leave(r)
    /\ UNCHANGED <<store, writes, asked, faults>>

\* What a request writes back: what it read, with the time of the test.
Tested(config) == IF config = None THEN Blank ELSE config

\* Only a request that was overtaken may put back what nobody asked for.
WriteBack(r, config, next) ==
    \/ /\ Put(r, Tested(config), next)
       /\ asked' = IF local[r].overtaken THEN asked \union {Tested(config)} ELSE asked
       /\ UNCHANGED writes
    \/ Unavailable(r)

PutTested(r) ==
    /\ pc[r] = "put tested"
    /\ WriteBack(r, local[r].value, IF local[r].op = "test" THEN "put again" ELSE "list")

PutAgain(r) ==
    /\ pc[r] = "put again"
    /\ WriteBack(r, local[r].outer, "done")

\* The summary of a scan reads the configurations of all providers.
ReadSummary(r) ==
    /\ pc[r] = "list"
    /\ \/ /\ Goto(r, "promote")
          /\ UNCHANGED <<store, local, writes, asked, faults>>
       \/ Unavailable(r)

ConnectionStep(r) ==
    \/ ReadExisting(r) \/ PutNew(r)
    \/ ReadValue(r) \/ OpenProvider(r) \/ CallProvider(r)
    \/ PutTested(r) \/ PutAgain(r) \/ ReadSummary(r)

ConnectionRequest(r, i) ==
    BeginSave(r, i) \/ Remove(r, i) \/ BeginScan(r, i) \/ BeginTest(r, i)

-----------------------------------------------------------------------------
(* Properties. *)

\* A request that works alone leaves the configuration as the operators asked
\* for: a test or a scan brings a removed or replaced configuration back, or
\* leaves a blank one, only if another request wrote while it was under way
\* (connections.py:236 and 258).
OnlyOvertakenRevives == store \in asked
=============================================================================
