--------------------------- MODULE RegisterProofs ---------------------------
(***************************************************************************)
(* What is proved of Register for all findings, plans, lists, processes,   *)
(* requests and bounds: its type, that only a page which a scan overtook   *)
(* verifies what nobody saw and approved, that only overtaken requests     *)
(* revive a connection, and that a repeated decision is harmless; and, for *)
(* a single process that stores, that a decision survives.                 *)
(***************************************************************************)
EXTENDS Register, SequenceTheorems, TLAPS

-----------------------------------------------------------------------------
(* The connection. *)

States ==
    {"idle", "existing", "put new", "value", "client", "call", "put tested", "put again", "list",
     "promote", "done"}

Locals ==
    [op : {"save", "scan", "test", None}, server : Servers \union {None},
     config : Configurations, outer : Configurations, value : Configurations,
     records : Listings \union {<<>>}, overtaken : BOOLEAN]

\* What a request that works has read, unless it was overtaken, is still stored,
\* and is of use if a client was built from it.
InStep(r) ==
    \/ local[r].overtaken
    \/ /\ pc[r] \in {"client", "call", "put tested"} => local[r].value = store
       /\ (local[r].op = "test" /\ pc[r] \in {"value", "client", "call", "put tested", "put again"})
             => local[r].outer = store
       /\ pc[r] \in {"call", "put tested", "put again"} => Usable(store)
       /\ pc[r] = "put again" => local[r].op = "test"

\* A request has a server, and what it lists is a list of findings.
OnItsWay(r) ==
    /\ pc[r] \notin {"idle", "done"} => local[r].server \in Servers
    /\ pc[r] \in {"put tested", "put again", "list", "promote"} => local[r].records \in Lists

\* The inductive invariant of the connection.
ConnectionInv ==
    /\ store \in Configurations
    /\ writes \in 0..MaxWrites
    /\ store \in asked
    /\ pc \in [Requests -> States]
    /\ local \in [Requests -> Locals]
    /\ faults \in Nat
    /\ \A r \in Requests : InStep(r) /\ OnItsWay(r)

LEMMA NoLocalOK == NoLocal \in Locals
  BY DEF NoLocal, Locals, Configurations

\* A step that changes neither the store nor another request keeps the
\* invariant if it does so for the request that takes it.
LEMMA OwnStep ==
  ASSUME ConnectionInv, NEW r \in Requests, NEW next \in States, NEW mine \in Locals,
         pc' = [pc EXCEPT ![r] = next], local' = [local EXCEPT ![r] = mine],
         UNCHANGED store, asked \subseteq asked', writes' \in 0..MaxWrites, faults' \in Nat,
         (pc'[r] = next /\ local'[r] = mine) => InStep(r)' /\ OnItsWay(r)'
  PROVE  ConnectionInv'
  <1>1. pc' \in [Requests -> States] /\ local' \in [Requests -> Locals]
    BY DEF ConnectionInv
  <1>2. pc'[r] = next /\ local'[r] = mine
        /\ \A q \in Requests \ {r} : pc'[q] = pc[q] /\ local'[q] = local[q]
    BY DEF ConnectionInv
  <1>3. ASSUME NEW q \in Requests
        PROVE  InStep(q)' /\ OnItsWay(q)'
    <2>1. CASE q = r
      BY <1>2, <2>1
    <2>2. CASE q # r
      BY <1>2, <2>2 DEF ConnectionInv, InStep, OnItsWay
    <2> QED
      BY <2>1, <2>2
  <1> QED
    BY <1>1, <1>3 DEF ConnectionInv

\* A request that ends keeps the invariant.
LEMMA LeaveOK ==
  ASSUME ConnectionInv, NEW r \in Requests, Leave(r), UNCHANGED <<store, writes, asked>>,
         faults' \in Nat
  PROVE  ConnectionInv'
  <1>1. pc' = [pc EXCEPT ![r] = "done"] /\ local' = [local EXCEPT ![r] = NoLocal]
    BY DEF Leave, Goto
  <1>2. pc'[r] = "done" => InStep(r)' /\ OnItsWay(r)'
    BY DEF InStep, OnItsWay
  <1>3. "done" \in States /\ writes' \in 0..MaxWrites
    BY DEF States, ConnectionInv
  <1> QED
    BY <1>1, <1>2, <1>3, NoLocalOK, OwnStep

LEMMA UnavailableOK ==
  ASSUME ConnectionInv, NEW r \in Requests, Unavailable(r)
  PROVE  ConnectionInv'
  BY LeaveOK DEF Unavailable, ConnectionInv

\* A write overtakes all others.
LEMMA PutOK ==
  ASSUME ConnectionInv, NEW r \in Requests, NEW config \in Configurations, NEW next \in States,
         Put(r, config, next), config \in asked', writes' \in 0..MaxWrites,
         (pc'[r] = next /\ next # "done" /\ local'[r] = local[r] /\ store' = config)
           => InStep(r)' /\ OnItsWay(r)'
  PROVE  ConnectionInv'
  <1>1. /\ store' = config /\ faults' \in Nat
        /\ pc' = [pc EXCEPT ![r] = next] \/ pc' = [pc EXCEPT ![r] = "done"]
        /\ local' = [q \in Requests |->
              CASE q = r -> IF pc'[r] = "done" THEN NoLocal ELSE local[r]
                [] q # r /\ pc[q] \in {"idle", "done"} -> local[q]
                [] OTHER -> [local[q] EXCEPT !.overtaken = TRUE]]
    BY DEF Put, Goto, ConnectionInv
  <1>2. /\ pc' \in [Requests -> States] /\ pc'[r] \in {next, "done"}
        /\ \A q \in Requests \ {r} : pc'[q] = pc[q]
    BY <1>1 DEF ConnectionInv, States
  <1>3. ASSUME NEW q \in Requests
        PROVE  local'[q] \in Locals /\ InStep(q)' /\ OnItsWay(q)'
    <2>1. local[q] \in Locals
      BY DEF ConnectionInv
    <2>2. CASE q = r /\ pc'[r] = "done"
      <3>1. local'[q] = NoLocal
        BY <1>1, <2>2
      <3> QED
        BY <2>2, <3>1, NoLocalOK DEF InStep, OnItsWay
    <2>3. CASE q = r /\ pc'[r] # "done"
      BY <1>1, <1>2, <2>1, <2>3
    <2>4. CASE q # r /\ pc[q] \in {"idle", "done"}
      <3>1. local'[q] = local[q] /\ pc'[q] \in {"idle", "done"}
        BY <1>1, <1>2, <2>4
      <3> QED
        BY <2>1, <3>1 DEF InStep, OnItsWay
    <2>5. CASE q # r /\ pc[q] \notin {"idle", "done"}
      <3>1. local'[q] = [local[q] EXCEPT !.overtaken = TRUE] /\ pc'[q] = pc[q]
        BY <1>1, <1>2, <2>5
      <3>2. /\ local'[q] \in Locals /\ local'[q].overtaken = TRUE
            /\ local'[q].server = local[q].server /\ local'[q].records = local[q].records
        BY <2>1, <3>1 DEF Locals
      <3> QED
        BY <3>1, <3>2 DEF ConnectionInv, InStep, OnItsWay
    <2> QED
      BY <2>2, <2>3, <2>4, <2>5
  <1>4. local' \in [Requests -> Locals]
    BY <1>1, <1>3
  <1> QED
    BY <1>1, <1>2, <1>3, <1>4 DEF ConnectionInv

\* Reading what is stored.
LEMMA GetOK ==
  ASSUME ConnectionInv, NEW r \in Requests, NEW next \in {"put new", "client"}, Get(r, next),
         pc[r] \in {"existing", "value"},
         next = "client" => pc[r] = "value"
  PROVE  ConnectionInv'
  <1>1. CASE Unavailable(r)
    BY <1>1, UnavailableOK
  <1>2. CASE /\ local' = [local EXCEPT ![r].value = store]
             /\ Goto(r, next)
             /\ UNCHANGED <<store, writes, asked, faults>>
    <2> DEFINE mine == [local[r] EXCEPT !.value = store]
    <2>1. local[r] \in Locals /\ store \in Configurations
      BY DEF ConnectionInv
    <2>2. /\ mine \in Locals /\ mine.value = store /\ mine.outer = local[r].outer
          /\ mine.overtaken = local[r].overtaken /\ mine.op = local[r].op
          /\ mine.server = local[r].server /\ mine.records = local[r].records
      BY <2>1 DEF Locals
    <2>3. local' = [local EXCEPT ![r] = mine] /\ pc' = [pc EXCEPT ![r] = next]
      BY <1>2 DEF Goto, ConnectionInv
    <2> HIDE DEF mine
    <2>4. (pc'[r] = next /\ local'[r] = mine) => InStep(r)' /\ OnItsWay(r)'
      BY <1>2, <2>2 DEF ConnectionInv, InStep, OnItsWay
    <2> QED
      BY <1>2, <2>2, <2>3, <2>4, OwnStep DEF ConnectionInv, States
  <1> QED
    BY <1>1, <1>2 DEF Get

\* What is asked for may be stored.
LEMMA AskedOK ==
  ASSUME ConnectionInv, NEW r \in Requests, NEW config \in Configurations, Ask(r, config),
         writes' \in 0..MaxWrites
  PROVE  ConnectionInv'
  BY PutOK DEF Ask, ConnectionInv, States

LEMMA SaveOK ==
  ASSUME ConnectionInv, NEW r \in Requests,
         PutNew(r) \/ \E i \in Durable : BeginSave(r, i) \/ Remove(r, i)
  PROVE  ConnectionInv'
  <1>1. local[r] \in Locals /\ writes \in 0..MaxWrites /\ MaxWrites \in Nat
    BY ConnectionsAssumption DEF ConnectionInv
  <1>2. CASE PutNew(r)
    BY <1>1, <1>2, AskedOK, UnavailableOK DEF PutNew, Locals
  <1>3. ASSUME NEW i \in Durable, Remove(r, i)
        PROVE  ConnectionInv'
    <2>1. None \in Configurations /\ writes < MaxWrites
      BY <1>3 DEF Remove, Configurations
    <2>2. writes + 1 \in 0..MaxWrites
      BY <1>1, <2>1
    <2> QED
      BY <1>3, <2>1, <2>2, AskedOK, UnavailableOK DEF Remove
  <1>4. ASSUME NEW i \in Durable, BeginSave(r, i)
        PROVE  ConnectionInv'
    <2> DEFINE mine == [Begin("save", i) EXCEPT !.config = writes + 1]
    <2>1. writes + 1 \in 0..MaxWrites /\ i \in Servers
      BY <1>1, <1>4, RegisterAssumption DEF BeginSave
    <2>2. mine \in Locals /\ mine.server = i /\ mine.op = "save"
      BY <2>1, NoLocalOK DEF Begin, NoLocal, Locals, Configurations
    <2>3. /\ local' = [local EXCEPT ![r] = mine] /\ pc' = [pc EXCEPT ![r] = "existing"]
          /\ UNCHANGED <<store, asked, faults>> /\ writes' = writes + 1
      BY <1>4 DEF BeginSave, Goto
    <2> HIDE DEF mine
    <2>4. (pc'[r] = "existing" /\ local'[r] = mine) => InStep(r)' /\ OnItsWay(r)'
      BY <2>1, <2>2 DEF InStep, OnItsWay
    <2> QED
      BY <2>1, <2>2, <2>3, <2>4, OwnStep DEF ConnectionInv, States
  <1> QED
    BY <1>2, <1>3, <1>4

\* A test and a scan begin with what is stored.
LEMMA BeginOK ==
  ASSUME ConnectionInv, NEW r \in Requests, NEW i \in Durable, BeginScan(r, i) \/ BeginTest(r, i)
  PROVE  ConnectionInv'
  <1>1. i \in Servers /\ store \in Configurations
    BY RegisterAssumption DEF ConnectionInv
  <1>2. ASSUME NEW mine \in Locals, NEW next \in {"client", "value"},
               mine.server = i,
               next = "client" => mine.op = "scan" /\ mine.value = store,
               next = "value" => mine.op = "test" /\ mine.outer = store,
               local' = [local EXCEPT ![r] = mine], Goto(r, next),
               UNCHANGED <<store, writes, asked, faults>>
        PROVE  ConnectionInv'
    <2>1. (pc'[r] = next /\ local'[r] = mine) => InStep(r)' /\ OnItsWay(r)'
      BY <1>1, <1>2 DEF InStep, OnItsWay
    <2> QED
      BY <1>2, <2>1, OwnStep DEF Goto, ConnectionInv, States
  <1>3. CASE BeginScan(r, i)
    <2> DEFINE mine == [Begin("scan", i) EXCEPT !.value = store]
    <2>1. mine \in Locals /\ mine.server = i /\ mine.op = "scan" /\ mine.value = store
      BY <1>1, NoLocalOK DEF Begin, NoLocal, Locals, Configurations
    <2> HIDE DEF mine
    <2>2. \/ Unavailable(r)
          \/ /\ local' = [local EXCEPT ![r] = mine] /\ Goto(r, "client")
             /\ UNCHANGED <<store, writes, asked, faults>>
      BY <1>3 DEF BeginScan, mine
    <2> QED
      BY <1>2, <2>1, <2>2, UnavailableOK
  <1>4. CASE BeginTest(r, i)
    <2> DEFINE mine == [Begin("test", i) EXCEPT !.outer = store]
    <2>1. mine \in Locals /\ mine.server = i /\ mine.op = "test" /\ mine.outer = store
      BY <1>1, NoLocalOK DEF Begin, NoLocal, Locals, Configurations
    <2> HIDE DEF mine
    <2>2. \/ Unavailable(r)
          \/ /\ local' = [local EXCEPT ![r] = mine] /\ Goto(r, "value")
             /\ UNCHANGED <<store, writes, asked, faults>>
      BY <1>4 DEF BeginTest, mine
    <2> QED
      BY <1>2, <2>1, <2>2, UnavailableOK
  <1> QED
    BY <1>3, <1>4

\* The client, the call and the summary.
LEMMA CallOK ==
  ASSUME ConnectionInv, NEW r \in Requests, OpenProvider(r) \/ CallProvider(r) \/ ReadSummary(r)
  PROVE  ConnectionInv'
  <1>1. local[r] \in Locals /\ InStep(r) /\ OnItsWay(r)
    BY DEF ConnectionInv
  <1>2. CASE Leave(r) /\ UNCHANGED <<store, writes, asked, faults>>
    BY <1>2, LeaveOK DEF ConnectionInv
  <1>3. CASE Unavailable(r)
    BY <1>3, UnavailableOK
  <1>4. ASSUME pc[r] = "client", Usable(store), Goto(r, "call"),
               UNCHANGED <<store, local, writes, asked, faults>>
        PROVE  ConnectionInv'
    <2>1. (pc'[r] = "call" /\ local'[r] = local[r]) => InStep(r)' /\ OnItsWay(r)'
      BY <1>1, <1>4 DEF InStep, OnItsWay
    <2>2. local' = [local EXCEPT ![r] = local[r]]
      BY <1>4 DEF ConnectionInv
    <2> QED
      BY <1>1, <1>4, <2>1, <2>2, OwnStep DEF Goto, ConnectionInv, States
  <1>5. ASSUME pc[r] = "list", Goto(r, "promote"),
               UNCHANGED <<store, local, writes, asked, faults>>
        PROVE  ConnectionInv'
    <2>1. (pc'[r] = "promote" /\ local'[r] = local[r]) => InStep(r)' /\ OnItsWay(r)'
      BY <1>1, <1>5 DEF InStep, OnItsWay
    <2>2. local' = [local EXCEPT ![r] = local[r]]
      BY <1>5 DEF ConnectionInv
    <2> QED
      BY <1>1, <1>5, <2>1, <2>2, OwnStep DEF Goto, ConnectionInv, States
  <1>6. ASSUME pc[r] = "call", NEW list \in Listings, local' = [local EXCEPT ![r].records = list],
               Goto(r, "put tested"), UNCHANGED <<store, writes, asked, faults>>
        PROVE  ConnectionInv'
    <2> DEFINE mine == [local[r] EXCEPT !.records = list]
    <2>1. /\ mine \in Locals /\ mine.value = local[r].value /\ mine.outer = local[r].outer
          /\ mine.overtaken = local[r].overtaken /\ mine.op = local[r].op
          /\ mine.server = local[r].server /\ mine.records = list
      BY <1>1 DEF Locals
    <2>2. local' = [local EXCEPT ![r] = mine] /\ list \in Lists
      BY <1>6 DEF ConnectionInv, Lists
    <2> HIDE DEF mine
    <2>3. (pc'[r] = "put tested" /\ local'[r] = mine) => InStep(r)' /\ OnItsWay(r)'
      BY <1>1, <1>6, <2>1, <2>2 DEF InStep, OnItsWay
    <2> QED
      BY <1>6, <2>1, <2>2, <2>3, OwnStep DEF Goto, ConnectionInv, States
  <1> QED
    BY <1>2, <1>3, <1>4, <1>5, <1>6 DEF OpenProvider, CallProvider, ReadSummary

\* Writing back is harmless unless the request was overtaken.
LEMMA WriteBackOK ==
  ASSUME ConnectionInv, NEW r \in Requests, PutTested(r) \/ PutAgain(r)
  PROVE  ConnectionInv'
  <1>1. /\ local[r] \in Locals /\ InStep(r) /\ OnItsWay(r) /\ store \in asked
        /\ writes \in 0..MaxWrites /\ store \in Configurations
        /\ local[r].value \in Configurations /\ local[r].outer \in Configurations
    BY DEF ConnectionInv, Locals
  <1>2. \A config \in Configurations : Tested(config) \in Configurations
    BY ConnectionsAssumption DEF Tested, Configurations, Blank
  <1>3. Usable(store) => Tested(store) = store
    BY DEF Usable, Tested
  <1>4. ASSUME NEW config \in Configurations, NEW next \in {"put again", "list", "done"},
               WriteBack(r, config, next),
               ~local[r].overtaken => config = store /\ Usable(store),
               (~local[r].overtaken /\ next = "put again") =>
                  local[r].op = "test" /\ local[r].outer = store,
               pc[r] \in {"put tested", "put again"}
        PROVE  ConnectionInv'
    <2>1. CASE Unavailable(r)
      BY <2>1, UnavailableOK
    <2>2. CASE /\ Put(r, Tested(config), next)
               /\ asked' = IF local[r].overtaken THEN asked \union {Tested(config)} ELSE asked
               /\ UNCHANGED writes
      <3>1. Tested(config) \in asked' /\ Tested(config) \in Configurations /\ next \in States
        BY <1>1, <1>2, <1>3, <1>4, <2>2 DEF States
      <3>2. ~local[r].overtaken => Tested(config) = store
        BY <1>3, <1>4
      <3>3. (pc'[r] = next /\ next # "done" /\ local'[r] = local[r] /\ store' = Tested(config))
              => InStep(r)' /\ OnItsWay(r)'
        BY <1>1, <1>4, <3>2 DEF InStep, OnItsWay
      <3> QED
        BY <1>1, <2>2, <3>1, <3>3, PutOK
    <2> QED
      BY <1>4, <2>1, <2>2 DEF WriteBack
  <1>5. CASE PutTested(r)
    <2>1. ~local[r].overtaken => local[r].value = store /\ Usable(store)
      BY <1>1, <1>5 DEF PutTested, InStep
    <2>2. (~local[r].overtaken /\ local[r].op = "test") => local[r].outer = store
      BY <1>1, <1>5 DEF PutTested, InStep
    <2> QED
      BY <1>1, <1>4, <1>5, <2>1, <2>2 DEF PutTested
  <1>6. CASE PutAgain(r)
    <2>1. ~local[r].overtaken => local[r].outer = store /\ Usable(store)
      BY <1>1, <1>6 DEF PutAgain, InStep
    <2> QED
      BY <1>1, <1>4, <1>6, <2>1 DEF PutAgain
  <1> QED
    BY <1>5, <1>6

\* Every step of a request keeps the invariant.
LEMMA ConnectionOK ==
  ASSUME ConnectionInv, Connection
  PROVE  ConnectionInv'
  <1>1. PICK r \in Requests :
          ConnectionStep(r) \/ \E i \in Durable : ConnectionRequest(r, i)
    BY DEF Connection
  <1>2. CASE ReadExisting(r) \/ ReadValue(r)
    BY <1>2, GetOK DEF ReadExisting, ReadValue
  <1> QED
    BY <1>1, <1>2, SaveOK, BeginOK, CallOK, WriteBackOK DEF ConnectionStep, ConnectionRequest

-----------------------------------------------------------------------------
(* Registers. *)

StageMaps == UNION {[S -> Stages] : S \in SUBSET Findings}

PlanMaps == UNION {[S -> Scopes \union {NoAccess}] : S \in SUBSET Findings}

Registers == [list : Lists, captured : BOOLEAN, plan : PlanMaps, stages : StageMaps]

Items == [list : Lists, stages : StageMaps]

\* What the parts of a register have to do with each other.
Whole(m) ==
    /\ m \in Registers
    /\ m.stages \in [Elements(m.list) -> Stages]
    /\ m.plan \in [Elements(m.list) \intersect DOMAIN Target -> Scopes \union {NoAccess}]

\* A list names findings.
LEMMA ListsOK ==
  ASSUME NEW list \in Lists
  PROVE  Elements(list) \subseteq Findings
  <1>1. list \in Seq(Findings)
    BY RegisterAssumption
  <1> QED
    BY <1>1, LenProperties DEF Elements

\* A register is made of a list and its stages.
LEMMA NewRegister ==
  ASSUME NEW list \in Lists, NEW captured \in BOOLEAN, NEW stages \in [Elements(list) -> Stages]
  PROVE  Whole([list |-> list, captured |-> captured, plan |-> PlanOf(list), stages |-> stages])
  <1>1. Elements(list) \in SUBSET Findings
    BY ListsOK
  <1>2. PlanOf(list) \in [Elements(list) \intersect DOMAIN Target -> Scopes \union {NoAccess}]
    BY RegisterAssumption DEF PlanOf
  <1>3. stages \in StageMaps
    BY <1>1 DEF StageMaps
  <1>4. PlanOf(list) \in PlanMaps
    <2>1. Elements(list) \intersect DOMAIN Target \in SUBSET Findings
      BY <1>1
    <2> QED
      BY <1>2, <2>1 DEF PlanMaps
  <1> QED
    BY <1>2, <1>3, <1>4 DEF Whole, Registers

\* What a process starts with is a register, and it shows nothing as verified
\* that its item does not, but for the second finding of the first list.
LEMMA StartOK ==
  ASSUME NEW i \in Servers,
         stored # None => stored \in Items /\ stored.stages \in [Elements(stored.list) -> Stages]
  PROVE  /\ Whole(Start(i))
         /\ \A f \in DOMAIN Start(i).stages : Start(i).stages[f] = "Verified" =>
               \/ stored # None /\ f \in DOMAIN stored.stages /\ stored.stages[f] = "Verified"
               \/ Len(BootList) >= 2 /\ f = BootList[2]
         /\ (i \in Durable /\ stored # None) =>
               Start(i).captured = TRUE /\ Start(i).stages = stored.stages
  <1>1. CASE i \in Durable /\ stored # None
    <2> DEFINE stages == [f \in Elements(stored.list) |->
                             IF f \in DOMAIN stored.stages THEN stored.stages[f]
                             ELSE BootStage(stored.list, f)]
    <2>1. stages = stored.stages /\ stored.list \in Lists
      BY <1>1 DEF Items
    <2>2. Start(i) = [list |-> stored.list, captured |-> TRUE, plan |-> PlanOf(stored.list),
                      stages |-> stored.stages]
      BY <1>1, <2>1 DEF Start, Restored
    <2>3. Whole(Start(i))
      BY <1>1, <2>1, <2>2, NewRegister
    <2> QED
      BY <1>1, <2>2, <2>3
  <1>2. CASE ~(i \in Durable /\ stored # None)
    <2> DEFINE stages == [f \in Elements(BootList) |-> BootStage(BootList, f)]
    <2>1. stages \in [Elements(BootList) -> Stages]
      BY DEF BootStage, Stages
    <2>2. Start(i) = [list |-> BootList, captured |-> BootCaptured, plan |-> PlanOf(BootList),
                      stages |-> stages]
      BY <1>2 DEF Start, Boot
    <2>3. BootList \in Lists /\ BootCaptured \in BOOLEAN
      BY RegisterAssumption DEF Lists
    <2>4. Whole(Start(i))
      BY <2>1, <2>2, <2>3, NewRegister
    <2>5. \A f \in DOMAIN stages : stages[f] = "Verified" => Len(BootList) >= 2 /\ f = BootList[2]
      BY DEF BootStage
    <2> QED
      BY <1>2, <2>2, <2>4, <2>5
  <1> QED
    BY <1>1, <1>2

\* A scan makes a register with the stages of the findings that stay.
LEMMA PromotedOK ==
  ASSUME NEW m, Whole(m), NEW list \in Lists
  PROVE  LET after == Promoted(m, list)
         IN  /\ Whole(after) /\ after.list = list /\ after.captured = TRUE
             /\ DOMAIN after.stages = Elements(list)
             /\ \A f \in Elements(list) :
                   after.stages[f] = IF f \in DOMAIN m.stages THEN m.stages[f] ELSE "Approval"
  <1> DEFINE stages == [f \in Elements(list) |->
                           IF f \in DOMAIN m.stages THEN m.stages[f] ELSE "Approval"]
             after == Promoted(m, list)
  <1>1. stages \in [Elements(list) -> Stages]
    BY DEF Whole, Stages
  <1>2. after = [list |-> list, captured |-> TRUE, plan |-> PlanOf(list), stages |-> stages]
    BY DEF Promoted
  <1>3. Whole(after)
    BY <1>1, <1>2, NewRegister
  <1> QED
    BY <1>2, <1>3

\* The broker accepts a scope or no access.
LEMMA NarrowedOK ==
  ASSUME NEW m, Whole(m), NEW g
  PROVE  Narrowed(m, g) \in Scopes \union {NoAccess}
  <1> DEFINE below == {s \in {f.scope : f \in Elements(m.list)} : Severity(s) < Severity(g.scope)}
  <1>1. below \subseteq {"read", "write", "admin"}
    BY ListsOK, RegisterAssumption DEF Whole, Registers, Scopes
  <1>2. CASE below = {}
    BY <1>2 DEF Narrowed
  <1>3. CASE below # {} /\ "read" \in below
    BY <1>3 DEF Narrowed, Scopes
  <1>4. CASE below # {} /\ "read" \notin below
    <2> DEFINE best(s) == s \in below /\ \A t \in below : Severity(t) <= Severity(s)
    <2>1. below \subseteq {"write", "admin"}
      BY <1>1, <1>4
    <2>2. \E s : best(s)
      <3>1. Severity("admin") = 3 /\ Severity("write") = 2
        BY DEF Severity
      <3> HIDE DEF below
      <3>2. CASE "admin" \in below
        <4>1. \A t \in below : Severity(t) <= Severity("admin")
          BY <2>1, <3>1
        <4> QED
          BY <3>2, <4>1
      <3>3. CASE "admin" \notin below
        <4>1. "write" \in below /\ \A t \in below : t = "write"
          BY <1>4, <2>1, <3>3
        <4>2. \A t \in below : Severity(t) <= Severity("write")
          BY <3>1, <4>1
        <4> QED
          BY <4>1, <4>2
      <3> QED
        BY <3>2, <3>3
    <2>3. (CHOOSE s : best(s)) \in below
      BY <2>2
    <2>4. Narrowed(m, g) = CHOOSE s \in below : \A t \in below : Severity(t) <= Severity(s)
      BY <1>4 DEF Narrowed
    <2> QED
      BY <1>1, <2>2, <2>4 DEF Scopes
  <1> QED
    BY <1>2, <1>3, <1>4

\* A decision changes one stage and one action.
LEMMA DecidedOK ==
  ASSUME NEW m, Whole(m), NEW f \in Elements(m.list), NEW action \in Actions
  PROVE  LET after == Decided(m, f, action)
         IN  /\ Whole(after) /\ after.list = m.list /\ after.captured = m.captured
             /\ after.stages = [m.stages EXCEPT ![f] = StageAfter(m, f, action)]
             /\ after.plan = PlanAfter(m, f, action) /\ DOMAIN after.plan = DOMAIN m.plan
  <1> DEFINE stages == [m.stages EXCEPT ![f] = StageAfter(m, f, action)]
             plan == PlanAfter(m, f, action)
             after == Decided(m, f, action)
             own == Elements(m.list) \intersect DOMAIN Target
  <1>1. /\ m \in Registers /\ m.stages \in [Elements(m.list) -> Stages]
        /\ m.plan \in [own -> Scopes \union {NoAccess}] /\ Elements(m.list) \subseteq Findings
    BY ListsOK DEF Whole, Registers
  <1>2. StageAfter(m, f, action) \in Stages
    BY <1>1 DEF StageAfter, Stages
  <1>3. stages \in [Elements(m.list) -> Stages] /\ stages \in StageMaps
    BY <1>1, <1>2 DEF StageMaps
  <1>4. plan \in [own -> Scopes \union {NoAccess}]
    BY <1>1, NarrowedOK DEF PlanAfter
  <1>5. plan \in PlanMaps
    BY <1>1, <1>4 DEF PlanMaps
  <1>6. after = [list |-> m.list, captured |-> m.captured, plan |-> plan, stages |-> stages]
    <2>1. after = [m EXCEPT !.stages = stages, !.plan = plan]
      BY <1>1 DEF Decided, Registers
    <2> HIDE DEF after, stages, plan
    <2> QED
      BY <1>1, <2>1 DEF Registers
  <1> HIDE DEF stages, plan, after
  <1>7. Whole(after)
    BY <1>1, <1>3, <1>4, <1>5, <1>6 DEF Whole, Registers
  <1>8. DOMAIN plan = DOMAIN m.plan
    BY <1>1, <1>4
  <1> QED
    BY <1>6, <1>7, <1>8 DEF after, stages, plan

\* The findings that may be verified.
Accounted == approved \union mistaken

\* The inductive invariant of the registers.
RegisterInv ==
    /\ ConnectionInv
    /\ memory \in [Servers -> Registers]
    /\ DOMAIN log = Servers
    /\ \A i \in Servers : Whole(memory[i]) /\ log[i].hash = memory[i].plan
    /\ stored # None => stored \in Items /\ stored.stages \in [Elements(stored.list) -> Stages]
    /\ shown \subseteq Lists
    /\ told \in [Findings -> SUBSET Stages]
    /\ approved \subseteq Findings /\ mistaken \subseteq Findings
    /\ Len(BootList) >= 2 => BootList[2] \in approved
    /\ VerifiedAmong(Accounted)

\* A change by one process keeps the invariant if what it makes is a register
\* that shows nothing as verified which may not be.
LEMMA ChangeOK ==
  ASSUME RegisterInv, NEW i \in Servers, NEW after, Whole(after), ConnectionInv',
         memory' = [memory EXCEPT ![i] = after],
         DOMAIN log' = Servers, log'[i].hash = after.plan,
         \A j \in Servers \ {i} : log'[j] = log[j],
         stored' \in {stored, Item(after)},
         shown' \subseteq Lists, told' \in [Findings -> SUBSET Stages],
         approved \subseteq approved', approved' \subseteq Findings,
         mistaken \subseteq mistaken', mistaken' \subseteq Findings,
         \A f \in DOMAIN after.stages : after.stages[f] = "Verified" => f \in Accounted'
  PROVE  RegisterInv'
  <1>1. after \in Registers /\ memory' \in [Servers -> Registers] /\ memory'[i] = after
    BY DEF Whole, RegisterInv
  <1>2. \A j \in Servers \ {i} : memory'[j] = memory[j]
    BY DEF RegisterInv
  <1>3. ASSUME NEW j \in Servers
        PROVE  /\ Whole(memory'[j]) /\ log'[j].hash = memory'[j].plan
               /\ \A f \in DOMAIN memory'[j].stages :
                     memory'[j].stages[f] = "Verified" => f \in Accounted'
    <2>1. CASE j = i
      BY <1>1, <2>1
    <2>2. CASE j # i
      BY <1>2, <2>2 DEF RegisterInv, VerifiedAmong, Accounted
    <2> QED
      BY <2>1, <2>2
  <1>4. /\ Item(after) \in Items /\ Item(after).stages = after.stages
        /\ Item(after).list = after.list
        /\ after.stages \in [Elements(after.list) -> Stages]
    BY <1>1 DEF Item, Items, Registers, Whole
  <1>5. stored' # None =>
          /\ stored' \in Items /\ stored'.stages \in [Elements(stored'.list) -> Stages]
          /\ \A f \in DOMAIN stored'.stages : stored'.stages[f] = "Verified" => f \in Accounted'
    <2>1. CASE stored' = stored
      BY <2>1 DEF RegisterInv, VerifiedAmong, Accounted
    <2>2. CASE stored' = Item(after)
      BY <1>4, <2>2
    <2> QED
      BY <2>1, <2>2
  <1>6. Len(BootList) >= 2 => BootList[2] \in approved'
    BY DEF RegisterInv
  <1> QED
    BY <1>1, <1>3, <1>5, <1>6 DEF RegisterInv, VerifiedAmong, Accounted

\* A change names the plan in the log, and stores the register or nothing.
LEMMA PersistOK ==
  ASSUME RegisterInv, NEW i \in Servers, NEW after, Change(i, after)
  PROVE  /\ memory' = [memory EXCEPT ![i] = after]
         /\ DOMAIN log' = Servers /\ log'[i].hash = after.plan
         /\ \A j \in Servers \ {i} : log'[j] = log[j]
         /\ stored' \in {stored, Item(after)} /\ faults' \in Nat
  <1>1. DOMAIN log = Servers /\ faults \in Nat
    BY DEF RegisterInv, ConnectionInv
  <1> QED
    BY <1>1 DEF Change, Entry, Persist

\* What is told stays a set of stages.
LEMMA TellOK ==
  ASSUME RegisterInv, NEW i \in Servers, NEW f \in Findings, NEW stage \in Stages,
         NEW answered \in BOOLEAN, Tell(i, f, stage, answered)
  PROVE  told' \in [Findings -> SUBSET Stages]
  BY DEF RegisterInv, Tell

\* The connection does not depend on the registers.
LEMMA ConnectionApart ==
  ASSUME ConnectionInv, UNCHANGED onlyConnection, faults' \in Nat
  PROVE  ConnectionInv'
  BY DEF ConnectionInv, onlyConnection, InStep, OnItsWay

\* A decision keeps the invariant.
LEMMA DecisionOK ==
  ASSUME RegisterInv, NEW i \in Servers, NEW n, NEW action \in Actions,
         NEW page \in Lists, NEW answered \in BOOLEAN,
         HandleDecision(i, n, page, action, answered),
         UNCHANGED <<onlyConnection, shown>>
  PROVE  RegisterInv'
  <1> DEFINE m == memory[i]
             f == m.list[n]
             after == Decided(m, f, action)
  <1>1. /\ n \in DOMAIN m.list /\ n \in DOMAIN page
        /\ Change(i, after) /\ Tell(i, f, after.stages[f], answered)
        /\ approved' = IF Revokes(page[n], action) THEN approved \union {page[n]} ELSE approved
        /\ mistaken' = IF page # m.list /\ Revokes(f, action)
                        THEN mistaken \union {f} ELSE mistaken
        /\ page = m.list => page[n] = f
    BY DEF HandleDecision, Approve
  <1>2. Whole(m) /\ m.list \in Lists /\ page[n] \in Findings
    BY <1>1, ListsOK DEF RegisterInv, Whole, Registers, Elements
  <1>3. f \in Elements(m.list) /\ f \in Findings
    BY <1>1, <1>2, ListsOK DEF Elements
  <1> HIDE DEF m, f
  <1>4. /\ Whole(after) /\ after.list = m.list
        /\ after.stages = [m.stages EXCEPT ![f] = StageAfter(m, f, action)]
    BY <1>2, <1>3, DecidedOK
  <1>5. m.stages \in [Elements(m.list) -> Stages] /\ after.stages \in [Elements(m.list) -> Stages]
    BY <1>2, <1>4 DEF Whole
  <1>6. /\ \A g \in DOMAIN m.stages : m.stages[g] = "Verified" => g \in Accounted
        /\ approved \subseteq Findings /\ mistaken \subseteq Findings
    BY DEF RegisterInv, VerifiedAmong, m
  <1>7. after.stages[f] = "Verified" => f \in Accounted'
    <2>1. CASE Revokes(f, action)
      BY <1>1, <2>1 DEF Accounted
    <2>2. CASE ~Revokes(f, action)
      <3>1. StageAfter(m, f, action) \in {"Planned", m.stages[f]}
        BY <2>2 DEF StageAfter, Revokes
      <3>2. after.stages[f] = "Verified" => f \in Accounted
        BY <1>3, <1>4, <1>5, <1>6, <3>1
      <3> QED
        BY <1>1, <3>2 DEF Accounted
    <2> QED
      BY <2>1, <2>2
  <1>8. /\ approved \subseteq approved' /\ approved' \subseteq Findings
        /\ mistaken \subseteq mistaken' /\ mistaken' \subseteq Findings
        /\ shown' \subseteq Lists
    BY <1>1, <1>2, <1>3, <1>6 DEF RegisterInv
  <1>9. \A g \in DOMAIN after.stages : after.stages[g] = "Verified" => g \in Accounted'
    <2>1. Accounted \subseteq Accounted'
      BY <1>8 DEF Accounted
    <2> QED
      BY <1>3, <1>4, <1>5, <1>6, <1>7, <2>1
  <1>10. after.stages[f] \in Stages
    BY <1>3, <1>5
  <1>11. told' \in [Findings -> SUBSET Stages]
    BY <1>1, <1>3, <1>10, TellOK
  <1> HIDE DEF after
  <1>12. /\ memory' = [memory EXCEPT ![i] = after]
         /\ DOMAIN log' = Servers /\ log'[i].hash = after.plan
         /\ \A j \in Servers \ {i} : log'[j] = log[j]
         /\ stored' \in {stored, Item(after)} /\ faults' \in Nat
    BY <1>1, PersistOK
  <1>13. ConnectionInv'
    BY <1>12, ConnectionApart DEF RegisterInv, onlyConnection
  <1> QED
    BY <1>4, <1>8, <1>9, <1>11, <1>12, <1>13, ChangeOK

\* A rollback keeps the invariant.
LEMMA RollbackOK ==
  ASSUME RegisterInv, NEW i \in Servers, NEW n, HandleRollback(i, n),
         UNCHANGED <<onlyConnection, shown>>
  PROVE  RegisterInv'
  <1> DEFINE m == memory[i]
             f == m.list[n]
             after == [m EXCEPT !.stages[f] = "Rolled back"]
  <1>1. /\ n \in DOMAIN m.list /\ Change(i, after) /\ Tell(i, f, "Rolled back", TRUE)
        /\ approved' = approved /\ mistaken' = mistaken
    BY DEF HandleRollback, decisions
  <1>2. /\ Whole(m) /\ m.list \in Lists /\ m \in Registers
        /\ \A g \in DOMAIN m.stages : m.stages[g] = "Verified" => g \in Accounted'
        /\ approved' \subseteq Findings /\ mistaken' \subseteq Findings /\ shown' \subseteq Lists
    BY <1>1 DEF RegisterInv, Whole, Registers, VerifiedAmong, Accounted
  <1>3. f \in Elements(m.list) /\ f \in Findings
    BY <1>1, <1>2, ListsOK DEF Elements
  <1> HIDE DEF m, f
  <1>4. m.stages \in [Elements(m.list) -> Stages]
    BY <1>2 DEF Whole
  <1> DEFINE stages == [m.stages EXCEPT ![f] = "Rolled back"]
  <1>5. stages \in [Elements(m.list) -> Stages] /\ stages \in StageMaps
    <2>1. Elements(m.list) \in SUBSET Findings
      BY <1>2, ListsOK
    <2> QED
      BY <1>4, <2>1 DEF Stages, StageMaps
  <1>6. \A g \in DOMAIN stages : stages[g] = "Verified" => g \in Accounted'
    BY <1>2, <1>4
  <1>7. after = [m EXCEPT !.stages = stages]
    BY <1>2 DEF Registers
  <1> HIDE DEF after, stages
  <1>8. after \in Registers /\ after.list = m.list /\ after.stages = stages /\ after.plan = m.plan
    BY <1>2, <1>5, <1>7 DEF Registers
  <1>9. Whole(after)
    BY <1>2, <1>5, <1>8 DEF Whole
  <1>10. told' \in [Findings -> SUBSET Stages]
    BY <1>1, <1>3, TellOK DEF Stages
  <1>11. /\ memory' = [memory EXCEPT ![i] = after]
         /\ DOMAIN log' = Servers /\ log'[i].hash = after.plan
         /\ \A j \in Servers \ {i} : log'[j] = log[j]
         /\ stored' \in {stored, Item(after)} /\ faults' \in Nat
    BY <1>1, PersistOK
  <1>12. ConnectionInv'
    BY <1>11, ConnectionApart DEF RegisterInv, onlyConnection
  <1> QED
    BY <1>1, <1>2, <1>6, <1>8, <1>9, <1>10, <1>11, <1>12, ChangeOK

\* A new process keeps the invariant.
LEMMA StartsOK ==
  ASSUME RegisterInv, NEW i \in Servers, ConnectionInv',
         memory' = [memory EXCEPT ![i] = Start(i)], log' = [log EXCEPT ![i] = Entry(1, Start(i))],
         UNCHANGED <<stored, shown, told, decisions>>
  PROVE  RegisterInv'
  <1> DEFINE after == Start(i)
  <1>1. stored # None => stored \in Items /\ stored.stages \in [Elements(stored.list) -> Stages]
    BY DEF RegisterInv
  <1>2. /\ Whole(after)
        /\ \A f \in DOMAIN after.stages : after.stages[f] = "Verified" =>
              \/ stored # None /\ f \in DOMAIN stored.stages /\ stored.stages[f] = "Verified"
              \/ Len(BootList) >= 2 /\ f = BootList[2]
    BY <1>1, StartOK
  <1> HIDE DEF after
  <1>3. \A f \in DOMAIN after.stages : after.stages[f] = "Verified" => f \in Accounted'
    BY <1>2 DEF RegisterInv, VerifiedAmong, Accounted, decisions
  <1>4. /\ memory' = [memory EXCEPT ![i] = after]
        /\ DOMAIN log' = Servers /\ log'[i].hash = after.plan
        /\ \A j \in Servers \ {i} : log'[j] = log[j]
    BY DEF RegisterInv, Entry, after
  <1>5. /\ told' \in [Findings -> SUBSET Stages] /\ shown' \subseteq Lists
        /\ approved' = approved /\ approved \subseteq Findings
        /\ mistaken' = mistaken /\ mistaken \subseteq Findings
    BY DEF RegisterInv, decisions
  <1> QED
    BY <1>2, <1>3, <1>4, <1>5, ChangeOK

LEMMA RestartOK ==
  ASSUME RegisterInv, NEW i \in Servers, Restart(i)
  PROVE  RegisterInv'
  <1>1. \A r \in Requests : InStep(r)' /\ OnItsWay(r)'
    <2>1. SUFFICES ASSUME NEW r \in Requests
                   PROVE  InStep(r)' /\ OnItsWay(r)'
      OBVIOUS
    <2>2. CASE local[r].server = i
      <3>1. pc'[r] = "done" /\ local'[r] = NoLocal
        BY <2>2 DEF Restart
      <3> QED
        BY <3>1 DEF InStep, OnItsWay
    <2>3. CASE local[r].server # i
      BY <2>3 DEF Restart, RegisterInv, ConnectionInv, InStep, OnItsWay
    <2> QED
      BY <2>2, <2>3
  <1>2. pc' \in [Requests -> States] /\ local' \in [Requests -> Locals]
    BY NoLocalOK DEF Restart, RegisterInv, ConnectionInv, States
  <1>3. ConnectionInv'
    BY <1>1, <1>2 DEF Restart, RegisterInv, ConnectionInv
  <1> QED
    BY <1>3, StartsOK DEF Restart

LEMMA FreshOK ==
  ASSUME RegisterInv, NEW i \in Servers, Fresh(i)
  PROVE  RegisterInv'
  <1>1. ConnectionInv'
    BY ConnectionApart DEF Fresh, connectionVars, onlyConnection, RegisterInv, ConnectionInv
  <1> QED
    BY <1>1, StartsOK DEF Fresh

\* rerun keeps the invariant.
LEMMA RerunOK ==
  ASSUME RegisterInv, NEW i \in Servers, Rerun(i)
  PROVE  RegisterInv'
  <1> DEFINE m == memory[i]
             after == Rebuilt(m)
  <1>1. ConnectionInv'
    BY ConnectionApart DEF Rerun, connectionVars, onlyConnection, RegisterInv, ConnectionInv
  <1>2. /\ Whole(m) /\ m \in Registers /\ m.list \in Lists /\ m.captured \in BOOLEAN
        /\ m.stages \in [Elements(m.list) -> Stages]
        /\ \A f \in DOMAIN m.stages : m.stages[f] = "Verified" => f \in Accounted
    BY DEF RegisterInv, Whole, Registers, VerifiedAmong
  <1> HIDE DEF m
  <1>3. after = [list |-> m.list, captured |-> m.captured, plan |-> PlanOf(m.list),
                 stages |-> m.stages]
    BY <1>2 DEF Rebuilt, Registers
  <1> HIDE DEF after
  <1>4. Whole(after) /\ after.stages = m.stages
    BY <1>2, <1>3, NewRegister
  <1>5. /\ memory' = [memory EXCEPT ![i] = after] /\ memory'[i] = after
        /\ DOMAIN log' = Servers /\ log'[i].hash = after.plan
        /\ \A j \in Servers \ {i} : log'[j] = log[j]
        /\ UNCHANGED <<stored, shown, told, approved, mistaken>>
    BY DEF Rerun, RegisterInv, Entry, decisions, after, m
  <1>6. /\ told' \in [Findings -> SUBSET Stages] /\ shown' \subseteq Lists
        /\ approved' \subseteq Findings /\ mistaken' \subseteq Findings
    BY <1>5 DEF RegisterInv
  <1>7. \A f \in DOMAIN after.stages : after.stages[f] = "Verified" => f \in Accounted'
    BY <1>2, <1>4, <1>5 DEF Accounted
  <1> QED
    BY <1>1, <1>2, <1>4, <1>5, <1>6, <1>7, ChangeOK

\* The second half of a scan keeps the invariant.
LEMMA PromoteOK ==
  ASSUME RegisterInv, NEW r \in Requests, Promote(r)
  PROVE  RegisterInv'
  <1> DEFINE i == local[r].server
             m == memory[i]
             list == local[r].records
             after == Promoted(m, list)
  <1>1. /\ pc[r] = "promote" /\ Change(i, after) /\ Leave(r)
        /\ told' = [f \in Findings |-> IF f \in Elements(after.list) THEN told[f] ELSE {}]
        /\ shown' = shown \union {after.list} /\ UNCHANGED <<store, writes, asked>>
        /\ approved' = approved /\ mistaken' = mistaken
    BY DEF Promote, decisions
  <1>2. i \in Servers /\ list \in Lists
    BY <1>1 DEF RegisterInv, ConnectionInv, OnItsWay
  <1> HIDE DEF i, list
  <1>3. /\ Whole(m) /\ approved \subseteq Findings /\ mistaken \subseteq Findings
        /\ \A f \in DOMAIN m.stages : m.stages[f] = "Verified" => f \in Accounted
        /\ told \in [Findings -> SUBSET Stages] /\ shown \subseteq Lists
    BY <1>2 DEF RegisterInv, VerifiedAmong
  <1> HIDE DEF m
  <1>4. /\ Whole(after) /\ after.list = list /\ DOMAIN after.stages = Elements(list)
        /\ \A f \in Elements(list) :
              after.stages[f] = IF f \in DOMAIN m.stages THEN m.stages[f] ELSE "Approval"
    BY <1>2, <1>3, PromotedOK
  <1> HIDE DEF after
  <1>5. \A f \in DOMAIN after.stages : after.stages[f] = "Verified" => f \in Accounted'
    BY <1>1, <1>3, <1>4 DEF Accounted
  <1>6. /\ memory' = [memory EXCEPT ![i] = after]
        /\ DOMAIN log' = Servers /\ log'[i].hash = after.plan
        /\ \A j \in Servers \ {i} : log'[j] = log[j]
        /\ stored' \in {stored, Item(after)} /\ faults' \in Nat
    BY <1>1, <1>2, PersistOK
  <1>7. ConnectionInv'
    BY <1>1, <1>6, LeaveOK DEF RegisterInv
  <1>8. /\ told' \in [Findings -> SUBSET Stages] /\ shown' \subseteq Lists
        /\ approved' \subseteq Findings /\ mistaken' \subseteq Findings
    BY <1>1, <1>2, <1>3, <1>4
  <1> QED
    BY <1>1, <1>2, <1>4, <1>5, <1>6, <1>7, <1>8, ChangeOK

\* A step that leaves the registers alone keeps the invariant.
LEMMA SameRegisters ==
  ASSUME RegisterInv, ConnectionInv', UNCHANGED <<memory, log, stored, shown, told, decisions>>
  PROVE  RegisterInv'
  BY DEF RegisterInv, VerifiedAmong, Accounted, decisions

\* What a browser did not see was a decision about a finding of a register.
Retriable ==
    unanswered # None =>
        /\ unanswered.action \in Actions /\ unanswered.server \in Servers
        /\ unanswered.page \in Lists
        /\ \E m \in Registers :
              /\ Whole(m) /\ unanswered.number \in DOMAIN m.list
              /\ unanswered.register =
                    Decided(m, m.list[unanswered.number], unanswered.action)

\* The invariant is inductive.
LEMMA RegisterInit == Init => RegisterInv
  <1> SUFFICES ASSUME Init
               PROVE  RegisterInv
    OBVIOUS
  <1> DEFINE stages == [f \in Elements(BootList) |-> BootStage(BootList, f)]
  <1>1. /\ ConnectionsInit /\ memory = [i \in Servers |-> Boot]
        /\ log = [i \in Servers |-> Entry(1, Boot)] /\ stored = None
        /\ shown = {BootList} /\ told = [f \in Findings |-> {}]
        /\ approved = {f \in Findings : Len(BootList) >= 2 /\ f = BootList[2]} /\ mistaken = {}
    BY DEF Init
  <1>2. ConnectionInv
    <2>1. \A r \in Requests : InStep(r) /\ OnItsWay(r)
      BY <1>1 DEF ConnectionsInit, NoLocal, InStep, OnItsWay
    <2> QED
      BY <1>1, <2>1, NoLocalOK, ConnectionsAssumption
         DEF ConnectionsInit, ConnectionInv, States, Configurations
  <1>3. BootList \in Lists /\ BootCaptured \in BOOLEAN /\ BootList \in Seq(Findings)
    BY RegisterAssumption DEF Lists
  <1>4. stages \in [Elements(BootList) -> Stages]
    BY DEF BootStage, Stages
  <1>5. /\ Boot = [list |-> BootList, captured |-> BootCaptured, plan |-> PlanOf(BootList),
                   stages |-> stages]
    BY DEF Boot
  <1>6. \A f \in DOMAIN stages : stages[f] = "Verified" => Len(BootList) >= 2 /\ f = BootList[2]
    BY DEF BootStage
  <1> HIDE DEF stages
  <1>7. Whole(Boot) /\ Boot.stages = stages
    BY <1>3, <1>4, <1>5, NewRegister
  <1>8. Boot \in Registers
    BY <1>7 DEF Whole
  <1>9. Len(BootList) >= 2 => BootList[2] \in Findings
    BY <1>3, LenProperties, ElementOfSeq
  <1>10. /\ memory \in [Servers -> Registers] /\ DOMAIN log = Servers
         /\ \A i \in Servers : memory[i] = Boot /\ log[i].hash = Boot.plan
    BY <1>1, <1>8 DEF Entry
  <1>11. VerifiedAmong(Accounted)
    <2>1. \A f \in DOMAIN stages : f \in Findings
      BY <1>3, <1>4, ListsOK
    <2> QED
      BY <1>1, <1>6, <1>7, <1>10, <2>1 DEF VerifiedAmong, Accounted
  <1> QED
    BY <1>1, <1>2, <1>3, <1>7, <1>9, <1>10, <1>11 DEF RegisterInv

LEMMA RegisterStep == RegisterInv /\ Retriable /\ [Next]_vars => RegisterInv'
  <1> SUFFICES ASSUME RegisterInv, Retriable, [Next]_vars
               PROVE  RegisterInv'
    OBVIOUS
  <1>1. ConnectionInv /\ Durable \subseteq Servers /\ McpServers \subseteq Servers
    BY RegisterAssumption DEF RegisterInv, McpServers
  <1>2. CASE Connection
    BY <1>1, <1>2, ConnectionOK, SameRegisters DEF Connection, registerVars
  <1>3. CASE \E i \in Durable : \E n \in Numbers :
                Rollback(i, n) \/ \E action \in Actions : Decide(i, n, action)
    <2>1. shown \subseteq Lists
      BY DEF RegisterInv
    <2> QED
      BY <1>1, <1>3, <2>1, DecisionOK, RollbackOK DEF Rollback, Decide
  <1>4. ASSUME NEW i \in Durable, Repeat(i)
        PROVE  RegisterInv'
    <2>1. unanswered.action \in Actions /\ unanswered.page \in Lists
      BY <1>4 DEF Repeat, Retriable
    <2> QED
      BY <1>1, <1>4, <2>1, DecisionOK DEF Repeat
  <1>5. CASE \E i \in Durable : Restart(i)
    BY <1>1, <1>5, RestartOK
  <1>6. CASE \E r \in Requests : Promote(r)
    BY <1>6, PromoteOK
  <1>7. ASSUME NEW i \in McpServers, GetPlan(i)
        PROVE  RegisterInv'
    <2>1. UNCHANGED onlyConnection /\ faults' \in Nat
      BY <1>1, <1>7 DEF GetPlan, connectionVars, onlyConnection, ConnectionInv
    <2> QED
      BY <1>1, <1>7, <2>1, ConnectionApart, SameRegisters DEF GetPlan
  <1>8. CASE \E i \in McpServers : Fresh(i)
    BY <1>1, <1>8, FreshOK
  <1>9. ASSUME NEW i \in McpServers, NEW n \in Numbers, McpTool(i, n)
        PROVE  RegisterInv'
    <2>1. i \in Servers /\ BootList \in Lists
      BY <1>1 DEF Lists
    <2> QED
      BY <1>9, <2>1, DecisionOK, RollbackOK
         DEF McpTool, ApproveOrReduce, RecordDecision, RollbackFinding
  <1>10. CASE \E i \in Servers : Rerun(i)
    BY <1>10, RerunOK
  <1>11. CASE UNCHANGED vars
    BY <1>1, <1>11, ConnectionApart, SameRegisters
       DEF vars, connectionVars, registerVars, onlyConnection, decisions, ConnectionInv
  <1> QED
    BY <1>2, <1>3, <1>4, <1>5, <1>6, <1>7, <1>8, <1>9, <1>10, <1>11 DEF Next, Dashboard, Mcp

LEMMA RetriableStep == RegisterInv /\ Retriable /\ [Next]_vars => Retriable'
  <1> SUFFICES ASSUME RegisterInv, Retriable, [Next]_vars
               PROVE  Retriable'
    OBVIOUS
  <1>1. CASE UNCHANGED unanswered
    BY <1>1 DEF Retriable
  <1>2. CASE unanswered' = None
    BY <1>2 DEF Retriable
  <1>3. ASSUME NEW i \in Durable, NEW n \in Numbers, NEW page \in shown, NEW action \in Actions,
               HandleDecision(i, n, page, action, FALSE),
               unanswered' = [number |-> n, page |-> page, action |-> action, server |-> i,
                              register |-> memory'[i]]
        PROVE  Retriable'
    <2>1. i \in Servers /\ n \in DOMAIN memory[i].list /\ page \in Lists
      BY <1>3, RegisterAssumption DEF HandleDecision, RegisterInv
    <2>2. memory' = [memory EXCEPT ![i] = Decided(memory[i], memory[i].list[n], action)]
      BY <1>3 DEF HandleDecision, Change
    <2>3. memory'[i] = Decided(memory[i], memory[i].list[n], action)
      BY <2>1, <2>2 DEF RegisterInv
    <2>4. Whole(memory[i]) /\ memory[i] \in Registers
      BY <2>1 DEF RegisterInv
    <2> QED
      BY <1>3, <2>1, <2>3, <2>4 DEF Retriable
  <1>4. \/ UNCHANGED unanswered
        \/ unanswered' = None
        \/ \E i \in Durable, n \in Numbers, page \in shown, action \in Actions :
              /\ HandleDecision(i, n, page, action, FALSE)
              /\ unanswered' = [number |-> n, page |-> page, action |-> action, server |-> i,
                                register |-> memory'[i]]
    <2>1. CASE Connection
      BY <2>1 DEF Connection, registerVars
    <2>2. CASE Dashboard
      BY <2>2 DEF Dashboard, Rollback, Decide, Repeat, Restart, Promote
    <2>3. CASE Mcp
      BY <2>3 DEF Mcp, GetPlan, Fresh, McpTool
    <2>4. CASE \E i \in Servers : Rerun(i)
      BY <2>4 DEF Rerun
    <2>5. CASE UNCHANGED vars
      BY <2>5 DEF vars, registerVars
    <2> QED
      BY <2>1, <2>2, <2>3, <2>4, <2>5 DEF Next
  <1> QED
    BY <1>1, <1>2, <1>3, <1>4

LEMMA RegisterInductive == Spec => [](RegisterInv /\ Retriable)
  <1>1. Init => RegisterInv /\ Retriable
    BY RegisterInit DEF Init, Retriable
  <1>2. (RegisterInv /\ Retriable) /\ [Next]_vars => (RegisterInv /\ Retriable)'
    BY RegisterStep, RetriableStep
  <1> QED
    BY <1>1, <1>2, PTL DEF Spec

-----------------------------------------------------------------------------
(* The theorems. *)

\* The registers of all processes, and the stored one, are whole: a stage for
\* each finding, an action for each that calls for one, and the newest log
\* entry names the plan in force (api.py:357, 575).
THEOREM RegisterTypeOK == Spec => []TypeOK
  <1>1. RegisterInv => TypeOK
    <2> SUFFICES ASSUME RegisterInv
                 PROVE  TypeOK
      OBVIOUS
    <2>1. ASSUME NEW i \in Servers
          PROVE  /\ Fits(memory[i].list, memory[i].stages)
                 /\ DOMAIN memory[i].plan = Elements(memory[i].list) \intersect DOMAIN Target
                 /\ memory[i].captured \in BOOLEAN
                 /\ log[i].hash = memory[i].plan
      <3>1. Whole(memory[i]) /\ log[i].hash = memory[i].plan
        BY DEF RegisterInv
      <3> QED
        BY <3>1 DEF Whole, Registers, Fits
    <2>2. stored # None => Fits(stored.list, stored.stages)
      BY DEF RegisterInv, Items, Fits
    <2> QED
      BY <2>1, <2>2 DEF RegisterInv, ConnectionInv, TypeOK
  <1> QED
    BY <1>1, RegisterInductive, PTL

\* Whichever lists scans bring, and however many processes share the stored
\* register, a finding that is verified was seen and approved, unless somebody
\* decided on a page that was no longer the list (api.ts:123-134, api.py:486,
\* 517, 574).
THEOREM RegisterVerified == Spec => []OnlyOvertakenVerifies
  <1>1. RegisterInv => OnlyOvertakenVerifies
    BY DEF RegisterInv, OnlyOvertakenVerifies, Accounted
  <1> QED
    BY <1>1, RegisterInductive, PTL

\* A request about the connection that is not overtaken stores what the
\* operators asked for, whatever fails (connections.py:236 and 258).
THEOREM RegisterOnlyOvertaken == Spec => []OnlyOvertakenRevives
  <1>1. RegisterInv => OnlyOvertakenRevives
    BY DEF RegisterInv, ConnectionInv, OnlyOvertakenRevives
  <1> QED
    BY <1>1, RegisterInductive, PTL

\* A decision about a finding, taken again on the register it made, makes the
\* same register.
LEMMA DecidedTwice ==
  ASSUME NEW m, Whole(m), NEW f \in Elements(m.list), NEW action \in Actions
  PROVE  Decided(Decided(m, f, action), f, action) = Decided(m, f, action)
  <1> DEFINE after == Decided(m, f, action)
  <1>1. /\ Whole(after) /\ after.list = m.list
        /\ after.stages = [m.stages EXCEPT ![f] = StageAfter(m, f, action)]
        /\ after.plan = PlanAfter(m, f, action) /\ DOMAIN after.plan = DOMAIN m.plan
    BY DecidedOK
  <1>2. m.stages \in [Elements(m.list) -> Stages] /\ after \in Registers
    BY <1>1 DEF Whole
  <1> HIDE DEF after
  <1>3. ActionFor(after, f) = ActionFor(m, f)
    BY <1>1 DEF ActionFor
  <1>4. \A g : Narrowed(after, g) = Narrowed(m, g)
    BY <1>1 DEF Narrowed
  <1>5. after.stages[f] = StageAfter(m, f, action)
    BY <1>1, <1>2
  <1>6. StageAfter(after, f, action) = StageAfter(m, f, action)
    BY <1>3, <1>4, <1>5 DEF StageAfter, Actions
  <1>7. PlanAfter(after, f, action) = after.plan
    <2>1. CASE action # "Reduce further"
      BY <1>1, <2>1 DEF PlanAfter
    <2>2. CASE action = "Reduce further"
      <3> DEFINE g == ActionFor(m, f)
      <3>1. after.plan = [m.plan EXCEPT ![g] = Narrowed(m, g)]
        BY <1>1, <2>2 DEF PlanAfter
      <3>2. PlanAfter(after, f, action) = [after.plan EXCEPT ![g] = Narrowed(m, g)]
        BY <1>3, <1>4, <2>2 DEF PlanAfter
      <3> HIDE DEF g
      <3> QED
        BY <3>1, <3>2
    <2> QED
      BY <2>1, <2>2
  <1>8. [after.stages EXCEPT ![f] = StageAfter(after, f, action)] = after.stages
    BY <1>1, <1>2, <1>5, <1>6
  <1>9. Decided(after, f, action) = after
    BY <1>2, <1>7, <1>8 DEF Decided, Registers
  <1> QED
    BY <1>9 DEF after

\* A browser that repeats a decision nobody answered leaves the register as the
\* first attempt did, if nothing happened since (api.ts:92).
THEOREM RegisterRepeatIsHarmless == Spec => RepeatIsHarmless
  <1> DEFINE Harmless ==
               ( /\ unanswered # None /\ unanswered' = None
                 /\ memory[unanswered.server] = unanswered.register )
               => memory'[unanswered.server] = unanswered.register
  <1>1. RegisterInv /\ Retriable /\ [Next]_vars => [Harmless]_vars
    <2> SUFFICES ASSUME RegisterInv, Retriable, Next, unanswered # None, unanswered' = None,
                        memory[unanswered.server] = unanswered.register
                 PROVE  memory'[unanswered.server] = unanswered.register
      OBVIOUS
    <2>1. PICK i \in Durable : Repeat(i)
      <3>1. ~Connection
        BY DEF Connection, registerVars
      <3>2. ~Mcp
        BY DEF Mcp, GetPlan, Fresh, McpTool
      <3>3. ~\E i \in Servers : Rerun(i)
        BY DEF Rerun
      <3> QED
        BY <3>1, <3>2, <3>3 DEF Next, Dashboard, Rollback, Decide, Restart, Promote
    <2> DEFINE n == unanswered.number
               action == unanswered.action
    <2>2. PICK m \in Registers :
            /\ Whole(m) /\ n \in DOMAIN m.list
            /\ unanswered.register = Decided(m, m.list[n], action)
      BY DEF Retriable
    <2>3. action \in Actions /\ unanswered.server \in Servers /\ i \in Servers
      BY RegisterAssumption DEF Retriable
    <2>4. memory' = [memory EXCEPT ![i] = Decided(memory[i], memory[i].list[n], action)]
      BY <2>1 DEF Repeat, HandleDecision, Change
    <2>5. memory'[unanswered.server] =
             IF unanswered.server = i THEN Decided(memory[i], memory[i].list[n], action)
             ELSE memory[unanswered.server]
      BY <2>3, <2>4 DEF RegisterInv
    <2> DEFINE f == m.list[n]
    <2>6. f \in Elements(m.list)
      BY <2>2 DEF Elements
    <2>7. CASE unanswered.server = i
      <3>1. memory[i] = Decided(m, f, action)
        BY <2>2, <2>7
      <3>2. memory[i].list = m.list
        <4> HIDE DEF f, action
        <4>1. Decided(m, f, action).list = m.list
          BY <2>2, <2>3, <2>6, DecidedOK
        <4> QED
          BY <3>1, <4>1
      <3>3. Decided(memory[i], f, action) = memory[i]
        BY <2>2, <2>3, <2>6, <3>1, DecidedTwice
      <3> QED
        BY <2>5, <2>7, <3>2, <3>3
    <2>8. CASE unanswered.server # i
      BY <2>5, <2>8
    <2> QED
      BY <2>7, <2>8
  <1> QED
    BY <1>1, RegisterInductive, PTL DEF Spec, RepeatIsHarmless

-----------------------------------------------------------------------------
(* One process that stores. *)

\* What is known of a finding whose stage was told: it is stored, and every
\* process that stores has it, in a register that it will store again.
DecisionInv ==
    \A f \in Findings : told[f] # {} =>
        /\ stored # None
        /\ f \in DOMAIN stored.stages
        /\ stored.stages[f] \in told[f]
        /\ \A i \in Durable :
              /\ memory[i].captured
              /\ f \in DOMAIN memory[i].stages
              /\ memory[i].stages[f] \in told[f]

Alone == \A i, j \in Durable : i = j

\* A change of one stage that is told.
LEMMA ToldOK ==
  ASSUME Alone, RegisterInv, DecisionInv, NEW i \in Servers, NEW f \in Elements(memory[i].list),
         NEW stage \in Stages, NEW answered \in BOOLEAN, NEW after, Whole(after),
         after.list = memory[i].list, after.captured = memory[i].captured,
         after.stages = [memory[i].stages EXCEPT ![f] = stage],
         Change(i, after), Tell(i, f, stage, answered)
  PROVE  DecisionInv'
  <1> DEFINE m == memory[i]
  <1>1. /\ m.stages \in [Elements(m.list) -> Stages] /\ m.list \in Lists
        /\ m.captured \in BOOLEAN /\ told \in [Findings -> SUBSET Stages] /\ faults \in Nat
    BY DEF RegisterInv, ConnectionInv, Whole, Registers
  <1>2. f \in Findings /\ m.list # <<>>
    <2>1. f \in Findings
      BY <1>1, ListsOK
    <2>2. m.list \in Seq(Findings)
      BY <1>1, RegisterAssumption
    <2>3. m.list # <<>>
      BY <2>2, LenProperties DEF Elements
    <2> QED
      BY <2>1, <2>3
  <1>3. /\ memory' = [memory EXCEPT ![i] = after] /\ memory'[i] = after
        /\ \A j \in Servers \ {i} : memory'[j] = memory[j]
    BY DEF Change, RegisterInv
  <1>4. Persists(i, after) <=> i \in Durable /\ m.captured
    BY <1>2 DEF Persists
  <1>5. /\ Item(after).stages = after.stages
        /\ DOMAIN after.stages = DOMAIN m.stages /\ after.stages[f] = stage
        /\ \A g \in DOMAIN m.stages \ {f} : after.stages[g] = m.stages[g]
        /\ f \in DOMAIN m.stages
    BY <1>1 DEF Item
  <1>6. Item(after) # None
    <2>1. Item(after) \in [list : Lists, stages : StageMaps]
      BY DEF Item, Whole, Registers
    <2> QED
      BY <2>1, RegisterAssumption DEF StageMaps
  <1>7. CASE ~Persists(i, after)
    <2> HIDE DEF m
    <2>1. told' = told
      BY <1>1, <1>2, <1>3, <1>7 DEF Tell
    <2>2. stored' = stored
      BY <1>7 DEF Change, Persist
    <2>3. CASE i \in Durable
      BY <1>4, <1>7, <2>1, <2>2, <2>3 DEF DecisionInv, m
    <2>4. CASE i \notin Durable
      <3>1. \A j \in Durable : memory'[j] = memory[j]
        BY <1>3, <2>4, RegisterAssumption
      <3> QED
        BY <2>1, <2>2, <3>1 DEF DecisionInv
    <2> QED
      BY <2>3, <2>4
  <1>8. CASE Persists(i, after)
    <2>1. i \in Durable /\ m.captured /\ \A j \in Durable : j = i
      BY <1>4, <1>8 DEF Alone
    <2>2. \/ stored' = Item(after) /\ faults' = faults
          \/ stored' \in {stored, Item(after)} /\ faults' # faults
      BY <1>1, <1>8 DEF Change, Persist
    <2>3. told' = [told EXCEPT ![f] =
                     IF answered /\ faults' = faults THEN {stage}
                     ELSE IF told[f] # {} THEN told[f] \union {stage} ELSE told[f]]
      BY <1>1, <1>2, <1>3, <1>8 DEF Tell
    <2>4. SUFFICES ASSUME NEW g \in Findings, told'[g] # {}
                   PROVE  /\ stored' # None /\ g \in DOMAIN stored'.stages
                          /\ stored'.stages[g] \in told'[g]
                          /\ after.captured /\ g \in DOMAIN after.stages
                          /\ after.stages[g] \in told'[g]
      BY <1>3, <2>1 DEF DecisionInv
    <2>5. CASE g # f
      <3>1. told'[g] = told[g]
        BY <1>1, <1>2, <2>3, <2>5
      <3>2. /\ stored # None /\ g \in DOMAIN stored.stages /\ stored.stages[g] \in told[g]
            /\ g \in DOMAIN m.stages /\ m.stages[g] \in told[g]
        BY <2>1, <2>4, <3>1 DEF DecisionInv
      <3>3. after.stages[g] = m.stages[g] /\ g \in DOMAIN after.stages
        BY <1>5, <2>5, <3>2
      <3> QED
        BY <1>5, <1>6, <2>1, <2>2, <3>1, <3>2, <3>3
    <2>6. CASE g = f /\ answered /\ faults' = faults
      <3>1. told'[g] = {stage} /\ stored' = Item(after)
        BY <1>1, <1>2, <2>2, <2>3, <2>6
      <3> QED
        BY <1>5, <1>6, <2>1, <2>6, <3>1
    <2>7. CASE g = f /\ ~(answered /\ faults' = faults)
      <3>1. told[f] # {} /\ told'[g] = told[f] \union {stage}
        BY <1>1, <1>2, <2>3, <2>4, <2>7
      <3>2. stored # None /\ f \in DOMAIN stored.stages /\ stored.stages[f] \in told[f]
        BY <1>2, <3>1 DEF DecisionInv
      <3> QED
        BY <1>5, <1>6, <2>1, <2>2, <2>7, <3>1, <3>2
    <2> QED
      BY <2>5, <2>6, <2>7
  <1> QED
    BY <1>7, <1>8

LEMMA ToldDecision ==
  ASSUME Alone, RegisterInv, DecisionInv, NEW i \in Servers, NEW n, NEW action \in Actions,
         NEW page, NEW answered \in BOOLEAN, HandleDecision(i, n, page, action, answered)
  PROVE  DecisionInv'
  <1> DEFINE m == memory[i]
             f == m.list[n]
             after == Decided(m, f, action)
  <1>1. /\ n \in DOMAIN m.list /\ Change(i, after) /\ Tell(i, f, after.stages[f], answered)
        /\ Whole(m)
    BY DEF HandleDecision, RegisterInv
  <1>2. f \in Elements(m.list)
    BY <1>1 DEF Elements
  <1> HIDE DEF f
  <1>3. /\ Whole(after) /\ after.list = m.list /\ after.captured = m.captured
        /\ after.stages = [m.stages EXCEPT ![f] = StageAfter(m, f, action)]
    BY <1>1, <1>2, DecidedOK
  <1> HIDE DEF after
  <1>4. after.stages[f] = StageAfter(m, f, action) /\ after.stages[f] \in Stages
    BY <1>1, <1>2, <1>3 DEF Whole
  <1> QED
    BY <1>1, <1>2, <1>3, <1>4, ToldOK

LEMMA ToldRollback ==
  ASSUME Alone, RegisterInv, DecisionInv, NEW i \in Servers, NEW n, HandleRollback(i, n)
  PROVE  DecisionInv'
  <1> DEFINE m == memory[i]
             f == m.list[n]
             after == [m EXCEPT !.stages[f] = "Rolled back"]
  <1>1. /\ n \in DOMAIN m.list /\ Change(i, after) /\ Tell(i, f, "Rolled back", TRUE)
        /\ Whole(m) /\ m \in Registers
    BY DEF HandleRollback, RegisterInv
  <1>2. f \in Elements(m.list) /\ Elements(m.list) \in SUBSET Findings
    BY <1>1, ListsOK DEF Elements, Registers
  <1> HIDE DEF f
  <1> DEFINE stages == [m.stages EXCEPT ![f] = "Rolled back"]
  <1>3. stages \in [Elements(m.list) -> Stages] /\ stages \in StageMaps
    BY <1>1, <1>2 DEF Whole, Stages, StageMaps
  <1>4. after = [m EXCEPT !.stages = stages]
    BY <1>1 DEF Registers
  <1> HIDE DEF after
  <1>5. Whole(after) /\ after.list = m.list /\ after.captured = m.captured /\ after.stages = stages
    BY <1>1, <1>3, <1>4 DEF Whole, Registers
  <1>6. "Rolled back" \in Stages
    BY DEF Stages
  <1> QED
    BY <1>1, <1>2, <1>5, <1>6, ToldOK

\* A scan tells nothing, and forgets the findings that it does not list.
LEMMA ToldPromote ==
  ASSUME Alone, RegisterInv, DecisionInv, NEW r \in Requests, Promote(r)
  PROVE  DecisionInv'
  <1> DEFINE i == local[r].server
             m == memory[i]
             list == local[r].records
             after == Promoted(m, list)
  <1>1. /\ pc[r] = "promote" /\ Change(i, after)
        /\ told' = [f \in Findings |-> IF f \in Elements(after.list) THEN told[f] ELSE {}]
    BY DEF Promote
  <1>2. i \in Servers /\ list \in Lists
    BY <1>1 DEF RegisterInv, ConnectionInv, OnItsWay
  <1> HIDE DEF i, list
  <1>3. Whole(m)
    BY <1>2 DEF RegisterInv
  <1> HIDE DEF m
  <1>4. /\ Whole(after) /\ after.list = list /\ after.captured = TRUE
        /\ DOMAIN after.stages = Elements(list)
        /\ \A f \in Elements(list) :
              after.stages[f] = IF f \in DOMAIN m.stages THEN m.stages[f] ELSE "Approval"
    BY <1>2, <1>3, PromotedOK
  <1> HIDE DEF after
  <1>5. /\ memory'[i] = after /\ \A j \in Servers \ {i} : memory'[j] = memory[j]
        /\ stored' \in {stored, Item(after)}
        /\ (~Persists(i, after) => stored' = stored)
    BY <1>1, <1>2 DEF Change, Persist, RegisterInv
  <1>6. Item(after).stages = after.stages /\ Item(after) # None
    <2>1. Item(after) \in [list : Lists, stages : StageMaps]
      BY <1>4 DEF Item, Whole, Registers
    <2> QED
      BY <2>1, RegisterAssumption DEF StageMaps, Item
  <1>7. SUFFICES ASSUME NEW f \in Findings, told'[f] # {}
                 PROVE  /\ stored' # None /\ f \in DOMAIN stored'.stages
                        /\ stored'.stages[f] \in told'[f]
                        /\ \A j \in Durable :
                              /\ memory'[j].captured /\ f \in DOMAIN memory'[j].stages
                              /\ memory'[j].stages[f] \in told'[f]
    BY DEF DecisionInv
  <1>8. f \in Elements(list) /\ told'[f] = told[f]
    BY <1>1, <1>4, <1>7
  <1>9. /\ stored # None /\ f \in DOMAIN stored.stages /\ stored.stages[f] \in told[f]
        /\ \A j \in Durable :
              /\ memory[j].captured /\ f \in DOMAIN memory[j].stages
              /\ memory[j].stages[f] \in told[f]
    BY <1>7, <1>8 DEF DecisionInv
  <1>10. CASE i \in Durable
    <2>1. f \in DOMAIN after.stages /\ after.stages[f] \in told[f]
      BY <1>4, <1>8, <1>9, <1>10 DEF m
    <2>2. \A j \in Durable : j = i
      BY <1>10 DEF Alone
    <2> QED
      BY <1>4, <1>5, <1>6, <1>8, <1>9, <2>1, <2>2
  <1>11. CASE i \notin Durable
    <2>1. stored' = stored /\ \A j \in Durable : memory'[j] = memory[j]
      BY <1>5, <1>11, RegisterAssumption DEF Persists
    <2> QED
      BY <1>8, <1>9, <2>1
  <1> QED
    BY <1>10, <1>11

\* A process that starts has what is stored.
LEMMA ToldRestart ==
  ASSUME Alone, RegisterInv, DecisionInv, NEW i \in Durable, Restart(i)
  PROVE  DecisionInv'
  <1>1. /\ i \in Servers /\ \A j \in Durable : j = i
        /\ stored # None => stored \in Items /\ stored.stages \in [Elements(stored.list) -> Stages]
    BY RegisterAssumption DEF Alone, RegisterInv
  <1>2. stored # None => Start(i).captured = TRUE /\ Start(i).stages = stored.stages
    BY <1>1, StartOK
  <1>3. /\ UNCHANGED <<stored, told>> /\ memory'[i] = Start(i)
    BY <1>1 DEF Restart, RegisterInv
  <1> QED
    BY <1>1, <1>2, <1>3 DEF DecisionInv

\* What leaves the stages of the processes that store alone.
LEMMA ToldSame ==
  ASSUME RegisterInv, DecisionInv, UNCHANGED <<stored, told>>,
         \A i \in Durable : memory'[i].captured = memory[i].captured
                            /\ memory'[i].stages = memory[i].stages
  PROVE  DecisionInv'
  BY DEF DecisionInv

LEMMA ToldStep ==
  ASSUME Alone
  PROVE  RegisterInv /\ Retriable /\ DecisionInv /\ [Next]_vars => DecisionInv'
  <1> SUFFICES ASSUME RegisterInv, Retriable, DecisionInv, [Next]_vars
               PROVE  DecisionInv'
    OBVIOUS
  <1>1. Durable \subseteq Servers /\ McpServers = Servers \ Durable
    BY RegisterAssumption DEF McpServers
  <1>2. CASE Connection
    BY <1>2, ToldSame DEF Connection, registerVars
  <1>3. CASE \E i \in Durable : \E n \in Numbers :
                Rollback(i, n) \/ \E action \in Actions : Decide(i, n, action)
    BY <1>1, <1>3, ToldDecision, ToldRollback DEF Rollback, Decide
  <1>4. ASSUME NEW i \in Durable, Repeat(i)
        PROVE  DecisionInv'
    BY <1>1, <1>4, ToldDecision DEF Repeat, Retriable
  <1>5. CASE \E i \in Durable : Restart(i)
    BY <1>5, ToldRestart
  <1>6. CASE \E r \in Requests : Promote(r)
    BY <1>6, ToldPromote
  <1>7. CASE \E i \in McpServers : GetPlan(i)
    BY <1>7, ToldSame DEF GetPlan
  <1>8. ASSUME NEW i \in McpServers, Fresh(i)
        PROVE  DecisionInv'
    <2>1. \A j \in Durable : memory'[j] = memory[j]
      BY <1>1, <1>8 DEF Fresh, RegisterInv
    <2> QED
      BY <1>8, <2>1, ToldSame DEF Fresh
  <1>9. ASSUME NEW i \in McpServers, NEW n \in Numbers, McpTool(i, n)
        PROVE  DecisionInv'
    BY <1>1, <1>9, ToldDecision, ToldRollback
       DEF McpTool, ApproveOrReduce, RecordDecision, RollbackFinding
  <1>10. ASSUME NEW i \in Servers, Rerun(i)
         PROVE  DecisionInv'
    <2>1. /\ memory' = [memory EXCEPT ![i] = Rebuilt(memory[i])] /\ UNCHANGED <<stored, told>>
      BY <1>10 DEF Rerun
    <2>2. Rebuilt(memory[i]).captured = memory[i].captured
          /\ Rebuilt(memory[i]).stages = memory[i].stages
      BY <1>10 DEF Rebuilt, RegisterInv, Registers
    <2>3. \A j \in Servers : memory'[j].captured = memory[j].captured
                            /\ memory'[j].stages = memory[j].stages
      BY <2>1, <2>2 DEF RegisterInv
    <2> QED
      BY <1>1, <2>1, <2>3, ToldSame
  <1>11. CASE UNCHANGED vars
    BY <1>11, ToldSame DEF vars, registerVars
  <1> QED
    BY <1>2, <1>3, <1>4, <1>5, <1>6, <1>7, <1>8, <1>9, <1>10, <1>11 DEF Next, Dashboard, Mcp

\* With a single process that stores, what a browser was told of a finding is
\* stored and shown until a later request changes it, through restarts, failing
\* writes and scans (api.py:344, 533, 570).
THEOREM RegisterDecisionSurvives ==
  ASSUME Alone
  PROVE  Spec => []DecisionSurvives
  <1>1. Init => DecisionInv
    BY DEF Init, DecisionInv
  <1>2. RegisterInv /\ Retriable /\ DecisionInv /\ [Next]_vars => DecisionInv'
    BY ToldStep
  <1>3. DecisionInv => DecisionSurvives
    BY DEF DecisionInv, DecisionSurvives
  <1> QED
    BY <1>1, <1>2, <1>3, RegisterInductive, PTL DEF Spec
=============================================================================
