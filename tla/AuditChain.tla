----------------------------- MODULE AuditChain -----------------------------
(***************************************************************************)
(* deadbolt.audit.writer: the hash chain of one plan in S3.  AuditWriter   *)
(* has no lock: write lists the chain, verifies it, computes the hash of   *)
(* the newest record and the sequence number, and then puts a new object,  *)
(* so whatever other writers do in between goes unnoticed.                 *)
(*                                                                         *)
(* The hash of a record is the identity of its bytes: which write made     *)
(* them (the event id is a fresh uuid) and whether somebody altered them.  *)
(* A record that write made has the required fields and is canonical.      *)
(***************************************************************************)
EXTENDS Naturals, Sequences

CONSTANTS
    Writers,       \* processes that call AuditWriter.write for this plan
    Script,        \* the seq each successive call supplies, None for a call without
    FirstPage(_),  \* the records that one list_objects_v2 answer names
    Events,        \* the kinds of trouble that may happen
    MaxFaults,     \* how many of them a behaviour may contain
    None

Calls  == UNION {DOMAIN Script[w] : w \in Writers}
Hashes == Writers \X Calls \X BOOLEAN

ASSUME AuditAssumption ==
    /\ \A w \in Writers : Script[w] \in Seq(Nat \union {None})
    /\ Events \subseteq {"s3", "tamper"}
    /\ MaxFaults \in Nat
    /\ None \notin Nat
    /\ None \notin Hashes

VARIABLES
    stored,   \* the objects under the plan's prefix
    pc,       \* where a writer's current call is
    call,     \* how many calls it has begun or finished, plus one
    prev,     \* the previous hash it computed
    seq,      \* the sequence number it will use
    faults,   \* troubles so far
    written,  \* history: every record a put stored
    late      \* history: records a writer added since the chain last broke

local == <<call, prev, seq>>
vars  == <<stored, pc, local, faults, written, late>>

Hash(r) == <<r.by, r.call, r.altered>>
Records == [by : Writers, call : Calls, altered : BOOLEAN, seq : Nat,
            prev : Hashes \union {None}]

TypeOK ==
    /\ stored \subseteq Records
    /\ pc \in [Writers -> {"idle", "number", "put"}]
    /\ call \in [Writers -> Nat \ {0}]
    /\ \A w \in Writers : pc[w] # "idle" => call[w] \in DOMAIN Script[w]
    /\ prev \in [Writers -> Hashes \union {None}]
    /\ seq \in [Writers -> Nat]
    /\ faults \in 0..MaxFaults
    /\ written \subseteq Records
    /\ late \in [Writers -> Nat]

Init ==
    /\ stored = {}
    /\ pc = [w \in Writers |-> "idle"]
    /\ call = [w \in Writers |-> 1]
    /\ prev = [w \in Writers |-> None]
    /\ seq = [w \in Writers |-> 0]
    /\ faults = 0
    /\ written = {}
    /\ late = [w \in Writers |-> 0]

-----------------------------------------------------------------------------
(* Reading a chain.                                                        *)

\* The last record in the order of sequence numbers.
Newest(R) == CHOOSE r \in R : \A q \in R : q.seq <= r.seq

\* Faulty variant of NextSeq: the number of records, gaps or not.
NextSeqReused(R) == IF R = {} THEN 0 ELSE Newest(R).seq

NextSeq(R) == IF R = {} THEN 0 ELSE Newest(R).seq + 1

Tip(R) == IF R = {} THEN None ELSE Hash(Newest(R))

\* Faulty variant of Verified: only the sequence numbers are looked at.
UniqueSeqs(R) == \A r, q \in R : r.seq = q.seq => r = q

\* Faulty variant of Verified: only the newest record's link is looked at.
NewestLinks(R) == R # {} => Newest(R).prev = Tip(R \ {Newest(R)})

\* _verify_records on the sorted records: sequence numbers are unique and
\* each record carries the hash of the one sorted before it.
Verified(R) ==
    /\ \A r, q \in R : r.seq = q.seq => r = q
    /\ \A r \in R : r.prev = Tip({q \in R : q.seq < r.seq})

VerifyChain == FirstPage(stored) # {} /\ Verified(FirstPage(stored))

-----------------------------------------------------------------------------
NoFault == UNCHANGED faults

Fault(kind) ==
    /\ kind \in Events
    /\ faults < MaxFaults
    /\ faults' = faults + 1

\* Faulty variant of Finish: the call is counted but never left.
FinishInPlace(w) ==
    /\ pc' = pc
    /\ call' = [call EXCEPT ![w] = @ + 1]

Finish(w) ==
    /\ pc' = [pc EXCEPT ![w] = "idle"]
    /\ call' = [call EXCEPT ![w] = @ + 1]

Supplied(w) == Script[w][call[w]]

\* Faulty variant of Extensible: a malformed chain is extended all the same.
ExtensibleAnyway(R) == TRUE

Extensible(R) == Verified(R)

\* _previous_hash: a malformed chain, or an error of S3, ends the call.
ReadChain(w) ==
    /\ pc[w] = "idle"
    /\ call[w] \in DOMAIN Script[w]
    /\ \/ /\ NoFault
          /\ Extensible(FirstPage(stored))
          /\ prev' = [prev EXCEPT ![w] = Tip(FirstPage(stored))]
          /\ \/ /\ Supplied(w) = None
                /\ pc' = [pc EXCEPT ![w] = "number"]
                /\ UNCHANGED seq
             \/ /\ Supplied(w) # None
                /\ pc' = [pc EXCEPT ![w] = "put"]
                /\ seq' = [seq EXCEPT ![w] = Supplied(w)]
          /\ UNCHANGED call
       \/ /\ (NoFault /\ ~Extensible(FirstPage(stored))) \/ Fault("s3")
          /\ Finish(w)
          /\ UNCHANGED <<prev, seq>>
    /\ UNCHANGED <<stored, written, late>>

\* Without a supplied sequence number, a second listing provides one.
AllocateSeq(w) ==
    /\ pc[w] = "number"
    /\ \/ /\ NoFault
          /\ seq' = [seq EXCEPT ![w] = NextSeq(FirstPage(stored))]
          /\ pc' = [pc EXCEPT ![w] = "put"]
          /\ UNCHANGED call
       \/ Fault("s3") /\ Finish(w) /\ UNCHANGED seq
    /\ UNCHANGED <<stored, prev, written, late>>

NewRecord(w) ==
    [by |-> w, call |-> call[w], altered |-> FALSE, seq |-> seq[w], prev |-> prev[w]]

\* put_object under a key that holds the new event id.  A put that raises
\* may have stored the object.
Put(w) ==
    LET r == NewRecord(w)
    IN  /\ pc[w] = "put"
        /\ \/ NoFault /\ stored' = stored \union {r}
           \/ Fault("s3") /\ stored' \in {stored, stored \union {r}}
        /\ written' = written \union (stored' \ stored)
        /\ late' = IF stored' # stored /\ ~Verified(stored)
                   THEN [late EXCEPT ![w] = @ + 1] ELSE late
        /\ Finish(w)
        /\ UNCHANGED <<prev, seq>>

\* Somebody with access to the bucket alters a field of a record and keeps
\* it canonical, or removes it, where no object lock prevents that.  This
\* may also leave a chain that verifies again.
Tamper(r) ==
    /\ Fault("tamper")
    /\ \/ ~r.altered /\ stored' = (stored \ {r}) \union {[r EXCEPT !.altered = TRUE]}
       \/ stored' = stored \ {r}
    /\ late' = IF Verified(stored') THEN [w \in Writers |-> 0] ELSE late
    /\ UNCHANGED <<pc, local, written>>

Next ==
    \/ \E w \in Writers : ReadChain(w) \/ AllocateSeq(w) \/ Put(w)
    \/ \E r \in stored : Tamper(r)

Spec == Init /\ [][Next]_vars

-----------------------------------------------------------------------------
(* Properties.                                                             *)

\* verify_chain accepts whatever the writers wrote.
ChainVerifies == stored # {} => VerifyChain

\* A single writer, in the order of a plan's life, maintains an append-only
\* log: no record is lost, and each one stands on the newest before it.
Log == INSTANCE AppendOnlyLog WITH
           Entries <- Hashes,
           Bottom  <- None,
           entries <- {Hash(r) : r \in stored},
           below   <- {<<Hash(r), r.prev>> : r \in stored},
           top     <- Tip(stored)

LogSpec == Log!Spec

\* No record added later makes a broken chain verify again: what a race of
\* two writers, or somebody else, broke cannot be covered up by writing on.
NeverHeals ==
    [][~Verified(stored) /\ stored \subseteq stored' => ~Verified(stored')]_vars

\* The check before each put confines the damage: a writer adds at most the
\* one record to a broken chain that it had in hand when the chain broke.
DamageConfined == \A w \in Writers : late[w] <= 1

\* In a chain that verifies, no record another one was put upon is missing
\* or altered.
SealedBySuccessor ==
    Verified(stored) =>
        \A q \in written, r \in stored : r.prev = Hash(q) => q \in stored
=============================================================================
