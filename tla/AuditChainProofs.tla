-------------------------- MODULE AuditChainProofs --------------------------
(***************************************************************************)
(* What holds of an audit chain for every number of writers, records and   *)
(* faults, and what it takes for the chain to be an append-only log.       *)
(***************************************************************************)
EXTENDS AuditChain, TLAPS

\* A listing names objects that are there, and possibly not all of them.
ListsStored == \A R \in SUBSET Records : FirstPage(R) \subseteq R

\* A listing names all of them.
ListsAll == \A R \in SUBSET Records : FirstPage(R) = R

-----------------------------------------------------------------------------
(* The newest record.                                                      *)

\* Every non-empty part of R has a last record in the order of sequence numbers.
Ordered(R) == \A S \in SUBSET R : S # {} => \E r \in S : \A q \in S : q.seq <= r.seq

\* The newest record of a non-empty part is in it, and none comes after it.
LEMMA NewestIsLast ==
    ASSUME NEW R, Ordered(R), NEW S \in SUBSET R, S # {}
    PROVE  Newest(S) \in S /\ \A q \in S : q.seq <= Newest(S).seq
BY DEF Ordered, Newest

\* One more record leaves the records ordered.
LEMMA OrderedGrows ==
    ASSUME NEW R \in SUBSET Records, NEW n \in Records, Ordered(R)
    PROVE  Ordered(R \union {n})
<1> SUFFICES ASSUME NEW S \in SUBSET (R \union {n}), S # {}
             PROVE  \E r \in S : \A q \in S : q.seq <= r.seq
  BY DEF Ordered
<1>1. \A r \in R \union {n} : r.seq \in Nat
  BY DEF Records
<1>2. CASE S \ {n} = {}
  <2>1. S = {n}
    BY <1>2
  <2> QED
    BY <1>1, <2>1
<1>3. CASE S \ {n} # {}
  <2>1. PICK m \in S \ {n} : \A q \in S \ {n} : q.seq <= m.seq
    BY <1>3 DEF Ordered
  <2>2. CASE n \in S /\ n.seq > m.seq
    BY <1>1, <2>1, <2>2
  <2>3. CASE ~(n \in S /\ n.seq > m.seq)
    BY <1>1, <2>1, <2>3
  <2> QED
    BY <2>2, <2>3
<1> QED
  BY <1>2, <1>3

\* A part of ordered records is ordered.
LEMMA OrderedShrinks ==
    ASSUME NEW R, NEW S \in SUBSET R, Ordered(R)
    PROVE  Ordered(S)
BY DEF Ordered

-----------------------------------------------------------------------------
(* Type correctness.                                                       *)

TypeInv == TypeOK /\ Ordered(stored)

\* What the readers compute from records is well-formed.
LEMMA ReadShapes ==
    ASSUME NEW R \in SUBSET Records, Ordered(R)
    PROVE  Tip(R) \in Hashes \union {None} /\ NextSeq(R) \in Nat
<1>1. CASE R = {}
  BY <1>1 DEF Tip, NextSeq
<1>2. CASE R # {}
  <2>1. Newest(R) \in Records
    BY <1>2, NewestIsLast
  <2> QED
    BY <1>2, <2>1 DEF Tip, NextSeq, Hash, Hashes, Records
<1> QED
  BY <1>1, <1>2

\* What a put stores is a record.
LEMMA NewRecordShape ==
    ASSUME TypeOK, NEW w \in Writers, pc[w] = "put"
    PROVE  NewRecord(w) \in Records
BY DEF TypeOK, NewRecord, Records, Calls

\* A call that ends leaves its writer ready for the next one.
LEMMA FinishShapes ==
    ASSUME TypeOK, NEW w \in Writers, Finish(w)
    PROVE  /\ pc' \in [Writers -> {"idle", "number", "put"}]
           /\ call' \in [Writers -> Nat \ {0}]
           /\ \A v \in Writers : pc'[v] # "idle" => call'[v] \in DOMAIN Script[v]
<1>1. call[w] + 1 \in Nat \ {0}
  BY DEF TypeOK
<1>2. call' = [call EXCEPT ![w] = call[w] + 1] /\ pc' = [pc EXCEPT ![w] = "idle"]
  BY DEF Finish
<1> QED
  BY <1>1, <1>2 DEF TypeOK

\* A step keeps the types, and the records ordered.
LEMMA TypeStep ==
    ASSUME AuditAssumption, ListsStored, TypeInv, [Next]_vars
    PROVE  TypeInv'
<1> USE DEF TypeInv
<1>1. ASSUME NEW w \in Writers, ReadChain(w)
      PROVE  TypeInv'
  <2>1. Tip(FirstPage(stored)) \in Hashes \union {None}
    BY ReadShapes, OrderedShrinks DEF ListsStored, TypeOK
  <2>2. Supplied(w) = None \/ Supplied(w) \in Nat
    BY <1>1 DEF ReadChain, Supplied, AuditAssumption
  <2>3. UNCHANGED <<stored, written, late>> /\ faults' \in 0..MaxFaults
    BY <1>1 DEF ReadChain, NoFault, Fault, TypeOK, AuditAssumption
  <2>4. pc' \in [Writers -> {"idle", "number", "put"}] /\ call' \in [Writers -> Nat \ {0}]
    BY <1>1, FinishShapes DEF ReadChain, TypeOK
  <2>5. prev' \in [Writers -> Hashes \union {None}] /\ seq' \in [Writers -> Nat]
    <3>1. prev' = prev \/ prev' = [prev EXCEPT ![w] = Tip(FirstPage(stored))]
      BY <1>1 DEF ReadChain
    <3>2. seq' = seq \/ \E n \in Nat : seq' = [seq EXCEPT ![w] = n]
      BY <1>1, <2>2 DEF ReadChain
    <3>3. prev' \in [Writers -> Hashes \union {None}]
      BY <2>1, <3>1 DEF TypeOK
    <3> QED
      BY <3>2, <3>3 DEF TypeOK
  <2>6. \A v \in Writers : pc'[v] # "idle" => call'[v] \in DOMAIN Script[v]
    BY <1>1, FinishShapes DEF ReadChain, TypeOK
  <2> QED
    BY <2>3, <2>4, <2>5, <2>6 DEF TypeOK, Ordered
<1>2. ASSUME NEW w \in Writers, AllocateSeq(w)
      PROVE  TypeInv'
  <2>1. NextSeq(FirstPage(stored)) \in Nat
    BY ReadShapes, OrderedShrinks DEF ListsStored, TypeOK
  <2>2. UNCHANGED <<stored, prev, written, late>> /\ faults' \in 0..MaxFaults
    BY <1>2 DEF AllocateSeq, NoFault, Fault, TypeOK, AuditAssumption
  <2>3. /\ pc' \in [Writers -> {"idle", "number", "put"}]
        /\ call' \in [Writers -> Nat \ {0}]
    BY <1>2, FinishShapes DEF AllocateSeq, TypeOK
  <2>5. seq' \in [Writers -> Nat]
    <3>1. seq' = seq \/ seq' = [seq EXCEPT ![w] = NextSeq(FirstPage(stored))]
      BY <1>2 DEF AllocateSeq
    <3> QED
      BY <2>1, <3>1 DEF TypeOK
  <2>4. \A v \in Writers : pc'[v] # "idle" => call'[v] \in DOMAIN Script[v]
    BY <1>2, FinishShapes DEF AllocateSeq, TypeOK
  <2> QED
    BY <2>2, <2>3, <2>4, <2>5 DEF TypeOK, Ordered
<1>3. ASSUME NEW w \in Writers, Put(w)
      PROVE  TypeInv'
  <2>1. NewRecord(w) \in Records
    BY <1>3, NewRecordShape DEF Put
  <2>2. stored' = stored \/ stored' = stored \union {NewRecord(w)}
    BY <1>3 DEF Put
  <2>3. stored' \subseteq Records /\ Ordered(stored')
    BY <2>1, <2>2, OrderedGrows DEF TypeOK
  <2>4. written' \subseteq Records /\ late' \in [Writers -> Nat] /\ UNCHANGED <<prev, seq>>
    BY <1>3, <2>3 DEF Put, TypeOK
  <2>5. faults' \in 0..MaxFaults
    BY <1>3 DEF Put, NoFault, Fault, TypeOK, AuditAssumption
  <2>6. /\ pc' \in [Writers -> {"idle", "number", "put"}] /\ call' \in [Writers -> Nat \ {0}]
        /\ \A v \in Writers : pc'[v] # "idle" => call'[v] \in DOMAIN Script[v]
    BY <1>3, FinishShapes DEF Put
  <2> QED
    BY <2>3, <2>4, <2>5, <2>6 DEF TypeOK, Ordered
<1>4. ASSUME NEW r \in stored, Tamper(r)
      PROVE  TypeInv'
  <2>1. [r EXCEPT !.altered = TRUE] \in Records
    BY DEF TypeOK, Records
  <2>2. stored \ {r} \in SUBSET Records /\ Ordered(stored \ {r})
    BY OrderedShrinks DEF TypeOK
  <2>3. stored' \subseteq Records /\ Ordered(stored')
    BY <1>4, <2>1, <2>2, OrderedGrows DEF Tamper
  <2>4. faults' \in 0..MaxFaults /\ UNCHANGED <<pc, call, prev, seq, written>>
    BY <1>4 DEF Tamper, local, Fault, TypeOK, AuditAssumption
  <2>5. late' \in [Writers -> Nat]
    BY <1>4 DEF Tamper, TypeOK
  <2> QED
    BY <2>3, <2>4, <2>5 DEF TypeOK, Ordered
<1>5. CASE UNCHANGED vars
  BY <1>5 DEF vars, local, TypeOK, Ordered
<1> QED
  BY <1>1, <1>2, <1>3, <1>4, <1>5 DEF Next

LEMMA TypeInit == AuditAssumption /\ Init => TypeInv
BY DEF AuditAssumption, Init, TypeInv, TypeOK, Ordered

LEMMA TypeInvariance == ListsStored => (Spec => []TypeInv)
<1> USE AuditAssumption
<1> SUFFICES ASSUME ListsStored PROVE Spec => []TypeInv
  OBVIOUS
<1> QED
  BY TypeInit, TypeStep, PTL DEF Spec

\* Whoever writes, fails or tampers: records and writers keep their types.
THEOREM AuditTypeOK == ASSUME ListsStored PROVE Spec => []TypeOK
<1>1. TypeInv => TypeOK
  BY DEF TypeInv
<1> QED
  BY <1>1, TypeInvariance, PTL
-----------------------------------------------------------------------------
(* A broken chain stays broken.                                            *)

\* With the calls counted as in c, h is the hash of a record that a finished
\* call may have stored, or the hash of none.
Past(h, c) == h = None \/ h[2] < c[h[1]]

\* The hash of the next record is new: no record refers to it yet.
LinkInv ==
    /\ \A r \in stored : r.call < call[r.by] /\ Past(r.prev, call)
    /\ \A w \in Writers : Past(prev[w], call)

\* What a step of a writer does to the stored records.
LEMMA StoredGrows ==
    ASSUME "tamper" \notin Events, [Next]_vars
    PROVE  \/ stored' = stored /\ UNCHANGED late
           \/ \E w \in Writers : Put(w) /\ stored' = stored \union {NewRecord(w)}
<1> USE DEF Next, ReadChain, AllocateSeq, Put, Tamper, Fault, vars
<1> QED
  OBVIOUS

\* Calls are numbered.
LEMMA CallsAreNat == AuditAssumption => Calls \subseteq Nat
BY DEF AuditAssumption, Calls

\* What is past stays past.
LEMMA PastStays ==
    ASSUME AuditAssumption, TypeOK,
           \A v \in Writers : call'[v] = call[v] \/ call'[v] = call[v] + 1
    PROVE  /\ \A r \in Records : r.call < call[r.by] => r.call < call'[r.by]
           /\ \A h \in Hashes \union {None} : Past(h, call) => Past(h, call')
<1> SUFFICES ASSUME NEW v \in Writers, NEW c \in Calls, c < call[v] PROVE c < call'[v]
  BY DEF Records, Hashes, Past
<1>1. c \in Nat /\ call[v] \in Nat
  BY CallsAreNat DEF TypeOK
<1> QED
  BY <1>1

\* The newest of past records is past.
LEMMA TipIsPast ==
    ASSUME LinkInv, NEW R \in SUBSET stored, Ordered(R)
    PROVE  Past(Tip(R), call)
<1>1. CASE R = {}
  BY <1>1 DEF Tip, Past
<1>2. CASE R # {}
  <2>1. Newest(R) \in stored
    BY <1>2, NewestIsLast
  <2> QED
    BY <1>2, <2>1 DEF LinkInv, Tip, Hash, Past
<1> QED
  BY <1>1, <1>2

\* A call that goes on or ends keeps the past, and reads nothing but it.
LEMMA LinkStep ==
    ASSUME AuditAssumption, ListsStored, TypeInv, LinkInv, [Next]_vars
    PROVE  LinkInv'
<1> USE DEF TypeInv
<1>0. stored \subseteq Records /\ prev \in [Writers -> Hashes \union {None}]
      /\ \A r \in stored : r.prev \in Hashes \union {None}
  BY DEF TypeOK, Records
<1>1. ASSUME NEW w \in Writers, ReadChain(w)
      PROVE  LinkInv'
  <2>1. FirstPage(stored) \in SUBSET stored /\ Ordered(FirstPage(stored))
    BY OrderedShrinks DEF ListsStored, TypeOK
  <2>2. Tip(FirstPage(stored)) \in Hashes \union {None} /\ Past(Tip(FirstPage(stored)), call)
    BY <1>0, <2>1, ReadShapes, TipIsPast
  <2>3. prev' = prev \/ prev' = [prev EXCEPT ![w] = Tip(FirstPage(stored))]
    BY <1>1 DEF ReadChain
  <2>4. stored' = stored /\ (call' = call \/ call' = [call EXCEPT ![w] = call[w] + 1])
    BY <1>1 DEF ReadChain, Finish
  <2>5. \A v \in Writers : call'[v] = call[v] \/ call'[v] = call[v] + 1
    BY <2>4 DEF TypeOK
  <2>6. \A v \in Writers : Past(prev'[v], call) /\ prev'[v] \in Hashes \union {None}
    BY <1>0, <2>2, <2>3 DEF LinkInv
  <2>7. \A v \in Writers : Past(prev'[v], call')
    BY <2>5, <2>6, PastStays
  <2>8. \A r \in stored : r.call < call'[r.by] /\ Past(r.prev, call')
    BY <1>0, <2>5, PastStays DEF LinkInv
  <2> QED
    BY <2>4, <2>7, <2>8 DEF LinkInv, Past
<1>2. ASSUME NEW w \in Writers, AllocateSeq(w)
      PROVE  LinkInv'
  <2>1. /\ stored' = stored /\ prev' = prev
        /\ call' = call \/ call' = [call EXCEPT ![w] = call[w] + 1]
    BY <1>2 DEF AllocateSeq, Finish
  <2>2. \A v \in Writers : call'[v] = call[v] \/ call'[v] = call[v] + 1
    BY <2>1 DEF TypeOK
  <2> QED
    BY <1>0, <2>1, <2>2, PastStays DEF LinkInv
<1>3. ASSUME NEW w \in Writers, Put(w)
      PROVE  LinkInv'
  <2> DEFINE n == NewRecord(w)
  <2>1. n \in Records /\ n.by = w /\ n.call = call[w] /\ n.prev = prev[w]
    BY <1>3, NewRecordShape DEF Put, NewRecord
  <2>2. stored' = stored \/ stored' = stored \union {n}
    BY <1>3 DEF Put
  <2>3. prev' = prev /\ call' = [call EXCEPT ![w] = call[w] + 1]
    BY <1>3 DEF Put, Finish
  <2>4. \A v \in Writers : call'[v] = IF v = w THEN call[v] + 1 ELSE call[v]
    BY <2>3 DEF TypeOK
  <2>5. n.call < call'[n.by]
    BY <2>1, <2>4 DEF TypeOK
  <2>6. \A v \in Writers : Past(prev'[v], call')
    <3>1. \A v \in Writers : Past(prev[v], call) => Past(prev[v], call')
      BY <1>0, <2>4, PastStays
    <3> QED
      BY <2>3, <3>1 DEF LinkInv
  <2>7. \A r \in stored : r.call < call'[r.by] /\ Past(r.prev, call')
    BY <1>0, <2>4, PastStays DEF LinkInv
  <2>8. Past(n.prev, call')
    BY <2>1, <2>3, <2>6
  <2> HIDE DEF n
  <2> QED
    BY <2>2, <2>5, <2>6, <2>7, <2>8 DEF LinkInv, Past
<1>4. ASSUME NEW r \in stored, Tamper(r)
      PROVE  LinkInv'
  <2> DEFINE t == [r EXCEPT !.altered = TRUE]
  <2>1. t.call = r.call /\ t.by = r.by /\ t.prev = r.prev
    BY <1>0 DEF Records
  <2>2. UNCHANGED <<call, prev>> /\ stored' \subseteq stored \union {t}
    BY <1>4 DEF Tamper, local
  <2> HIDE DEF t
  <2> QED
    BY <2>1, <2>2 DEF LinkInv, Past
<1>5. CASE UNCHANGED vars
  BY <1>5 DEF vars, local, LinkInv, Past
<1> QED
  BY <1>1, <1>2, <1>3, <1>4, <1>5 DEF Next

\* The record to come has a hash that no stored record has or refers to.
LEMMA NextIsNew ==
    ASSUME AuditAssumption, TypeInv, LinkInv, NEW w \in Writers, pc[w] = "put"
    PROVE  \A r \in stored : Hash(r) # Hash(NewRecord(w)) /\ r.prev # Hash(NewRecord(w))
<1> SUFFICES ASSUME NEW r \in stored
             PROVE  Hash(r) # Hash(NewRecord(w)) /\ r.prev # Hash(NewRecord(w))
  OBVIOUS
<1>1. call[w] \in Nat /\ ~(call[w] < call[w])
  BY DEF TypeInv, TypeOK
<1>2. ~(r.by = w /\ r.call = call[w])
  BY <1>1 DEF LinkInv
<1>3. Hash(NewRecord(w)) = <<w, call[w], FALSE>>
  BY DEF Hash, NewRecord
<1>4. ~Past(<<w, call[w], FALSE>>, call)
  <2>1. call[w] \in Calls
    BY DEF TypeInv, TypeOK, Calls
  <2>2. <<w, call[w], FALSE>> \in Hashes
    BY <2>1 DEF Hashes
  <2> QED
    BY <1>1, <2>2 DEF AuditAssumption, Past
<1> QED
  BY <1>2, <1>3, <1>4 DEF LinkInv, Hash

\* A record nothing stored refers to cannot repair the chain it joins.
LEMMA NothingRepairs ==
    ASSUME NEW R \in SUBSET Records, NEW n \in Records, Ordered(R),
           \A r \in R : r.prev # Hash(n),
           Verified(R \union {n})
    PROVE  Verified(R)
<1>1. \A r, q \in R : r.seq = q.seq => r = q
  BY DEF Verified
<1>2. ASSUME NEW r \in R
      PROVE  r.prev = Tip({q \in R : q.seq < r.seq})
  <2> DEFINE S == {q \in R : q.seq < r.seq}
             T == {q \in R \union {n} : q.seq < r.seq}
  <2>1. r.prev = Tip(T)
    BY DEF Verified
  <2>2. CASE T = S
    BY <2>1, <2>2
  <2>3. CASE T # S
    <3>1. T = S \union {n} /\ T # {}
      BY <2>3
    <3>2. Ordered(R \union {n})
      BY OrderedGrows
    <3>3. Newest(T) \in T /\ \A q \in T : q.seq <= Newest(T).seq
      BY <3>1, <3>2, NewestIsLast
    <3>4. Newest(T) # n
      BY <2>1, <3>1 DEF Tip
    <3>5. Newest(T) \in S /\ S # {}
      BY <3>1, <3>3, <3>4
    <3>6. Newest(S) \in S /\ \A q \in S : q.seq <= Newest(S).seq
      BY <3>5, NewestIsLast
    <3>7. Newest(S).seq = Newest(T).seq
      <4>1. Newest(S).seq \in Nat /\ Newest(T).seq \in Nat
        BY <3>5, <3>6 DEF Records
      <4>2. Newest(S).seq <= Newest(T).seq /\ Newest(T).seq <= Newest(S).seq
        BY <3>1, <3>3, <3>5, <3>6
      <4> QED
        BY <4>1, <4>2
    <3>8. Newest(S) = Newest(T)
      BY <1>1, <3>5, <3>6, <3>7
    <3> QED
      BY <2>1, <3>1, <3>5, <3>8 DEF Tip
  <2> QED
    BY <2>2, <2>3
<1> QED
  BY <1>1, <1>2 DEF Verified

\* No step that loses no record heals the chain.
LEMMA HealStep ==
    ASSUME AuditAssumption, TypeInv, LinkInv, [Next]_vars,
           ~Verified(stored), stored \subseteq stored'
    PROVE  ~Verified(stored')
<1>1. CASE stored' = stored
  BY <1>1
<1>2. ASSUME NEW w \in Writers, Put(w)
      PROVE  ~Verified(stored')
  <2>1. NewRecord(w) \in Records /\ stored \in SUBSET Records /\ Ordered(stored)
    BY <1>2, NewRecordShape DEF Put, TypeInv, TypeOK
  <2>2. \A r \in stored : r.prev # Hash(NewRecord(w))
    BY <1>2, NextIsNew DEF Put
  <2>3. stored' = stored \/ stored' = stored \union {NewRecord(w)}
    BY <1>2 DEF Put
  <2> QED
    BY <2>1, <2>2, <2>3, NothingRepairs
<1>3. ASSUME NEW r \in stored, Tamper(r)
      PROVE  FALSE
  <2>1. r \in Records
    BY DEF TypeInv, TypeOK
  <2>2. ~r.altered => r # [r EXCEPT !.altered = TRUE]
    BY <2>1 DEF Records
  <2>3. r \notin stored'
    BY <1>3, <2>2 DEF Tamper
  <2> QED
    BY <2>3
<1>4. ASSUME NEW w \in Writers, ReadChain(w) \/ AllocateSeq(w)
      PROVE  stored' = stored
  BY <1>4 DEF ReadChain, AllocateSeq
<1> QED
  BY <1>1, <1>2, <1>3, <1>4 DEF Next, vars

\* However many processes write, and whoever tampers, writing on does not
\* make a chain verify that did not.
THEOREM AuditNeverHeals == ASSUME ListsStored PROVE Spec => NeverHeals
<1>1. Init => LinkInv
  BY DEF Init, LinkInv, Past
<1>2. TypeInv /\ LinkInv /\ [Next]_vars => LinkInv'
  BY LinkStep, AuditAssumption
<1>3. TypeInv /\ LinkInv /\ [Next]_vars =>
          [~Verified(stored) /\ stored \subseteq stored' => ~Verified(stored')]_vars
  BY HealStep, AuditAssumption
<1> QED
  BY <1>1, <1>2, <1>3, TypeInvariance, PTL DEF Spec, NeverHeals
-----------------------------------------------------------------------------
(* A broken chain grows by at most one record of each writer.              *)

\* A writer that has added to a broken chain has met the check since.
DamageInv ==
    \A w \in Writers : /\ late[w] <= 1
                       /\ late[w] # 0 => ~Verified(stored) /\ pc[w] = "idle"

\* The check keeps a writer that has done its damage from doing more.
LEMMA DamageStep ==
    ASSUME AuditAssumption, ListsAll, TypeInv, LinkInv, DamageInv, [Next]_vars
    PROVE  DamageInv'
<1> USE DEF TypeInv
<1>2. ASSUME NEW w \in Writers, ReadChain(w)
      PROVE  DamageInv'
  <2>1. FirstPage(stored) = stored
    BY DEF ListsAll, TypeOK
  <2>2. ~Verified(stored) => pc'[w] = "idle"
    BY <1>2, <2>1 DEF ReadChain, Extensible, Finish, TypeOK
  <2>3. \A v \in Writers : v # w => pc'[v] = pc[v]
    BY <1>2 DEF ReadChain, Finish, TypeOK
  <2>4. late' = late /\ stored' = stored
    BY <1>2 DEF ReadChain
  <2> QED
    BY <2>2, <2>3, <2>4 DEF DamageInv
<1>3. ASSUME NEW w \in Writers, AllocateSeq(w)
      PROVE  DamageInv'
  <2>1. pc[w] # "idle" /\ late' = late /\ stored' = stored
    BY <1>3 DEF AllocateSeq
  <2>2. \A v \in Writers : v # w => pc'[v] = pc[v]
    BY <1>3 DEF AllocateSeq, Finish, TypeOK
  <2> QED
    BY <2>1, <2>2 DEF DamageInv
<1>4. ASSUME NEW w \in Writers, Put(w)
      PROVE  DamageInv'
  <2>1. pc[w] # "idle" /\ late[w] = 0
    BY <1>4 DEF Put, DamageInv
  <2>2. pc' = [pc EXCEPT ![w] = "idle"]
    BY <1>4 DEF Put, Finish
  <2>3. \/ late' = late
        \/ ~Verified(stored) /\ late' = [late EXCEPT ![w] = late[w] + 1]
    BY <1>4 DEF Put
  <2>4. \A v \in Writers : v # w => pc'[v] = pc[v] /\ late'[v] = late[v]
    BY <2>2, <2>3 DEF TypeOK
  <2>5. pc'[w] = "idle" /\ (late'[w] = 0 \/ (~Verified(stored) /\ late'[w] = 1))
    <3>1. late' = late \/ (late' = [late EXCEPT ![w] = 1] /\ ~Verified(stored))
      BY <2>1, <2>3
    <3> QED
      BY <2>1, <2>2, <3>1 DEF TypeOK
  <2>6. ~Verified(stored) => ~Verified(stored')
    <3>1. stored \subseteq stored'
      BY <1>4 DEF Put
    <3> QED
      BY <3>1, HealStep
  <2> QED
    BY <2>4, <2>5, <2>6 DEF DamageInv
<1>5. ASSUME NEW r \in stored, Tamper(r)
      PROVE  DamageInv'
  <2>1. pc' = pc
    BY <1>5 DEF Tamper
  <2>2. CASE Verified(stored')
    <3>1. late' = [w \in Writers |-> 0]
      BY <1>5, <2>2 DEF Tamper
    <3> QED
      BY <3>1 DEF DamageInv
  <2>3. CASE ~Verified(stored')
    BY <1>5, <2>1, <2>3 DEF Tamper, DamageInv
  <2> QED
    BY <2>2, <2>3
<1>6. CASE UNCHANGED vars
  BY <1>6 DEF vars, DamageInv
<1> QED
  BY <1>2, <1>3, <1>4, <1>5, <1>6 DEF Next

\* However many processes write, and whoever tampers, each writer adds at
\* most one record to a chain that has stopped verifying.
THEOREM AuditDamageConfined == ASSUME ListsAll PROVE Spec => []DamageConfined
<1>1. ListsStored
  BY DEF ListsAll, ListsStored
<1>2. Init => LinkInv /\ DamageInv
  BY DEF Init, LinkInv, DamageInv, Past
<1>3. TypeInv /\ LinkInv /\ DamageInv /\ [Next]_vars => LinkInv' /\ DamageInv'
  BY <1>1, LinkStep, DamageStep, AuditAssumption
<1>4. DamageInv => DamageConfined
  BY DEF DamageInv, DamageConfined
<1> QED
  BY <1>1, <1>2, <1>3, <1>4, TypeInvariance, PTL DEF Spec

-----------------------------------------------------------------------------
(* A chain that verifies seals every record that has a successor.          *)

\* What was written is what finished calls stored, one record each, and an
\* unaltered record is one that was written.
OriginInv ==
    /\ written \subseteq Records
    /\ \A r \in written : r.call < call[r.by] /\ ~r.altered
    /\ \A r, q \in written : r.by = q.by /\ r.call = q.call => r = q
    /\ \A r \in stored : ~r.altered => r \in written

\* Writers add fresh records, and tampering adds altered ones only.
LEMMA OriginStep ==
    ASSUME AuditAssumption, TypeInv, OriginInv, [Next]_vars
    PROVE  OriginInv'
<1> USE DEF TypeInv
<1>1. ASSUME NEW w \in Writers, ReadChain(w) \/ AllocateSeq(w)
      PROVE  OriginInv'
  <2>1. UNCHANGED <<stored, written>>
    BY <1>1 DEF ReadChain, AllocateSeq
  <2>2. call' = call \/ call' = [call EXCEPT ![w] = call[w] + 1]
    BY <1>1 DEF ReadChain, AllocateSeq, Finish
  <2>3. \A v \in Writers : call'[v] = call[v] \/ call'[v] = call[v] + 1
    BY <2>2 DEF TypeOK
  <2> QED
    BY <2>1, <2>3, PastStays DEF OriginInv
<1>2. ASSUME NEW w \in Writers, Put(w)
      PROVE  OriginInv'
  <2> DEFINE n == NewRecord(w)
  <2>1. n \in Records /\ n.by = w /\ n.call = call[w] /\ ~n.altered
    BY <1>2, NewRecordShape DEF Put, NewRecord
  <2>2. \/ stored' = stored /\ written' = written
        \/ stored' = stored \union {n} /\ written' \subseteq written \union {n}
           /\ written \subseteq written' /\ (n \in stored \/ n \in written')
    BY <1>2 DEF Put
  <2>3. call' = [call EXCEPT ![w] = call[w] + 1]
    BY <1>2 DEF Put, Finish
  <2>4. \A v \in Writers : call'[v] = IF v = w THEN call[v] + 1 ELSE call[v]
    BY <2>3 DEF TypeOK
  <2>5. n.call < call'[n.by] /\ ~(call[w] < call[w])
    BY <2>1, <2>4 DEF TypeOK
  <2>6. \A r \in written : r.call < call'[r.by]
    BY <2>4, PastStays DEF OriginInv
  <2> HIDE DEF n
  <2>7. \A r \in written : ~(r.by = n.by /\ r.call = n.call)
    BY <2>1, <2>5 DEF OriginInv
  <2> QED
    BY <2>1, <2>2, <2>5, <2>6, <2>7 DEF OriginInv
<1>3. ASSUME NEW r \in stored, Tamper(r)
      PROVE  OriginInv'
  <2> DEFINE t == [r EXCEPT !.altered = TRUE]
  <2>1. t.altered
    BY DEF TypeOK, Records
  <2>2. UNCHANGED <<call, written>> /\ stored' \subseteq stored \union {t}
    BY <1>3 DEF Tamper, local
  <2> HIDE DEF t
  <2> QED
    BY <2>1, <2>2 DEF OriginInv
<1>4. CASE UNCHANGED vars
  BY <1>4 DEF vars, local, OriginInv
<1> QED
  BY <1>1, <1>2, <1>3, <1>4 DEF Next

\* Whoever writes or tampers: while the chain verifies, a record that another
\* one was put upon is there as it was written.
THEOREM AuditSealedBySuccessor == ASSUME ListsStored PROVE Spec => []SealedBySuccessor
<1>1. Init => OriginInv
  BY DEF Init, OriginInv
<1>2. TypeInv /\ OriginInv /\ [Next]_vars => OriginInv'
  BY OriginStep, AuditAssumption
<1>3. TypeInv /\ OriginInv => SealedBySuccessor
  <2> SUFFICES ASSUME TypeInv, OriginInv, Verified(stored),
                      NEW q \in written, NEW r \in stored, r.prev = Hash(q)
               PROVE  q \in stored
    BY DEF SealedBySuccessor
  <2> DEFINE below == {p \in stored : p.seq < r.seq}
  <2>1. Tip(below) = Hash(q)
    BY DEF Verified
  <2>2. Hash(q) # None
    BY AuditAssumption DEF AuditAssumption, OriginInv, Records, Hash, Hashes
  <2>3. below # {} /\ Hash(Newest(below)) = Hash(q)
    BY <2>1, <2>2 DEF Tip
  <2>4. Newest(below) \in stored
    BY <2>3, NewestIsLast DEF TypeInv
  <2> HIDE DEF below
  <2>5. /\ Newest(below).by = q.by /\ Newest(below).call = q.call
        /\ Newest(below).altered = q.altered
    BY <2>3 DEF Hash
  <2> QED
    BY <2>4, <2>5 DEF OriginInv
<1> QED
  BY <1>1, <1>2, <1>3, TypeInvariance, PTL DEF Spec

-----------------------------------------------------------------------------
(* One writer that numbers in order maintains an append-only log.          *)

Alone == \A v, w \in Writers : v = w

\* Supplied numbers ascend, and none is supplied after one was allocated.
InOrder ==
    \A w \in Writers : \A i, k \in DOMAIN Script[w] :
        i < k /\ Script[w][k] # None => Script[w][i] # None /\ Script[w][i] < Script[w][k]

\* What the writer found when it read the chain still holds when it puts.
SerialInv ==
    /\ Verified(stored)
    /\ \A w \in Writers : pc[w] # "idle" => prev[w] = Tip(stored)
    /\ \A w \in Writers : pc[w] = "number" => Supplied(w) = None
    /\ \A w \in Writers : pc[w] = "put" =>
          /\ Supplied(w) = None \/ seq[w] = Supplied(w)
          /\ \A r \in stored : r.seq < seq[w]
    /\ \A w \in Writers : \A k \in DOMAIN Script[w] :
          k >= call[w] /\ Script[w][k] # None => \A r \in stored : r.seq < Script[w][k]

\* A number beyond the newest is beyond all.
LEMMA NextSeqIsBeyond ==
    ASSUME NEW R \in SUBSET Records, Ordered(R)
    PROVE  \A r \in R : r.seq < NextSeq(R)
<1> SUFFICES ASSUME NEW r \in R PROVE r.seq < NextSeq(R)
  OBVIOUS
<1>1. Newest(R) \in R /\ r.seq <= Newest(R).seq
  BY NewestIsLast
<1>2. Newest(R).seq \in Nat /\ r.seq \in Nat
  BY <1>1 DEF Records
<1> QED
  BY <1>1, <1>2 DEF NextSeq

\* A record beyond all, put upon the newest, extends the chain.
LEMMA ExtensionVerifies ==
    ASSUME NEW R \in SUBSET Records, Ordered(R), Verified(R),
           NEW n \in Records, n.prev = Tip(R), \A r \in R : r.seq < n.seq
    PROVE  Verified(R \union {n}) /\ Tip(R \union {n}) = Hash(n)
<1>1. \A r \in R \union {n} : r.seq \in Nat
  BY DEF Records
<1>2. \A r, q \in R \union {n} : r.seq = q.seq => r = q
  BY <1>1 DEF Verified
<1>3. ASSUME NEW r \in R \union {n}
      PROVE  r.prev = Tip({q \in R \union {n} : q.seq < r.seq})
  <2>1. CASE r = n
    <3>1. {q \in R \union {n} : q.seq < r.seq} = R
      BY <1>1, <2>1
    <3> QED
      BY <2>1, <3>1
  <2>2. CASE r # n
    <3>1. r \in R /\ {q \in R \union {n} : q.seq < r.seq} = {q \in R : q.seq < r.seq}
      BY <1>1, <2>2
    <3> QED
      BY <3>1 DEF Verified
  <2> QED
    BY <2>1, <2>2
<1>4. Newest(R \union {n}) = n
  <2>1. Ordered(R \union {n})
    BY OrderedGrows
  <2>2. /\ Newest(R \union {n}) \in R \union {n}
        /\ n.seq <= Newest(R \union {n}).seq
    BY <2>1, NewestIsLast
  <2> QED
    BY <1>1, <2>2
<1> QED
  BY <1>2, <1>3, <1>4 DEF Verified, Tip

\* The writer's step keeps what it found.
LEMMA SerialStep ==
    ASSUME AuditAssumption, ListsAll, "tamper" \notin Events, Alone, InOrder,
           TypeInv, SerialInv, [Next]_vars
    PROVE  SerialInv'
<1> USE DEF TypeInv
<1>1. FirstPage(stored) = stored /\ stored \in SUBSET Records
  BY DEF ListsAll, TypeOK
<1>2. ASSUME NEW w \in Writers, ReadChain(w)
      PROVE  SerialInv'
  <2>1. stored' = stored /\ \A v \in Writers : v = w
    BY <1>2 DEF ReadChain, Alone
  <2>2. CASE Finish(w)
    <3>1. pc'[w] = "idle" /\ call'[w] = call[w] + 1 /\ call[w] \in Nat
      BY <2>2 DEF Finish, TypeOK
    <3>2. \A k \in DOMAIN Script[w] : k >= call'[w] => k >= call[w]
      BY <3>1 DEF AuditAssumption
    <3> QED
      BY <2>1, <3>1, <3>2 DEF SerialInv
  <2>3. CASE /\ prev' = [prev EXCEPT ![w] = Tip(stored)] /\ call' = call
             /\ Supplied(w) = None
             /\ pc' = [pc EXCEPT ![w] = "number"]
    <3>1. pc'[w] = "number" /\ prev'[w] = Tip(stored) /\ Supplied(w)' = None
      BY <2>3 DEF TypeOK, Supplied
    <3> QED
      BY <2>1, <2>3, <3>1 DEF SerialInv
  <2>4. CASE /\ prev' = [prev EXCEPT ![w] = Tip(stored)] /\ call' = call
             /\ Supplied(w) # None /\ call[w] \in DOMAIN Script[w]
             /\ pc' = [pc EXCEPT ![w] = "put"] /\ seq' = [seq EXCEPT ![w] = Supplied(w)]
    <3>1. pc'[w] = "put" /\ prev'[w] = Tip(stored) /\ seq'[w] = Supplied(w)' /\ seq'[w] = Supplied(w)
      BY <2>4 DEF TypeOK, Supplied
    <3>2. \A r \in stored : r.seq < Supplied(w)
      BY <2>4 DEF SerialInv, Supplied, AuditAssumption
    <3> QED
      BY <2>1, <2>4, <3>1, <3>2 DEF SerialInv
  <2> QED
    BY <1>1, <1>2, <2>2, <2>3, <2>4 DEF ReadChain
<1>3. ASSUME NEW w \in Writers, AllocateSeq(w)
      PROVE  SerialInv'
  <2>1. stored' = stored /\ prev' = prev /\ \A v \in Writers : v = w
    BY <1>3 DEF AllocateSeq, Alone
  <2>2. CASE Finish(w)
    <3>1. pc'[w] = "idle" /\ call'[w] = call[w] + 1 /\ call[w] \in Nat
      BY <2>2 DEF Finish, TypeOK
    <3>2. \A k \in DOMAIN Script[w] : k >= call'[w] => k >= call[w]
      BY <3>1 DEF AuditAssumption
    <3> QED
      BY <2>1, <3>1, <3>2 DEF SerialInv
  <2>3. CASE /\ seq' = [seq EXCEPT ![w] = NextSeq(stored)] /\ call' = call
             /\ pc' = [pc EXCEPT ![w] = "put"]
    <3>1. pc'[w] = "put" /\ seq'[w] = NextSeq(stored) /\ Supplied(w)' = Supplied(w)
      BY <2>3 DEF TypeOK, Supplied
    <3>2. \A r \in stored : r.seq < NextSeq(stored)
      BY <1>1, NextSeqIsBeyond
    <3>3. pc[w] = "number"
      BY <1>3 DEF AllocateSeq
    <3> QED
      BY <2>1, <2>3, <3>1, <3>2, <3>3 DEF SerialInv
  <2> QED
    BY <1>1, <1>3, <2>2, <2>3 DEF AllocateSeq
<1>4. ASSUME NEW w \in Writers, Put(w)
      PROVE  SerialInv'
  <2> DEFINE n == NewRecord(w)
  <2>1. \A v \in Writers : v = w
    BY DEF Alone
  <2>2. n \in Records /\ n.prev = Tip(stored) /\ n.seq = seq[w] /\ pc[w] = "put"
    BY <1>4, NewRecordShape DEF Put, NewRecord, SerialInv
  <2>3. \A r \in stored : r.seq < n.seq
    BY <2>2 DEF SerialInv
  <2>4. stored' = stored \/ stored' = stored \union {n}
    BY <1>4 DEF Put
  <2>5. pc'[w] = "idle" /\ call'[w] = call[w] + 1
    BY <1>4 DEF Put, Finish, TypeOK
  <2>6. call[w] \in DOMAIN Script[w] /\ call[w] \in Nat
    BY <2>2 DEF TypeOK
  <2>7. ASSUME NEW k \in DOMAIN Script[w], k >= call'[w], Script[w][k] # None
        PROVE  (\A r \in stored : r.seq < Script[w][k]) /\ n.seq < Script[w][k]
    <3>1. k > call[w] /\ k \in Nat
      BY <2>5, <2>6, <2>7 DEF AuditAssumption
    <3>2. Supplied(w) # None /\ Supplied(w) < Script[w][k]
      BY <2>6, <2>7, <3>1 DEF InOrder, Supplied
    <3>3. seq[w] = Supplied(w)
      BY <2>2, <3>2 DEF SerialInv
    <3>4. n.seq < Script[w][k]
      BY <2>2, <3>2, <3>3
    <3>5. k >= call[w]
      BY <2>6, <3>1
    <3> QED
      BY <2>7, <3>4, <3>5 DEF SerialInv
  <2> HIDE DEF n
  <2>8. Verified(stored')
    BY <1>1, <2>2, <2>3, <2>4, ExtensionVerifies DEF SerialInv
  <2> QED
    BY <2>1, <2>4, <2>5, <2>7, <2>8 DEF SerialInv
<1>5. CASE UNCHANGED vars
  BY <1>5 DEF vars, local, SerialInv, Supplied
<1> QED
  BY <1>2, <1>3, <1>4, <1>5 DEF Next, Tamper, Fault

\* The life of one writer: with what it found, it appends.
LEMMA AppendStep ==
    ASSUME AuditAssumption, "tamper" \notin Events, TypeInv, LinkInv, SerialInv, [Next]_vars
    PROVE  [\E e \in Hashes : Log!Append(e)]_<<
               {Hash(r) : r \in stored}, {<<Hash(r), r.prev>> : r \in stored}, Tip(stored)>>
<1>1. CASE stored' = stored
  BY <1>1
<1>2. ASSUME NEW w \in Writers, Put(w), stored' = stored \union {NewRecord(w)}
      PROVE  \E e \in Hashes : Log!Append(e)
  <2> DEFINE n == NewRecord(w)
  <2>1. n \in Records /\ stored \in SUBSET Records
    BY <1>2, NewRecordShape DEF Put, TypeInv, TypeOK
  <2>2. n.prev = Tip(stored) /\ \A r \in stored : r.seq < n.seq
    BY <1>2 DEF Put, NewRecord, SerialInv
  <2>3. Hash(n) \in Hashes
    BY <2>1 DEF Hash, Hashes, Records
  <2>4. \A q \in stored : Hash(q) # Hash(n)
    BY <1>2, NextIsNew DEF Put
  <2> HIDE DEF n
  <2>5. Tip(stored') = Hash(n)
    BY <1>2, <2>1, <2>2, ExtensionVerifies DEF TypeInv, SerialInv, n
  <2>6. stored' = stored \union {n}
    BY <1>2 DEF n
  <2>7. {Hash(r) : r \in stored'} = {Hash(r) : r \in stored} \union {Hash(n)}
    BY <2>6
  <2>8. {<<Hash(r), r.prev>> : r \in stored'}
            = {<<Hash(r), r.prev>> : r \in stored} \union {<<Hash(n), Tip(stored)>>}
    BY <2>2, <2>6
  <2>9. {Hash(r) : r \in stored}' = {Hash(r) : r \in stored'}
    BY DEF Hash
  <2>10. {<<Hash(r), r.prev>> : r \in stored}' = {<<Hash(r), r.prev>> : r \in stored'}
    BY DEF Hash
  <2>11. Tip(stored)' = Tip(stored')
    BY DEF Tip, Newest, Hash
  <2> QED
    BY <2>3, <2>4, <2>5, <2>7, <2>8, <2>9, <2>10, <2>11 DEF Log!Append
<1> QED
  BY <1>1, <1>2, StoredGrows

\* A plan's own executions and rollbacks, one after the other, leave a chain
\* that verifies, whatever fails in between.
THEOREM AuditChainVerifies ==
    ASSUME ListsAll, "tamper" \notin Events, Alone, InOrder
    PROVE  Spec => []ChainVerifies
<1>1. ListsStored
  BY DEF ListsAll, ListsStored
<1>2. AuditAssumption /\ Init => SerialInv
  BY DEF Init, SerialInv, Verified
<1>3. TypeInv /\ SerialInv /\ [Next]_vars => SerialInv'
  BY SerialStep, AuditAssumption
<1>4. TypeInv /\ SerialInv => ChainVerifies
  BY DEF TypeInv, TypeOK, SerialInv, ChainVerifies, VerifyChain, ListsAll
<1> QED
  BY <1>1, <1>2, <1>3, <1>4, AuditAssumption, TypeInvariance, PTL DEF Spec

\* Under the same conditions the chain implements the append-only log.
THEOREM AuditImplementsLog ==
    ASSUME ListsAll, "tamper" \notin Events, Alone, InOrder
    PROVE  Spec => LogSpec
<1>1. ListsStored
  BY DEF ListsAll, ListsStored
<1>2. Init => Log!Init /\ LinkInv /\ SerialInv
  BY DEF Init, Log!Init, LinkInv, Past, SerialInv, Verified, Tip
<1>3. TypeInv /\ LinkInv /\ SerialInv /\ [Next]_vars => LinkInv' /\ SerialInv'
  BY <1>1, LinkStep, SerialStep, AuditAssumption
<1>4. TypeInv /\ LinkInv /\ SerialInv /\ [Next]_vars =>
          [\E e \in Hashes : Log!Append(e)]_<<
              {Hash(r) : r \in stored}, {<<Hash(r), r.prev>> : r \in stored}, Tip(stored)>>
  BY AppendStep, AuditAssumption
<1> QED
  BY <1>1, <1>2, <1>3, <1>4, TypeInvariance, PTL DEF Spec, LogSpec, Log!Spec
=============================================================================
