-------------------------- MODULE ProvidersProofs --------------------------
(***************************************************************************)
(* What is proved of Providers for all places, contents, organizations,    *)
(* lists, providers of a run and bounds: the state is well typed, an       *)
(* adapter reports the truth, a restore is exact, an agent grants what was *)
(* previewed, and what is recorded as fresh can be found.                  *)
(***************************************************************************)
EXTENDS Providers, SequenceTheorems, TLAPS

\* What is said of the world whoever changes it.
WorldOK(w) ==
    /\ w \in [Places -> [what : Things, id : Nat]]
    /\ \A p \in Places : w[p].what \in Grants[p] \union {Absent}
    /\ \A p \in gone : p \in Places /\ w[p].what = Absent

\* The conjuncts of the adapters' type that do not mention the world.
JobOK ==
    /\ pc \in {"idle"} \union Running \union Ended
    /\ pc # "idle" => /\ job \in Jobs
                      /\ job.seen.what \in Grants[job.place] \union {Empty}
    /\ pc \in {"restore", "verify", "restored"} => job.pre.what = job.seen.what

-----------------------------------------------------------------------------
(* The world. *)

\* The type of the adapters in two parts, one of them about the world.
LEMMA AdaptersType == AdaptersTypeOK <=> WorldOK(world) /\ touched \in [Places -> Nat] /\ JobOK
  BY DEF AdaptersTypeOK, WorldOK, JobOK, Held

\* Granting something at a place that is not deleted is well typed and changes
\* that place only.
LEMMA GivenOK ==
  ASSUME WorldOK(world), NEW p \in Places, p \notin gone, NEW what \in Grants[p]
  PROVE  /\ WorldOK(Given(p, what))
         /\ Given(p, what)[p].what = what
         /\ \A q \in Places : q # p => Given(p, what)[q] = world[q]
  <1>1. what \in Things
    BY DEF Things
  <1>2. world[p].id + (IF Held(p) THEN 0 ELSE 1) \in Nat
    BY DEF WorldOK
  <1>3. Given(p, what) \in [Places -> [what : Things, id : Nat]]
    BY <1>1, <1>2 DEF Given, WorldOK
  <1>4. /\ Given(p, what)[p].what = what
        /\ \A q \in Places : q # p => Given(p, what)[q] = world[q]
    BY DEF Given, WorldOK
  <1> QED
    BY <1>3, <1>4 DEF WorldOK

\* Removing what is at a place is well typed, changes that place only and
\* leaves nothing there.
LEMMA TakenOK ==
  ASSUME WorldOK(world), NEW p \in Places
  PROVE  /\ WorldOK(Taken(p))
         /\ Taken(p)[p].what = Absent
         /\ \A q \in Places : q # p => Taken(p)[q] = world[q]
  <1>1. Absent \in Things
    BY DEF Things
  <1> DEFINE nothing == [world[p] EXCEPT !.what = Absent]
  <1>a. nothing \in [what : Things, id : Nat] /\ nothing.what = Absent
    BY <1>1 DEF WorldOK
  <1>b. Taken(p) = [world EXCEPT ![p] = nothing]
    BY DEF Taken
  <1> HIDE DEF nothing
  <1>2. Taken(p) \in [Places -> [what : Things, id : Nat]]
    BY <1>a, <1>b DEF WorldOK
  <1>3. /\ Taken(p)[p].what = Absent
        /\ \A q \in Places : q # p => Taken(p)[q] = world[q]
    BY <1>a, <1>b DEF WorldOK
  <1> QED
    BY <1>2, <1>3 DEF WorldOK

\* Whoever changes what is at a place counts it there.
Counted ==
    \A p \in Places : /\ touched[p] <= touched'[p]
                      /\ touched[p] = touched'[p] => world'[p] = world[p]

\* A remediation counts what it changes itself also as seen.
CountsOwn ==
    /\ touched' = [touched EXCEPT ![job.place] = @ + Changes]
    /\ job'.since = job.since + Changes

-----------------------------------------------------------------------------
(* Requests. *)

\* A request keeps the types, leads to one of the places it names, and only
\* an answer leads to success.
LEMMA RequestOK ==
  ASSUME AdaptersTypeOK, pc \in Running, NEW after, WorldOK(after),
         \A q \in Places : q # job.place => after[q] = world[q],
         NEW done \in Running \union Ended, NEW failed \in Ended, done # pc,
         Request(after, done, failed)
  PROVE  /\ WorldOK(world') /\ world' \in {world, after}
         /\ pc' \in {pc, done, failed}
         /\ (pc' = done /\ done # failed) => world' = after
         /\ job' \in Jobs /\ job'.place = job.place /\ job'.seen = job.seen
         /\ job'.pre = job.pre
         /\ CountsOwn /\ Counted /\ UNCHANGED gone
  <1>1. job \in Jobs /\ WorldOK(world)
    BY AdaptersType DEF JobOK, Running
  <1>2. PICK answer \in Answers :
          LET next == AfterAnswer(Kind[job.place], job.tries, answer, pc, done, failed)
          IN  /\ Sent(after, answer)
              /\ pc' = next
              /\ touched' = [touched EXCEPT ![job.place] = @ + Changes]
              /\ job' = [job EXCEPT !.asked = TRUE, !.since = @ + Changes,
                            !.tries = IF next = pc /\ @ > 0 THEN @ - 1 ELSE MaxRetries]
              /\ UNCHANGED <<gone, left>>
    BY DEF Request
  <1>3. world' \in {world, after} /\ (answer = "answered" => world' = after)
    BY <1>2 DEF Sent
  <1>4. WorldOK(world)' /\ WorldOK(world')
    BY <1>1, <1>2, <1>3 DEF WorldOK
  <1>5. pc' \in {pc, done, failed} /\ ((pc' = done /\ done # failed) => answer = "answered")
    BY <1>2 DEF AfterAnswer
  <1>6. MaxRetries \in Nat
    BY AdaptersAssumption
  <1>7. Changes \in {0, 1} /\ job.tries \in Nat /\ job.since \in Nat /\ job.place \in Places
    BY <1>1 DEF Jobs, Changes
  <1>8. PICK tries \in Nat, since \in Nat :
           /\ job' = [job EXCEPT !.asked = TRUE, !.since = since, !.tries = tries]
           /\ since = job.since + Changes
    <2> DEFINE t == IF AfterAnswer(Kind[job.place], job.tries, answer, pc, done, failed) = pc
                       /\ job.tries > 0 THEN job.tries - 1 ELSE MaxRetries
               since == job.since + Changes
    <2>1. t \in Nat /\ since \in Nat
      BY <1>6, <1>7
    <2>2. job' = [job EXCEPT !.asked = TRUE, !.since = since, !.tries = t]
      BY <1>2, Zenon
    <2> QED
      BY <2>1, <2>2, Zenon
  <1>9. /\ job' \in Jobs /\ job'.place = job.place /\ job'.seen = job.seen
        /\ job'.pre = job.pre /\ job'.since = job.since + Changes
    BY <1>1, <1>8 DEF Jobs
  <1>10. touched \in [Places -> Nat] /\ touched' = [touched EXCEPT ![job.place] = @ + Changes]
    BY <1>2, AdaptersType
  <1>11. CountsOwn
    BY <1>9, <1>10 DEF CountsOwn
  <1>12. Counted
    <2> SUFFICES ASSUME NEW q \in Places
                 PROVE  /\ touched[q] <= touched'[q]
                        /\ touched[q] = touched'[q] => world'[q] = world[q]
      BY DEF Counted
    <2>1. CASE q = job.place
      BY <1>7, <1>10, <2>1 DEF Changes
    <2>2. CASE q # job.place
      BY <1>3, <1>10, <2>2
    <2> QED
      BY <2>1, <2>2
  <1> QED
    BY <1>2, <1>3, <1>4, <1>5, <1>9, <1>11, <1>12
-----------------------------------------------------------------------------
(* The remediation. *)

\* A place that nobody touched since it was listed is not deleted.
SinceOK ==
    pc # "idle" =>
       /\ job.since <= touched[job.place]
       /\ touched[job.place] = job.since => job.place \notin gone

\* The inductive invariant of the adapters.
AdaptersInv == AdaptersTypeOK /\ SinceOK /\ RestoredIsExact

\* What an action has to show that ends with a request.
LEMMA AfterRequest ==
  ASSUME AdaptersInv, pc \in Running, WorldOK(world'),
         job' \in Jobs, job'.place = job.place, job'.seen = job.seen,
         job'.pre = job.pre, CountsOwn, UNCHANGED gone,
         pc' \in Running \union Ended,
         pc' \in {"restore", "verify", "restored"} => pc \in {"restore", "verify"},
         (pc' = "restored" /\ touched[job.place] = job.since) =>
            world'[job.place].what = job.seen.what
  PROVE  AdaptersInv'
  <1>1. pc # "idle" /\ pc' # "idle"
    BY DEF Running, Ended
  <1>2. JobOK /\ touched \in [Places -> Nat]
    BY AdaptersType DEF AdaptersInv
  <1>3. JobOK'
    BY <1>1, <1>2 DEF JobOK
  <1>4. WorldOK(world)'
    BY DEF WorldOK
  <1>5. /\ Changes \in Nat /\ touched[job.place] \in Nat /\ job.since \in Nat
        /\ touched' \in [Places -> Nat]
        /\ touched'[job.place] = touched[job.place] + Changes
    BY <1>1, <1>2 DEF JobOK, Jobs, Changes, CountsOwn
  <1>6. AdaptersTypeOK'
    BY <1>3, <1>4, <1>5 DEF AdaptersTypeOK, WorldOK, JobOK, Held
  <1>7. touched'[job'.place] = job'.since <=> touched[job.place] = job.since
    BY <1>5 DEF CountsOwn
  <1>8. SinceOK'
    BY <1>1, <1>5, <1>7 DEF AdaptersInv, SinceOK, CountsOwn
  <1>9. RestoredIsExact'
    BY <1>7 DEF RestoredIsExact
  <1> QED
    BY <1>6, <1>8, <1>9 DEF AdaptersInv

\* A removal is told only if nothing is left.
LEMMA RevokeOK ==
  ASSUME AdaptersInv, Revoke
  PROVE  AdaptersInv' /\ TellsTheTruth /\ Counted
  <1> DEFINE p == job.place
  <1>1. pc = "apply" /\ pc \in Running
    BY DEF Revoke, Running
  <1>2. AdaptersTypeOK /\ WorldOK(world) /\ job \in Jobs /\ p \in Places
    BY <1>1, AdaptersType DEF AdaptersInv, JobOK, Jobs
  <1>3. CASE Found(p) /\ Request(Taken(p), "removed", "unknown")
    <2>1. /\ WorldOK(Taken(p)) /\ Taken(p)[p].what = Absent
          /\ \A q \in Places : q # p => Taken(p)[q] = world[q]
      BY <1>2, TakenOK
    <2>0. "removed" \in Ended /\ "unknown" \in Ended /\ "removed" # pc
      BY <1>1 DEF Ended
    <2>2. /\ WorldOK(world') /\ world' \in {world, Taken(p)}
          /\ pc' \in {pc, "removed", "unknown"}
          /\ pc' = "removed" /\ "removed" # "unknown" => world' = Taken(p)
          /\ job' \in Jobs /\ job'.place = job.place /\ job'.seen = job.seen
          /\ job'.pre = job.pre /\ CountsOwn /\ Counted /\ UNCHANGED gone
      BY <1>1, <1>2, <1>3, <2>1, <2>0, RequestOK
    <2>3. AdaptersInv'
      BY <1>1, <2>2, AfterRequest DEF Running, Ended
    <2> QED
      BY <2>1, <2>2, <2>3 DEF TellsTheTruth
  <1>4. ASSUME ~Found(p), NEW means \in MissingMeans(Kind[p]), Request(world, means, "unknown")
        PROVE  AdaptersInv' /\ TellsTheTruth /\ Counted
    <2>1. means \in {"removed", "unknown"} /\ (means = "removed" => ~ById(Kind[p]))
      BY <1>4 DEF MissingMeans, ById, GitHub, Aws, Enterprise
    <2>2. means = "removed" => world[p].what = Absent
      BY <1>4, <2>1 DEF Found, Held
    <2>0. means \in Ended /\ "unknown" \in Ended /\ means # pc
      BY <1>1, <2>1 DEF Ended
    <2>3. /\ WorldOK(world') /\ world' \in {world, world} /\ pc' \in {pc, means, "unknown"}
          /\ job' \in Jobs /\ job'.place = job.place /\ job'.seen = job.seen
          /\ job'.pre = job.pre /\ CountsOwn /\ Counted /\ UNCHANGED gone
      BY <1>1, <1>2, <1>4, <2>0, RequestOK
    <2>4. AdaptersInv'
      BY <1>1, <2>1, <2>3, AfterRequest DEF Running, Ended
    <2> QED
      BY <2>1, <2>2, <2>3, <2>4 DEF TellsTheTruth
  <1> QED
    BY <1>3, <1>4 DEF Revoke

\* A lowered permission is one the repository knows.
LEMMA DowngradeOK ==
  ASSUME AdaptersInv, NEW scope \in {"read", "write"}, Downgrade(scope)
  PROVE  AdaptersInv' /\ TellsTheTruth /\ Counted
  <1> DEFINE p == job.place
             what == PermissionOf(scope)
  <1>1. pc = "apply" /\ pc \in Running
    BY DEF Downgrade, Running
  <1>2. AdaptersTypeOK /\ WorldOK(world) /\ job \in Jobs /\ p \in Places
    BY <1>1, AdaptersType DEF AdaptersInv, JobOK, Jobs
  <1>3. what \in Grants[p] /\ p \notin gone
    BY <1>2, AdaptersAssumption DEF Downgrade, PermissionOf
  <1>4. PICK after \in Permitted(p, what) : Request(after, "lowered", "unknown")
    BY DEF Downgrade
  <1> HIDE DEF what
  <1>5. WorldOK(after) /\ \A q \in Places : q # p => after[q] = world[q]
    BY <1>2, <1>3, <1>4, GivenOK DEF Permitted
  <1>6. "lowered" \in Ended /\ "unknown" \in Ended /\ "lowered" # pc
    BY <1>1 DEF Ended
  <1>7. /\ WorldOK(world') /\ pc' \in {pc, "lowered", "unknown"}
        /\ job' \in Jobs /\ job'.place = job.place /\ job'.seen = job.seen
        /\ job'.pre = job.pre /\ CountsOwn /\ Counted /\ UNCHANGED gone
    BY <1>1, <1>2, <1>4, <1>5, <1>6, RequestOK
  <1>8. AdaptersInv'
    BY <1>1, <1>7, AfterRequest DEF Running, Ended
  <1> QED
    BY <1>1, <1>7, <1>8 DEF TellsTheTruth

\* A restore puts back what was seen, or says so only of a user who is gone.
LEMMA RestoreOK ==
  ASSUME AdaptersInv, Restore
  PROVE  AdaptersInv' /\ TellsTheTruth /\ Counted
  <1> DEFINE p == job.place
             kind == Kind[p]
             pre == job.pre
  <1>1. pc = "restore" /\ pc \in Running
    BY DEF Restore, Running
  <1>2. /\ AdaptersTypeOK /\ WorldOK(world) /\ job \in Jobs /\ p \in Places
        /\ job.seen.what \in Grants[p] \union {Empty} /\ pre.what = job.seen.what
    BY <1>1, AdaptersType DEF AdaptersInv, JobOK, Jobs
  <1>3. ASSUME Possible(p, pre),
               NEW after \in PutBack(p, pre),
               NEW done \in {"verify", "restored"}, done = "restored" => ~Verifies(kind),
               Request(after, done, "not restored")
        PROVE  AdaptersInv' /\ TellsTheTruth /\ Counted
    <2>1. pre.what \in Grants[p] /\ p \notin gone
      BY <1>2, <1>3 DEF Possible
    <2>2. /\ WorldOK(Given(p, pre.what)) /\ Given(p, pre.what)[p].what = pre.what
          /\ \A q \in Places : q # p => Given(p, pre.what)[q] = world[q]
      BY <1>2, <2>1, GivenOK
    <2>3. /\ WorldOK(after) /\ (done = "restored" => after = Given(p, pre.what))
          /\ \A q \in Places : q # p => after[q] = world[q]
      BY <1>2, <1>3, <2>2 DEF PutBack, Permitted, Verifies
    <2>4. /\ done \in Running \union Ended /\ "not restored" \in Ended
          /\ done # pc /\ done # "not restored"
      BY <1>1, <1>3 DEF Running, Ended
    <2>5. /\ WorldOK(world') /\ pc' \in {pc, done, "not restored"}
          /\ (pc' = done /\ done # "not restored") => world' = after
          /\ job' \in Jobs /\ job'.place = job.place /\ job'.seen = job.seen
          /\ job'.pre = job.pre /\ CountsOwn /\ Counted /\ UNCHANGED gone
      BY <1>1, <1>2, <1>3, <2>3, <2>4, RequestOK
    <2>6. pc' = "restored" => world'[p].what = pre.what
      BY <1>1, <1>3, <2>2, <2>3, <2>4, <2>5
    <2>7. AdaptersInv'
      BY <1>1, <1>2, <1>3, <2>5, <2>6, AfterRequest DEF Running, Ended
    <2> QED
      BY <1>1, <1>3, <2>5, <2>6, <2>7 DEF TellsTheTruth
  <1>4. ASSUME ~Possible(p, pre),
               NEW done \in {"restored", "not restored"},
               done = "restored" => p \in gone /\ kind \in Aws,
               Request(world, done, "not restored")
        PROVE  AdaptersInv' /\ TellsTheTruth /\ Counted
    <2>1. done \in Ended /\ "not restored" \in Ended /\ done # pc
      BY <1>1, <1>4 DEF Ended
    <2>2. /\ WorldOK(world') /\ pc' \in {pc, done, "not restored"}
          /\ job' \in Jobs /\ job'.place = job.place /\ job'.seen = job.seen
          /\ job'.pre = job.pre /\ CountsOwn /\ Counted /\ UNCHANGED gone
      BY <1>1, <1>2, <1>4, <2>1, RequestOK
    <2>3. pc' = "restored" => p \in gone /\ kind \in Aws
      BY <1>1, <1>4, <2>2
    <2>4. pc' = "restored" => touched[p] # job.since
      BY <1>1, <2>3 DEF AdaptersInv, SinceOK
    <2>5. AdaptersInv'
      BY <1>1, <1>4, <2>2, <2>4, AfterRequest DEF Running, Ended
    <2> QED
      BY <1>1, <1>4, <2>2, <2>3, <2>5 DEF TellsTheTruth
  <1>5. CASE Possible(p, pre)
    <2>1. PICK after \in PutBack(p, pre) :
            Request(after, IF Verifies(kind) THEN "verify" ELSE "restored", "not restored")
      BY <1>5 DEF Restore
    <2> QED
      BY <1>3, <1>5, <2>1
  <1>6. CASE ~Possible(p, pre)
    <2>1. Request(world, IF p \in gone /\ kind \in Aws THEN "restored" ELSE "not restored",
                  "not restored")
      BY <1>6 DEF Restore
    <2> QED
      BY <1>4, <1>6, <2>1
  <1> QED
    BY <1>5, <1>6

\* What is verified is there.
LEMMA VerifyOK ==
  ASSUME AdaptersInv, Verify
  PROVE  AdaptersInv' /\ TellsTheTruth /\ Counted
  <1> DEFINE p == job.place
             back == world[p].what = job.pre.what
             done == IF back THEN "restored" ELSE "not restored"
  <1>1. pc = "verify" /\ pc \in Running /\ Request(world, done, "not restored")
    BY DEF Verify, Running
  <1>2. /\ AdaptersTypeOK /\ WorldOK(world) /\ job \in Jobs /\ p \in Places
        /\ job.pre.what = job.seen.what
    BY <1>1, AdaptersType DEF AdaptersInv, JobOK, Jobs
  <1>3. done \in {"restored", "not restored"} /\ (done = "restored" => back)
    OBVIOUS
  <1> HIDE DEF done
  <1>4. done \in Ended /\ "not restored" \in Ended /\ done # pc
    BY <1>1, <1>3 DEF Ended
  <1>5. /\ WorldOK(world') /\ world' \in {world, world} /\ pc' \in {pc, done, "not restored"}
        /\ job' \in Jobs /\ job'.place = job.place /\ job'.seen = job.seen
        /\ job'.pre = job.pre /\ CountsOwn /\ Counted /\ UNCHANGED gone
    BY <1>1, <1>2, <1>4, RequestOK
  <1>6. pc' = "restored" => world'[p].what = job.pre.what
    BY <1>1, <1>3, <1>5
  <1>7. AdaptersInv'
    BY <1>1, <1>2, <1>3, <1>5, <1>6, AfterRequest DEF Running, Ended
  <1> QED
    BY <1>1, <1>3, <1>5, <1>6, <1>7 DEF TellsTheTruth

\* The steps that send no request.
LEMMA QuietOK ==
  ASSUME AdaptersInv, ReadDocument \/ DryRun \/ BeginRestore
  PROVE  AdaptersInv' /\ TellsTheTruth /\ Counted
  <1>1. /\ pc # "idle" /\ WorldOK(world) /\ touched \in [Places -> Nat] /\ job \in Jobs
        /\ job.place \in Places /\ job.seen.what \in Grants[job.place] \union {Empty}
    BY AdaptersType DEF AdaptersInv, JobOK, Jobs, ReadDocument, DryRun, BeginRestore, Running
  <1>2. UNCHANGED <<world, gone, touched>>
    BY DEF ReadDocument, DryRun, BeginRestore, worldVars
  <1>3. WorldOK(world)' /\ touched' \in [Places -> Nat]
    BY <1>1, <1>2 DEF WorldOK
  <1>4. ASSUME pc' \in Running \union Ended, pc' # "restored", pc' # "removed",
               job' \in Jobs, job'.place = job.place, job'.since = job.since,
               job'.seen.what \in Grants[job.place] \union {Empty},
               pc' \in {"restore", "verify"} => job'.pre.what = job'.seen.what
        PROVE  AdaptersInv' /\ TellsTheTruth /\ Counted
    <2>1. JobOK' /\ pc' # "idle"
      BY <1>4 DEF JobOK, Running, Ended
    <2>2. AdaptersTypeOK'
      BY <1>3, <2>1 DEF AdaptersTypeOK, WorldOK, JobOK, Held
    <2>3. SinceOK'
      BY <1>1, <1>2, <1>4, <2>1 DEF AdaptersInv, SinceOK
    <2> QED
      BY <1>1, <1>2, <1>4, <2>2, <2>3 DEF AdaptersInv, RestoredIsExact, TellsTheTruth, Counted
  <1>5. CASE ReadDocument
    <2>1. CASE pc' = "refused" /\ UNCHANGED job
      BY <1>1, <1>4, <2>1 DEF Ended
    <2>2. CASE /\ pc' = "dry run"
               /\ job' = [job EXCEPT !.seen.what =
                             IF Held(job.place) THEN world[job.place].what ELSE Empty]
      <3> DEFINE what == IF Held(job.place) THEN world[job.place].what ELSE Empty
                 seen == [job.seen EXCEPT !.what = what]
      <3>1. what \in Grants[job.place] \union {Empty} /\ what \in Things
        BY <1>1 DEF WorldOK, Held, Things
      <3> HIDE DEF what
      <3>2. seen \in [what : Things, id : Nat] /\ seen.what = what
        BY <1>1, <3>1 DEF Jobs
      <3>3. job' = [job EXCEPT !.seen = seen]
        BY <2>2 DEF what
      <3> HIDE DEF seen
      <3>4. /\ job' \in Jobs /\ job'.place = job.place /\ job'.since = job.since
            /\ job'.seen.what \in Grants[job.place] \union {Empty}
        BY <1>1, <3>1, <3>2, <3>3 DEF Jobs
      <3> QED
        BY <1>4, <2>2, <3>4 DEF Running
    <2> QED
      BY <1>5, <2>1, <2>2 DEF ReadDocument
  <1>6. PreImage \in [form : {"adapter", "entitlement"}, what : Things, id : Nat]
        /\ PreImage.what = job.seen.what
    BY <1>1 DEF PreImage, Jobs
  <1>7. CASE DryRun
    <2>1. CASE pc' = "refused" /\ UNCHANGED job
      BY <1>1, <1>4, <2>1 DEF Ended
    <2>2. CASE pc' = "apply" /\ job' = [job EXCEPT !.pre = PreImage]
      <3>1. /\ job' \in Jobs /\ job'.place = job.place /\ job'.since = job.since
            /\ job'.seen = job.seen
        BY <1>1, <1>6, <2>2 DEF Jobs
      <3> QED
        BY <1>1, <1>4, <2>2, <3>1 DEF Running
    <2> QED
      BY <1>7, <2>1, <2>2 DEF DryRun
  <1>8. CASE BeginRestore
    <2>1. PICK pre \in {PreImage, Wire} :
             /\ job' = [job EXCEPT !.pre = pre, !.asked = FALSE]
             /\ pc' = IF Accepts(Kind[job.place], pre) THEN "restore" ELSE "not restored"
      BY <1>8 DEF BeginRestore
    <2>2. /\ pre \in [form : {"adapter", "entitlement"}, what : Things, id : Nat]
          /\ pre.what = job.seen.what
      BY <1>6 DEF Wire
    <2>3. /\ job' \in Jobs /\ job'.place = job.place /\ job'.since = job.since
          /\ job'.seen = job.seen /\ job'.pre = pre
      BY <1>1, <2>1, <2>2 DEF Jobs
    <2>4. pc' \in {"restore", "not restored"}
      BY <2>1
    <2> QED
      BY <1>1, <1>4, <2>2, <2>3, <2>4 DEF Running, Ended
  <1> QED
    BY <1>5, <1>7, <1>8

\* Listing begins with what is there.
LEMMA ListOK ==
  ASSUME AdaptersInv, NEW p \in Places, List(p)
  PROVE  AdaptersInv' /\ TellsTheTruth /\ Counted
  <1>1. WorldOK(world) /\ touched \in [Places -> Nat] /\ MaxRetries \in Nat
    BY AdaptersType, AdaptersAssumption DEF AdaptersInv
  <1>2. /\ Held(p) /\ UNCHANGED <<world, gone, touched>> /\ pc' \in {"document", "dry run"}
        /\ job' = [NoJob EXCEPT !.place = p, !.seen = world[p], !.since = touched[p]]
    BY DEF List, Listable, worldVars
  <1>3. job' = [place |-> p, seen |-> world[p], since |-> touched[p], pre |-> None,
                tries |-> MaxRetries, asked |-> FALSE]
    BY <1>2 DEF NoJob
  <1>a. touched[p] \in Nat /\ world[p] \in [what : Things, id : Nat]
        /\ world[p].what \in Grants[p] /\ world[p].what # Absent
    BY <1>1, <1>2 DEF WorldOK, Held
  <1>4. /\ job' \in Jobs /\ job'.place = p /\ job'.since = touched[p]
        /\ job'.seen.what \in Grants[p]
    BY <1>1, <1>a, <1>3 DEF Jobs
  <1>5. p \notin gone
    BY <1>1, <1>a DEF WorldOK
  <1>6. JobOK' /\ pc' # "idle"
    BY <1>2, <1>4 DEF JobOK, Running
  <1>7. AdaptersTypeOK'
    BY <1>1, <1>2, <1>6 DEF AdaptersTypeOK, WorldOK, JobOK, Held
  <1>8. SinceOK'
    <2>1. touched' = touched /\ gone' = gone
      BY <1>2
    <2>2. touched'[job'.place] = touched[p] /\ job'.place \notin gone' /\ job'.since <= touched[p]
      BY <1>a, <1>4, <1>5, <2>1
    <2> QED
      BY <2>2 DEF SinceOK
  <1>9. Counted
    <2>1. touched' = touched /\ world' = world /\ \A q \in Places : touched[q] \in Nat
      BY <1>1, <1>2
    <2> QED
      BY <2>1 DEF Counted
  <1> QED
    BY <1>2, <1>7, <1>8, <1>9 DEF AdaptersInv, RestoredIsExact, TellsTheTruth

\* Every step of a remediation keeps the invariant and tells the truth.
LEMMA RemediationOK ==
  ASSUME AdaptersInv, Remediation
  PROVE  AdaptersInv' /\ TellsTheTruth /\ Counted
  BY RevokeOK, DowngradeOK, RestoreOK, VerifyOK, QuietOK, ListOK DEF Remediation, AdapterStep

\* Whoever changes the world beside the remediation says so.
LEMMA OthersOK ==
  ASSUME AdaptersInv, UNCHANGED adapterVars, WorldOK(world)', touched' \in [Places -> Nat],
         \A p \in Places : /\ touched[p] <= touched'[p]
                           /\ touched[p] = touched'[p] =>
                                 world'[p] = world[p] /\ (p \in gone' => p \in gone)
  PROVE  AdaptersInv' /\ TellsTheTruth /\ Counted
  <1>1. JobOK /\ touched \in [Places -> Nat] /\ UNCHANGED <<pc, job>>
    BY AdaptersType DEF AdaptersInv, adapterVars
  <1>2. AdaptersTypeOK'
    BY <1>1 DEF AdaptersTypeOK, WorldOK, JobOK, Held
  <1>3. pc # "idle" => job.place \in Places /\ job.since \in Nat
    BY <1>1 DEF JobOK, Jobs
  <1>4. SinceOK'
    <2> SUFFICES ASSUME pc # "idle"
                 PROVE  /\ job.since <= touched'[job.place]
                        /\ touched'[job.place] = job.since => job.place \notin gone'
      BY <1>1 DEF SinceOK
    <2>1. job.since <= touched[job.place] /\ touched[job.place] <= touched'[job.place]
      BY <1>3 DEF AdaptersInv, SinceOK
    <2>2. touched'[job.place] = job.since => touched[job.place] = job.since
      BY <1>1, <1>3, <2>1
    <2> QED
      BY <1>1, <1>3, <2>1, <2>2 DEF AdaptersInv, SinceOK
  <1>5. RestoredIsExact'
    <2> SUFFICES ASSUME pc = "restored", touched'[job.place] = job.since
                 PROVE  world'[job.place].what = job.seen.what
      BY <1>1 DEF RestoredIsExact
    <2>1. job.since <= touched[job.place] /\ touched[job.place] <= touched'[job.place]
      BY <1>3 DEF AdaptersInv, SinceOK
    <2>2. touched[job.place] = job.since
      BY <1>1, <1>3, <2>1
    <2> QED
      BY <1>3, <2>2 DEF AdaptersInv, RestoredIsExact
  <1> QED
    BY <1>1, <1>2, <1>4, <1>5 DEF AdaptersInv, TellsTheTruth, Counted

\* So do all others.
LEMMA TouchOK ==
  ASSUME AdaptersInv, NEW p \in Places, Touch(p)
  PROVE  AdaptersInv' /\ TellsTheTruth /\ Counted
  <1>1. WorldOK(world) /\ touched \in [Places -> Nat]
    BY AdaptersType DEF AdaptersInv
  <1>2. UNCHANGED adapterVars /\ touched' = [touched EXCEPT ![p] = @ + 1]
    BY DEF Touch
  <1>3. /\ WorldOK(world)' /\ \A q \in Places : q # p => world'[q] = world[q]
        /\ \A q \in Places : q # p => (q \in gone' => q \in gone)
    <2>1. CASE p \notin gone /\ (\E what \in Grants[p] \ {world[p].what} : world' = Given(p, what))
               /\ UNCHANGED gone
      <3>1. PICK what \in Grants[p] : world' = Given(p, what)
        BY <2>1
      <3> QED
        BY <1>1, <2>1, <3>1, GivenOK DEF WorldOK
    <2>2. CASE world' = Taken(p) /\ gone' \in {gone, gone \union {p}}
      <3>1. /\ WorldOK(world') /\ world'[p].what = Absent
            /\ \A q \in Places : q # p => world'[q] = world[q]
        BY <1>1, <2>2, TakenOK
      <3> QED
        BY <2>2, <3>1 DEF WorldOK
    <2> QED
      BY <2>1, <2>2 DEF Touch
  <1> QED
    BY <1>1, <1>2, <1>3, OthersOK

-----------------------------------------------------------------------------
(* The agent. *)

\* A preview of an onboarding names the organization it was made for.
PreviewsNameOrg == \A v \in previewed : v.plan.op = "onboard" => v.plan.org = v.org

\* The inductive invariant of the tools.
OnboardingInv == OnboardingTypeOK /\ PreviewsNameOrg /\ GrantsWerePreviewed

\* Where it is safe to grant what a plan wants.
Fit(plan) == {p \in Places : Wanted(plan, p) \in Grants[p]}

\* A call that changed only how far it is keeps the invariant.
LEMMA CallGoesOn ==
  ASSUME OnboardingInv, call.at = "asking", UNCHANGED <<org, previewed>>,
         call' \in Calls, call'.plan = call.plan, call'.org = call.org,
         call'.at = "asking" => call'.todo \in {call.todo, Tail(call.todo)} \ {<<>>}
  PROVE  OnboardingInv'
  <1>1. Seen(call.plan)'
    BY DEF OnboardingInv, OnboardingTypeOK, Seen
  <1>2. ASSUME call'.at = "asking", call.plan.op = "onboard"
        PROVE  call'.todo \in Seq(Fit(call.plan))
    <2>1. call.todo \in Seq(Fit(call.plan)) /\ call.todo # <<>>
      BY <1>2 DEF OnboardingInv, OnboardingTypeOK, Fit
    <2> QED
      BY <1>2, <2>1
  <1>3. OnboardingTypeOK'
    BY <1>1, <1>2 DEF OnboardingInv, OnboardingTypeOK, Fit
  <1>4. PreviewsNameOrg' /\ GrantsWerePreviewed'
    BY DEF OnboardingInv, PreviewsNameOrg, GrantsWerePreviewed
  <1> QED
    BY <1>3, <1>4 DEF OnboardingInv

\* One request of a call.
LEMMA AskOK ==
  ASSUME AdaptersInv, OnboardingInv, call.at = "asking", UNCHANGED adapterVars,
         NEW after, WorldOK(after), Ask(after),
         \A q \in Places : q # Head(call.todo) => after[q] = world[q]
  PROVE  AdaptersInv' /\ TellsTheTruth /\ Counted /\ OnboardingInv'
  <1> DEFINE p == Head(call.todo)
  <1>1. /\ call \in Calls /\ call.todo \in Seq(Places) /\ call.todo # <<>>
        /\ WorldOK(world) /\ touched \in [Places -> Nat]
    BY AdaptersType DEF AdaptersInv, OnboardingInv, OnboardingTypeOK, Calls
  <1>2. p \in Places /\ Tail(call.todo) \in Seq(Places)
        /\ (Len(call.todo) # 1 => Tail(call.todo) # <<>>)
    <2>1. /\ Head(call.todo) \in Places /\ Tail(call.todo) \in Seq(Places)
          /\ Len(Tail(call.todo)) = Len(call.todo) - 1 /\ Len(call.todo) \in Nat
      BY <1>1, HeadTailProperties, LenProperties
    <2>2. Tail(call.todo) = <<>> => Len(Tail(call.todo)) = 0
      BY EmptySeq
    <2> QED
      BY <2>1, <2>2
  <1>3. PICK answer \in Answers :
          /\ Sent(after, answer)
          /\ touched' = [touched EXCEPT ![p] = @ + Changes]
          /\ call' = CASE After(answer) = "again" ->
                             [call EXCEPT !.tries = IF @ > 0 THEN @ - 1 ELSE MaxRetries]
                      [] After(answer) = "failed" -> [call EXCEPT !.at = "failed"]
                      [] OTHER -> [call EXCEPT !.at = After(answer), !.todo = Tail(@),
                                               !.tries = MaxRetries,
                                               !.since[p] = touched'[p]]
          /\ UNCHANGED <<gone, left, org, previewed>>
    BY DEF Ask
  <1>4. world' \in {world, after} /\ UNCHANGED gone
    BY <1>3 DEF Sent
  <1>5. touched' \in [Places -> Nat] /\ touched'[p] \in Nat
    BY <1>1, <1>2, <1>3 DEF Changes
  <1>6. AdaptersInv' /\ TellsTheTruth /\ Counted
    <2>1. WorldOK(world)'
      BY <1>1, <1>4 DEF WorldOK
    <2>2. ASSUME NEW q \in Places
          PROVE  /\ touched[q] <= touched'[q]
                 /\ touched[q] = touched'[q] => world'[q] = world[q]
      <3>1. CASE q # p
        BY <1>1, <1>2, <1>3, <1>4, <3>1
      <3>2. CASE q = p
        BY <1>1, <1>2, <1>3, <3>2 DEF Changes
      <3> QED
        BY <3>1, <3>2
    <2> QED
      BY <1>4, <1>5, <2>1, <2>2, OthersOK
  <1>7. MaxRetries \in Nat
    BY AdaptersAssumption
  <1>8. After(answer) \in {"again", "failed", "applied", "asking"}
        /\ (After(answer) = "asking" => Len(call.todo) # 1)
    BY DEF After, AfterAnswer
  <1>9. CASE After(answer) = "again"
    <2> DEFINE tries == IF call.tries > 0 THEN call.tries - 1 ELSE MaxRetries
    <2>1. tries \in Nat
      BY <1>1, <1>7 DEF Calls
    <2>2. call' = [call EXCEPT !.tries = tries]
      BY <1>3, <1>9
    <2> HIDE DEF tries
    <2>3. call' \in Calls /\ call'.plan = call.plan /\ call'.org = call.org
          /\ call'.todo = call.todo
      BY <1>1, <2>1, <2>2 DEF Calls
    <2> QED
      BY <1>1, <1>3, <1>6, <2>3, CallGoesOn
  <1>10. CASE After(answer) = "failed"
    <2>1. call' = [call EXCEPT !.at = "failed"]
      BY <1>3, <1>10
    <2>2. call' \in Calls /\ call'.plan = call.plan /\ call'.org = call.org
          /\ call'.at # "asking"
      BY <1>1, <2>1 DEF Calls
    <2> QED
      BY <1>1, <1>3, <1>6, <2>2, CallGoesOn
  <1>11. CASE After(answer) \in {"applied", "asking"}
    <2> DEFINE since == [call.since EXCEPT ![p] = touched'[p]]
    <2>1. since \in [Places -> Nat]
      BY <1>1, <1>2, <1>5 DEF Calls
    <2>2. call' = [call EXCEPT !.at = After(answer), !.todo = Tail(call.todo),
                               !.tries = MaxRetries, !.since = since]
      BY <1>3, <1>11
    <2> HIDE DEF since
    <2>3. call' \in Calls /\ call'.plan = call.plan /\ call'.org = call.org
          /\ call'.at = After(answer) /\ call'.todo = Tail(call.todo)
      BY <1>1, <1>2, <1>7, <1>11, <2>1, <2>2 DEF Calls
    <2> QED
      BY <1>1, <1>2, <1>3, <1>6, <1>8, <2>3, CallGoesOn
  <1> QED
    BY <1>8, <1>9, <1>10, <1>11

\* Nothing happens to a remediation while nothing changes in the world.
LEMMA RestOK ==
  ASSUME AdaptersInv, UNCHANGED <<worldVars, adapterVars>>
  PROVE  AdaptersInv' /\ TellsTheTruth /\ Counted
  <1>1. UNCHANGED <<world, gone, touched, pc, job>>
    BY DEF worldVars, adapterVars
  <1>2. AdaptersTypeOK'
    BY <1>1 DEF AdaptersInv, AdaptersTypeOK, Held
  <1>3. touched \in [Places -> Nat]
    BY AdaptersType DEF AdaptersInv
  <1> QED
    BY <1>1, <1>2, <1>3 DEF AdaptersInv, SinceOK, RestoredIsExact, TellsTheTruth, Counted

\* A grant is one the place allows.
LEMMA GrantOK ==
  ASSUME AdaptersInv, OnboardingInv, Grant, UNCHANGED adapterVars
  PROVE  AdaptersInv' /\ TellsTheTruth /\ Counted /\ OnboardingInv'
  <1> DEFINE p == Head(call.todo)
  <1>1. call.at = "asking" /\ call.plan.op = "onboard"
    BY DEF Grant
  <1>2. call.todo \in Seq(Fit(call.plan)) /\ call.todo # <<>> /\ call \in Calls
    BY <1>1 DEF OnboardingInv, OnboardingTypeOK, Fit
  <1>3. p \in Fit(call.plan)
    BY <1>2, HeadTailProperties
  <1>4. p \in Places /\ Wanted(call.plan, p) \in Grants[p]
    BY <1>3 DEF Fit
  <1>5. CASE p \in gone
    <2>1. call' = [call EXCEPT !.at = "failed"] /\ UNCHANGED <<worldVars, org, previewed>>
      BY <1>5 DEF Grant
    <2>2. call' \in Calls /\ call'.plan = call.plan /\ call'.org = call.org
          /\ call'.at # "asking"
      BY <1>2, <2>1 DEF Calls
    <2> QED
      BY <1>1, <2>1, <2>2, RestOK, CallGoesOn
  <1>6. CASE p \notin gone
    <2> DEFINE after == Given(p, Wanted(call.plan, p))
    <2>1. WorldOK(world)
      BY AdaptersType DEF AdaptersInv
    <2>2. WorldOK(after) /\ \A q \in Places : q # p => after[q] = world[q]
      BY <1>4, <1>6, <2>1, GivenOK
    <2>3. Ask(after)
      BY <1>6 DEF Grant
    <2> HIDE DEF after
    <2> QED
      BY <1>1, <2>2, <2>3, AskOK
  <1> QED
    BY <1>5, <1>6

\* Removing access keeps the invariant.
LEMMA RemoveAccessOK ==
  ASSUME AdaptersInv, OnboardingInv, RemoveAccess, UNCHANGED adapterVars
  PROVE  AdaptersInv' /\ TellsTheTruth /\ Counted /\ OnboardingInv'
  <1> DEFINE p == Head(call.todo)
             after == Taken(p)
  <1>1. call.at = "asking" /\ Ask(after)
    BY DEF RemoveAccess
  <1>2. call.todo \in Seq(Places) /\ call.todo # <<>>
    BY <1>1 DEF OnboardingInv, OnboardingTypeOK, Calls
  <1>3. p \in Places
    BY <1>2, HeadTailProperties
  <1>4. WorldOK(after) /\ \A q \in Places : q # p => after[q] = world[q]
    BY <1>3, AdaptersType, TakenOK DEF AdaptersInv
  <1> HIDE DEF after
  <1> QED
    BY <1>1, <1>4, AskOK

\* A preview is remembered with the organization it was made for.
LEMMA PreviewOK ==
  ASSUME OnboardingInv, NEW plan \in Plans, plan.op = "onboard" => plan.org = org,
         Preview(plan)
  PROVE  OnboardingInv'
  <1>1. /\ org \in Orgs /\ previewed \subseteq [plan : Plans, org : Orgs]
        /\ previewed' = previewed \union {[plan |-> plan, org |-> org]}
        /\ UNCHANGED <<org, call>>
    BY DEF OnboardingInv, OnboardingTypeOK, Preview
  <1> DEFINE preview == [plan |-> plan, org |-> org]
  <1>2. /\ preview \in [plan : Plans, org : Orgs]
        /\ preview.plan.op = "onboard" => preview.plan.org = preview.org
    BY <1>1
  <1> HIDE DEF preview
  <1>3. previewed' = previewed \union {preview}
    BY <1>1 DEF preview
  <1>4. OnboardingTypeOK'
    BY <1>1, <1>2, <1>3 DEF OnboardingInv, OnboardingTypeOK, Seen
  <1>5. PreviewsNameOrg' /\ GrantsWerePreviewed'
    BY <1>1, <1>2, <1>3 DEF OnboardingInv, PreviewsNameOrg, GrantsWerePreviewed
  <1> QED
    BY <1>4, <1>5 DEF OnboardingInv

\* A call begins with a plan that was previewed, and can grant what it wants.
LEMMA BeginOK ==
  ASSUME OnboardingInv, NEW plan \in Plans, plan.op = "onboard" => plan.org = org,
         NEW todo \in Seq(Places), todo # <<>>,
         plan.op = "onboard" => todo \in Seq(Fit(plan)),
         Begin(plan, todo)
  PROVE  OnboardingInv'
  <1>1. /\ org \in Orgs /\ previewed \subseteq [plan : Plans, org : Orgs]
        /\ Seen(plan) /\ UNCHANGED <<org, previewed>>
    BY DEF OnboardingInv, OnboardingTypeOK, Begin
  <1>2. MaxRetries \in Nat
    BY AdaptersAssumption
  <1>3. call' = [at |-> "asking", plan |-> plan, org |-> org, todo |-> todo,
                 tries |-> MaxRetries, since |-> [p \in Places |-> 0]]
    BY DEF Begin, NoCall
  <1>4. /\ call' \in Calls /\ call'.at = "asking" /\ call'.plan = plan
        /\ call'.org = org /\ call'.todo = todo
    BY <1>1, <1>2, <1>3 DEF Calls
  <1>5. OnboardingTypeOK'
    BY <1>1, <1>4 DEF OnboardingTypeOK, Seen, Fit
  <1>6. PreviewsNameOrg'
    BY <1>1 DEF OnboardingInv, PreviewsNameOrg
  <1>7. GrantsWerePreviewed'
    <2> SUFFICES ASSUME plan.op = "onboard"
                 PROVE  [plan |-> plan, org |-> org] \in previewed
      BY <1>1, <1>4 DEF GrantsWerePreviewed
    <2>1. PICK preview \in previewed : preview.plan = plan
      BY <1>1 DEF Seen
    <2>2. preview.org = org /\ preview \in [plan : Plans, org : Orgs]
      BY <1>1, <2>1 DEF OnboardingInv, PreviewsNameOrg
    <2>3. preview = [plan |-> plan, org |-> org]
      BY <2>1, <2>2
    <2> QED
      BY <2>1, <2>3
  <1> QED
    BY <1>5, <1>6, <1>7 DEF OnboardingInv

\* A list of repositories in which a permission may be granted can be granted.
LEMMA ListFits ==
  ASSUME NEW list \in RepositoryLists, NEW plan \in Plans, plan.op = "onboard",
         \A p \in Range(list) : plan.permission \in Grants[p]
  PROVE  list \in Seq(Fit(plan))
  <1>1. list \in Seq(Places) /\ \A p \in Range(list) : Kind[p] = "collaborator"
    BY OnboardingAssumption
  <1>2. Len(list) \in Nat /\ list \in [1..Len(list) -> Places]
    BY <1>1, LenProperties
  <1>3. ASSUME NEW n \in 1..Len(list)
        PROVE  list[n] \in Fit(plan)
    <2>1. list[n] \in Range(list) /\ list[n] \in Places
      BY <1>2 DEF Range
    <2> QED
      BY <1>1, <2>1 DEF Fit, Wanted
  <1>4. list \in [1..Len(list) -> Fit(plan)]
    BY <1>2, <1>3
  <1> QED
    BY <1>2, <1>4, SeqDef

\* Onboarding grants a membership, repositories and a team, all of which fit.
LEMMA OnboardUserOK ==
  ASSUME OnboardingInv, NEW repos \in RepositoryLists, NEW permission \in Permissions,
         NEW team \in BOOLEAN, \A p \in Range(repos) : permission \in Grants[p],
         OnboardUser(repos, permission, team)
  PROVE  OnboardingInv'
  <1> DEFINE plan == OnboardPlan(org, repos, permission, team)
             todo == Steps(org, repos, team)
             first == <<Membership[org]>>
             last == IF team THEN <<Team[org]>> ELSE <<>>
  <1>1. org \in Orgs
    BY DEF OnboardingInv, OnboardingTypeOK
  <1>2. repos \in Seq(Places)
    BY OnboardingAssumption
  <1>3. Range(repos) \subseteq Places
    BY <1>2, LenProperties DEF Range
  <1>4. plan \in Plans /\ plan.op = "onboard" /\ plan.org = org /\ plan.permission = permission
    BY <1>1, <1>3 DEF OnboardPlan, Plans
  <1> HIDE DEF plan
  <1>5. repos \in Seq(Fit(plan))
    BY <1>4, ListFits
  <1>6. Membership[org] \in Fit(plan) /\ Team[org] \in Fit(plan)
    BY <1>1, OnboardingAssumption DEF Fit, Wanted
  <1>7. first \in Seq(Fit(plan)) /\ last \in Seq(Fit(plan))
    BY <1>6
  <1> HIDE DEF last
  <1>8. first \o repos \in Seq(Fit(plan))
    BY <1>5, <1>7, ConcatProperties DEF first
  <1>9. todo = (first \o repos) \o last
    BY DEF Steps, last
  <1>10. todo \in Seq(Fit(plan))
    BY <1>7, <1>8, <1>9, ConcatProperties
  <1>11. todo # <<>>
    <2>1. Len(todo) = Len(first) + Len(repos) + Len(last) /\ Len(first) = 1
      BY <1>5, <1>7, <1>8, <1>9, ConcatProperties
    <2>2. Len(repos) \in Nat /\ Len(last) \in Nat
      BY <1>5, <1>7, LenProperties
    <2>3. Len(todo) # 0
      BY <2>1, <2>2
    <2> QED
      BY <2>3
  <1>12. todo \in Seq(Places)
    BY <1>10, SeqMonotonic DEF Fit
  <1> HIDE DEF todo
  <1>13. Preview(plan) \/ Begin(plan, todo)
    BY DEF OnboardUser, plan, todo
  <1> QED
    BY <1>4, <1>10, <1>11, <1>12, <1>13, PreviewOK, BeginOK

\* A removal takes one thing away.
LEMMA RemovalOK ==
  ASSUME OnboardingInv, NEW what \in Places \union {"team", "membership"}, NEW p \in Places,
         Preview(RemovalPlan(what)) \/ Begin(RemovalPlan(what), <<p>>)
  PROVE  OnboardingInv'
  <1> DEFINE plan == RemovalPlan(what)
  <1>1. plan \in Plans /\ plan.op # "onboard"
    BY DEF RemovalPlan, Plans
  <1>2. <<p>> \in Seq(Places) /\ <<p>> # <<>>
    OBVIOUS
  <1> HIDE DEF plan
  <1>3. Preview(plan) \/ Begin(plan, <<p>>)
    BY DEF plan
  <1> QED
    BY <1>1, <1>2, <1>3, PreviewOK, BeginOK

\* Connecting another organization leaves previews and calls alone.
LEMMA ConnectOK ==
  ASSUME OnboardingInv, NEW o \in Orgs, Connect(o)
  PROVE  OnboardingInv'
  <1>1. org' = o /\ UNCHANGED <<previewed, call>>
    BY DEF Connect
  <1> QED
    BY <1>1 DEF OnboardingInv, OnboardingTypeOK, Seen, PreviewsNameOrg, GrantsWerePreviewed

\* The tools keep the invariants.
LEMMA OnboardingOK ==
  ASSUME AdaptersInv, OnboardingInv, Onboarding
  PROVE  AdaptersInv' /\ TellsTheTruth /\ Counted /\ OnboardingInv'
  <1>1. CASE OnboardingStep
    BY <1>1, GrantOK, RemoveAccessOK DEF OnboardingStep
  <1>2. CASE Tools
    <2>1. AdaptersInv' /\ TellsTheTruth /\ Counted
      BY <1>2, RestOK DEF Tools
    <2>2. ASSUME NEW p \in Repositories
          PROVE  p \in Places
      <3>1. PICK list \in RepositoryLists : p \in Range(list)
        BY <2>2 DEF Repositories
      <3>2. list \in Seq(Places)
        BY OnboardingAssumption
      <3> QED
        BY <3>1, <3>2, LenProperties DEF Range
    <2>3. org \in Orgs
      BY DEF OnboardingInv, OnboardingTypeOK
    <2>4. Team[org] \in Places /\ Membership[org] \in Places
      BY <2>3, OnboardingAssumption
    <2>5. CASE \E p \in Repositories : RemoveRepositoryAccess(p)
      BY <2>1, <2>2, <2>5, RemovalOK DEF RemoveRepositoryAccess
    <2>6. CASE RemoveTeamAccess
      BY <2>1, <2>4, <2>6, RemovalOK DEF RemoveTeamAccess
    <2>7. CASE RemoveOrganizationMember
      BY <2>1, <2>4, <2>7, RemovalOK DEF RemoveOrganizationMember
    <2>8. OnboardingInv'
      BY <1>2, <2>5, <2>6, <2>7, OnboardUserOK, ConnectOK DEF Tools
    <2> QED
      BY <2>1, <2>8
  <1> QED
    BY <1>1, <1>2 DEF Onboarding

-----------------------------------------------------------------------------
(* A complete call. *)

\* What the plan of a call lists.
Listed(c) ==
    {Membership[c.org]} \union c.plan.repos \union (IF c.plan.team THEN {Team[c.org]} ELSE {})

\* What a call granted is there, unless somebody changed it since.
Stands(c, p) ==
    /\ c.since[p] <= touched[p]
    /\ touched[p] = c.since[p] => world[p].what = Wanted(c.plan, p)

\* The strengthening of AppliedIsComplete: what is not left to do stands.
CompleteInv ==
    (call.at \in {"asking", "applied"} /\ call.plan.op = "onboard") =>
        /\ \A p \in Listed(call) : p \in Range(call.todo) \/ Stands(call, p)
        /\ call.at = "applied" => call.todo = <<>>

\* A call that onboards knows its organization, and lists places.
LEMMA ListedOK ==
  ASSUME OnboardingInv, call.at # "idle", call.plan.op = "onboard"
  PROVE  Listed(call) \subseteq Places /\ call.since \in [Places -> Nat]
  <1> DEFINE preview == [plan |-> call.plan, org |-> call.org]
  <1>1. preview \in [plan : Plans, org : Orgs]
    BY DEF OnboardingInv, OnboardingTypeOK, GrantsWerePreviewed
  <1>2. call.plan \in Plans /\ call.org \in Orgs
    BY <1>1
  <1>3. call.plan.repos \subseteq Places
    BY <1>2 DEF Plans
  <1>4. Membership[call.org] \in Places /\ Team[call.org] \in Places
    BY <1>2, OnboardingAssumption
  <1>5. call.since \in [Places -> Nat]
    BY DEF OnboardingInv, OnboardingTypeOK, Calls
  <1> QED
    BY <1>3, <1>4, <1>5 DEF Listed

\* What stands keeps standing, since changes are counted.
LEMMA StandsStill ==
  ASSUME Counted, touched \in [Places -> Nat], touched' \in [Places -> Nat], NEW p \in Places,
         call.since[p] \in Nat, call'.since[p] = call.since[p], call'.plan = call.plan,
         Stands(call, p)
  PROVE  Stands(call, p)'
  <1>1. call.since[p] <= touched[p] /\ touched[p] <= touched'[p]
    BY DEF Stands, Counted
  <1>2. touched[p] \in Nat /\ touched'[p] \in Nat
    OBVIOUS
  <1>3. touched'[p] = call.since[p] => touched[p] = call.since[p] /\ touched[p] = touched'[p]
    BY <1>1, <1>2
  <1>4. Wanted(call'.plan, p) = Wanted(call.plan, p)
    BY DEF Wanted
  <1> QED
    BY <1>1, <1>2, <1>3, <1>4 DEF Stands, Counted, Wanted

\* Whatever the others do, a call is no less complete.
LEMMA CompleteRests ==
  ASSUME AdaptersInv, AdaptersInv', OnboardingInv, CompleteInv, Counted, UNCHANGED call
  PROVE  CompleteInv'
  <1>1. touched \in [Places -> Nat] /\ touched' \in [Places -> Nat]
    BY DEF AdaptersInv, AdaptersTypeOK
  <1> SUFFICES ASSUME call.at \in {"asking", "applied"}, call.plan.op = "onboard",
                      NEW p \in Listed(call)
               PROVE  p \in Range(call.todo) \/ Stands(call, p)'
    BY DEF CompleteInv, Listed
  <1>2. p \in Places /\ call.since[p] \in Nat
    BY ListedOK
  <1> QED
    BY <1>1, <1>2, StandsStill DEF CompleteInv

\* The places in a sequence are its head and those in its tail.
LEMMA RangeOfTail ==
  ASSUME NEW S, NEW s \in Seq(S), s # <<>>, NEW x \in Range(s)
  PROVE  x = Head(s) \/ x \in Range(Tail(s))
  <1>1. PICK i \in 1..Len(s) : x = s[i]
    BY LenProperties DEF Range
  <1>2. /\ Head(s) = s[1] /\ Tail(s) \in Seq(S)
        /\ \A j \in 1..Len(Tail(s)) : Tail(s)[j] = s[j + 1]
        /\ Len(Tail(s)) = Len(s) - 1
    BY HeadTailProperties
  <1>3. Len(s) \in Nat /\ DOMAIN Tail(s) = 1..Len(Tail(s))
    BY <1>2, LenProperties
  <1>4. CASE i # 1
    <2>1. i - 1 \in 1..Len(Tail(s)) /\ s[(i - 1) + 1] = x
      BY <1>1, <1>2, <1>3, <1>4
    <2> QED
      BY <1>2, <1>3, <2>1 DEF Range
  <1> QED
    BY <1>1, <1>2, <1>4

\* What an answered request grants stands.
LEMMA CompleteAsks ==
  ASSUME AdaptersInv, AdaptersInv', OnboardingInv, CompleteInv, Counted,
         call.at = "asking", call.plan.op = "onboard", NEW after, Ask(after),
         after[Head(call.todo)].what = Wanted(call.plan, Head(call.todo))
  PROVE  CompleteInv'
  <1>1. /\ call \in Calls /\ call.todo \in Seq(Places) /\ call.todo # <<>>
        /\ touched \in [Places -> Nat] /\ touched' \in [Places -> Nat]
    BY DEF AdaptersInv, AdaptersTypeOK, OnboardingInv, OnboardingTypeOK, Calls
  <1>0. PICK p \in Places : p = Head(call.todo)
    BY <1>1, HeadTailProperties
  <1>2. Listed(call) \subseteq Places /\ call.since \in [Places -> Nat]
    BY ListedOK
  <1>3. PICK answer \in Answers :
          /\ Sent(after, answer)
          /\ call' = CASE After(answer) = "again" ->
                             [call EXCEPT !.tries = IF @ > 0 THEN @ - 1 ELSE MaxRetries]
                      [] After(answer) = "failed" -> [call EXCEPT !.at = "failed"]
                      [] OTHER -> [call EXCEPT !.at = After(answer), !.todo = Tail(@),
                                               !.tries = MaxRetries,
                                               !.since[p] = touched'[p]]
    BY <1>0 DEF Ask
  <1>4. After(answer) \in {"again", "failed", "applied", "asking"}
        /\ (After(answer) \in {"applied", "asking"} => answer = "answered")
        /\ (After(answer) = "applied" => Len(call.todo) = 1)
    BY DEF After, AfterAnswer
  <1>5. CASE After(answer) = "again"
    <2> DEFINE tries == IF call.tries > 0 THEN call.tries - 1 ELSE MaxRetries
    <2>1. call' = [call EXCEPT !.tries = tries]
      BY <1>3, <1>5
    <2> HIDE DEF tries
    <2>2. /\ call'.at = call.at /\ call'.plan = call.plan /\ call'.org = call.org
          /\ call'.todo = call.todo /\ call'.since = call.since
      BY <1>1, <2>1 DEF Calls
    <2>3. \A q \in Listed(call) : q \in Range(call.todo) \/ Stands(call, q)'
      BY <1>1, <1>2, <2>2, StandsStill DEF CompleteInv
    <2> QED
      BY <2>2, <2>3 DEF CompleteInv, Listed
  <1>6. CASE After(answer) = "failed"
    <2>1. call'.at = "failed"
      BY <1>1, <1>3, <1>6 DEF Calls
    <2> QED
      BY <2>1 DEF CompleteInv
  <1>7. CASE After(answer) \in {"applied", "asking"}
    <2> DEFINE since == [call.since EXCEPT ![p] = touched'[p]]
    <2>1. call' = [call EXCEPT !.at = After(answer), !.todo = Tail(call.todo),
                               !.tries = MaxRetries, !.since = since]
      BY <1>3, <1>7
    <2>2. since[p] = touched'[p] /\ \A q \in Places : q # p => since[q] = call.since[q]
      BY <1>2
    <2> HIDE DEF since
    <2>3. /\ call'.at = After(answer) /\ call'.plan = call.plan /\ call'.org = call.org
          /\ call'.todo = Tail(call.todo) /\ call'.since = since
      BY <1>1, <2>1 DEF Calls
    <2>4. world' = after
      BY <1>3, <1>4, <1>7 DEF Sent
    <2>5. Stands(call, p)'
      <3>1. touched'[p] \in Nat /\ call'.since[p] = touched'[p]
        BY <1>1, <1>2, <2>2, <2>3
      <3>2. Wanted(call'.plan, p) = Wanted(call.plan, p)
        BY <2>3
      <3>3. world'[p].what = Wanted(call'.plan, p)
        BY <1>0, <2>4, <3>2
      <3> QED
        BY <3>1, <3>3 DEF Stands, Wanted
    <2>6. ASSUME NEW q \in Listed(call)
          PROVE  q \in Range(Tail(call.todo)) \/ Stands(call, q)'
      <3>1. CASE q = p
        BY <2>5, <3>1
      <3>2. CASE q # p /\ q \in Range(call.todo)
        BY <1>0, <1>1, <3>2, RangeOfTail
      <3>3. CASE q # p /\ Stands(call, q)
        BY <1>1, <1>2, <2>2, <2>3, <3>3, StandsStill
      <3> QED
        BY <3>1, <3>2, <3>3 DEF CompleteInv
    <2>7. call'.at = "applied" => call'.todo = <<>>
      <3>1. Len(Tail(call.todo)) = Len(call.todo) - 1 /\ Tail(call.todo) \in Seq(Places)
        BY <1>1, HeadTailProperties
      <3>2. After(answer) = "applied" => Len(Tail(call.todo)) = 0
        BY <1>4, <3>1
      <3>3. Len(Tail(call.todo)) = 0 => Tail(call.todo) = <<>>
        BY <3>1, EmptySeq
      <3> QED
        BY <2>3, <3>2, <3>3
    <2> QED
      BY <2>3, <2>6, <2>7 DEF CompleteInv, Listed
  <1> QED
    BY <1>4, <1>5, <1>6, <1>7

\* A call begins with all of its plan left to do.
LEMMA CompleteBegins ==
  ASSUME OnboardingInv, NEW repos \in RepositoryLists, NEW permission \in Permissions,
         NEW team \in BOOLEAN,
         Begin(OnboardPlan(org, repos, permission, team), Steps(org, repos, team))
  PROVE  CompleteInv'
  <1> DEFINE plan == OnboardPlan(org, repos, permission, team)
             todo == Steps(org, repos, team)
             first == <<Membership[org]>>
             last == IF team THEN <<Team[org]>> ELSE <<>>
  <1>1. /\ call'.at = "asking" /\ call'.plan = plan /\ call'.org = org /\ call'.todo = todo
    BY DEF Begin, NoCall
  <1>2. /\ org \in Orgs /\ repos \in Seq(Places)
        /\ Membership[org] \in Places /\ Team[org] \in Places
    BY OnboardingAssumption DEF OnboardingInv, OnboardingTypeOK
  <1>3. /\ first \in Seq(Places) /\ last \in Seq(Places) /\ Len(first) = 1
        /\ first[1] = Membership[org] /\ Len(last) \in Nat
        /\ team => Len(last) = 1 /\ last[1] = Team[org]
    BY <1>2
  <1> HIDE DEF first, last
  <1>4. /\ first \o repos \in Seq(Places) /\ Len(first \o repos) = 1 + Len(repos)
        /\ Len(repos) \in Nat /\ (first \o repos)[1] = Membership[org]
        /\ \A i \in 1..Len(repos) : (first \o repos)[i + 1] = repos[i]
    <2>1. Len(repos) \in Nat
      BY <1>2, LenProperties
    <2>2. /\ first \o repos \in Seq(Places) /\ Len(first \o repos) = Len(first) + Len(repos)
          /\ \A i \in 1..(Len(first) + Len(repos)) :
                (first \o repos)[i] = IF i <= Len(first) THEN first[i] ELSE repos[i - Len(first)]
      BY <1>2, <1>3, ConcatProperties
    <2>3. ASSUME NEW i \in 1..Len(repos)
          PROVE  (first \o repos)[i + 1] = repos[i]
      BY <1>3, <2>1, <2>2
    <2> QED
      BY <1>3, <2>1, <2>2, <2>3
  <1>5. todo = (first \o repos) \o last
    BY DEF Steps, first, last
  <1> HIDE DEF todo
  <1>6. /\ DOMAIN todo = 1..(1 + Len(repos) + Len(last))
        /\ \A i \in 1..(1 + Len(repos)) : todo[i] = (first \o repos)[i]
        /\ \A i \in 1..Len(last) : todo[1 + Len(repos) + i] = last[i]
    <2>1. /\ todo \in Seq(Places) /\ Len(todo) = Len(first \o repos) + Len(last)
          /\ \A i \in 1..(Len(first \o repos) + Len(last)) :
                todo[i] = IF i <= Len(first \o repos) THEN (first \o repos)[i]
                          ELSE last[i - Len(first \o repos)]
      BY <1>3, <1>4, <1>5, ConcatProperties
    <2>2. DOMAIN todo = 1..(1 + Len(repos) + Len(last))
      BY <1>4, <2>1, LenProperties
    <2>3. ASSUME NEW i \in 1..(1 + Len(repos))
          PROVE  todo[i] = (first \o repos)[i]
      <3>1. i \in 1..(Len(first \o repos) + Len(last)) /\ i <= Len(first \o repos)
        BY <1>3, <1>4
      <3> QED
        BY <2>1, <3>1
    <2>4. ASSUME NEW i \in 1..Len(last)
          PROVE  todo[1 + Len(repos) + i] = last[i]
      <3>1. /\ 1 + Len(repos) + i \in 1..(Len(first \o repos) + Len(last))
            /\ ~(1 + Len(repos) + i <= Len(first \o repos))
            /\ (1 + Len(repos) + i) - Len(first \o repos) = i
        BY <1>3, <1>4
      <3> QED
        BY <2>1, <3>1
    <2> QED
      BY <2>2, <2>3, <2>4
  <1>7. ASSUME NEW p \in Listed(call')
        PROVE  p \in Range(todo)
    <2>1. plan.repos = Range(repos) /\ (plan.team <=> team)
      BY DEF OnboardPlan
    <2>2. CASE p = Membership[org]
      <3>1. 1 \in 1..(1 + Len(repos)) /\ 1 \in DOMAIN todo
        BY <1>3, <1>4, <1>6
      <3>2. todo[1] = p
        BY <1>4, <1>6, <2>2, <3>1
      <3> QED
        BY <3>1, <3>2 DEF Range
    <2>3. CASE p \in Range(repos)
      <3>1. PICK i \in 1..Len(repos) : repos[i] = p
        BY <1>2, <2>3, LenProperties DEF Range
      <3>2. i + 1 \in 1..(1 + Len(repos)) /\ i + 1 \in DOMAIN todo
        BY <1>3, <1>4, <1>6
      <3>3. todo[i + 1] = p
        BY <1>4, <1>6, <3>1, <3>2
      <3> QED
        BY <3>2, <3>3 DEF Range
    <2>4. CASE team /\ p = Team[org]
      <3>1. 1 \in 1..Len(last) /\ 1 + Len(repos) + 1 \in DOMAIN todo
        BY <1>3, <1>4, <1>6, <2>4
      <3>2. todo[1 + Len(repos) + 1] = p
        BY <1>3, <1>6, <2>4, <3>1
      <3> QED
        BY <3>1, <3>2 DEF Range
    <2> QED
      BY <1>1, <2>1, <2>2, <2>3, <2>4 DEF Listed
  <1> QED
    BY <1>1, <1>7 DEF CompleteInv, Listed

\* The tools leave a complete call complete.
LEMMA CompleteOnboards ==
  ASSUME AdaptersInv, AdaptersInv', OnboardingInv, CompleteInv, Counted, Onboarding
  PROVE  CompleteInv'
  <1>1. CASE UNCHANGED call
    BY <1>1, CompleteRests
  <1>2. CASE Grant /\ Head(call.todo) \in gone
    <2>1. call'.at = "failed"
      BY <1>2 DEF Grant, OnboardingInv, OnboardingTypeOK, Calls
    <2> QED
      BY <2>1 DEF CompleteInv
  <1>3. CASE Grant /\ Head(call.todo) \notin gone
    <2> DEFINE p == Head(call.todo)
               after == Given(p, Wanted(call.plan, p))
    <2>1. call.at = "asking" /\ call.plan.op = "onboard" /\ Ask(after)
      BY <1>3 DEF Grant
    <2>2. call.todo \in Seq(Fit(call.plan)) /\ call.todo # <<>>
      BY <2>1 DEF OnboardingInv, OnboardingTypeOK, Fit
    <2>3. p \in Fit(call.plan)
      BY <2>2, HeadTailProperties
    <2>4. p \in Places /\ Wanted(call.plan, p) \in Grants[p] /\ WorldOK(world)
      BY <2>3, AdaptersType DEF Fit, AdaptersInv
    <2>5. after[p].what = Wanted(call.plan, p)
      BY <1>3, <2>4, GivenOK
    <2> HIDE DEF after
    <2> QED
      BY <2>1, <2>5, CompleteAsks
  <1>4. CASE RemoveAccess
    <2>1. call.plan.op = "remove" /\ call'.plan = call.plan
      BY <1>4 DEF RemoveAccess, Ask, OnboardingInv, OnboardingTypeOK, Calls
    <2> QED
      BY <2>1 DEF CompleteInv
  <1>5. ASSUME NEW what, NEW todo, Begin(RemovalPlan(what), todo)
        PROVE  CompleteInv'
    <2>1. call'.plan.op = "remove"
      BY <1>5 DEF Begin, NoCall, RemovalPlan
    <2> QED
      BY <2>1 DEF CompleteInv
  <1>6. CASE Tools
    BY <1>1, <1>5, <1>6, CompleteBegins
       DEF Tools, OnboardUser, RemoveRepositoryAccess, RemoveTeamAccess, RemoveOrganizationMember,
           Preview, Connect
  <1> QED
    BY <1>2, <1>3, <1>4, <1>6 DEF Onboarding, OnboardingStep

-----------------------------------------------------------------------------
(* The fan-out. *)

\* What is stored: the rows of every object are in the table, and a system
\* that is recorded as fresh has an object.
StoreOK(t, o, r) ==
    /\ t \subseteq Rows(Places)
    /\ DOMAIN o \subseteq Systems
    /\ \A s \in DOMAIN o : o[s] \subseteq t
    /\ r \in Statuses
    /\ \A s \in DOMAIN r : r[s] = "fresh" => s \in DOMAIN o

\* A run that works on a system has a name for it.
AtSystem(r) == r.at \in {"list", "write", "batch", "identities", "object"}

\* Every row that a run has listed is in the table, or still to be written.
Accounted(r, t) ==
    /\ r.at \in {"write", "batch", "identities", "object"} =>
          Rows(r.listed) \subseteq t \union Rows(r.todo) \union r.pending
    /\ r.at \in {"list", "write"} => r.pending = {}
    /\ r.at \in {"identities", "object"} => r.todo = {} /\ r.pending = {}
    /\ r.at = "batch" => r.tries # 0

RunOK(r, t, o) ==
    /\ r \in Runs
    /\ AtSystem(r) => r.next \in DOMAIN SystemOrder
    /\ \A s \in DOMAIN r.statuses : r.statuses[s] = "fresh" => s \in DOMAIN o
    /\ Accounted(r, t)

\* The inductive invariant of the fan-out.
GraphInv == StoreOK(table, objects, record) /\ RunOK(run, table, objects)

\* The invariant is what is claimed of the fan-out, and more.
LEMMA GraphImplies == GraphInv => GraphTypeOK /\ FreshIsStored
  BY DEF GraphInv, StoreOK, RunOK, AtSystem, GraphTypeOK, FreshIsStored, WhoCanReach

\* Marking a system keeps what is said of the others.
LEMMA StatusesOK ==
  ASSUME NEW f \in Statuses, NEW s \in Systems, NEW status \in {"fresh", "stale"}
  PROVE  /\ With(f, s, status) \in Statuses
         /\ DOMAIN With(f, s, status) = DOMAIN f \union {s}
         /\ \A x \in DOMAIN f \ {s} : With(f, s, status)[x] = f[x]
         /\ With(f, s, status)[s] = status
  <1>1. PICK S \in SUBSET Systems : f \in [S -> {"fresh", "stale"}]
    BY DEF Statuses
  <1>2. With(f, s, status) \in [S \union {s} -> {"fresh", "stale"}]
    BY <1>1 DEF With
  <1>3. S \union {s} \in SUBSET Systems
    BY <1>1
  <1>4. With(f, s, status) \in Statuses
    BY <1>2, <1>3 DEF Statuses
  <1> QED
    BY <1>1, <1>4 DEF With

\* Nothing is marked at first.
LEMMA NothingOK == Nothing \in Statuses /\ DOMAIN Nothing = {}
  <1>1. Nothing \in [{} -> {"fresh", "stale"}]
    BY DEF Nothing
  <1> QED
    BY <1>1 DEF Statuses

\* No run, no claim.
LEMMA NoRunOK ==
  ASSUME NEW t, NEW o
  PROVE  RunOK(NoRun, t, o)
  BY NothingOK DEF RunOK, NoRun, Runs, AtSystem, Accounted, Rows

\* The system a run works on.
LEMMA CurrentOK ==
  ASSUME RunOK(run, table, objects), AtSystem(run)
  PROVE  Current \in Systems
  BY DEF RunOK, Current, Systems

\* A run goes on if what it says of the system is true.
LEMMA NextSystemOK ==
  ASSUME RunOK(run, table, objects), AtSystem(run), run.pending = {},
         NEW status \in {"fresh", "stale"}, NEW o, DOMAIN objects \subseteq DOMAIN o,
         status = "fresh" => Current \in DOMAIN o
  PROVE  RunOK(NextSystem(status), table, o)
  <1>1. /\ run \in Runs /\ run.next \in DOMAIN SystemOrder /\ run.statuses \in Statuses
        /\ SystemOrder \in Seq(STRING)
    BY GraphAssumption DEF RunOK, Runs
  <1>2. /\ DOMAIN SystemOrder = 1..Len(SystemOrder) /\ Len(SystemOrder) \in Nat
        /\ run.next \in Nat /\ run.next <= Len(SystemOrder)
    BY <1>1, LenProperties
  <1> DEFINE statuses == With(run.statuses, Current, status)
             at == IF run.next = Len(SystemOrder) THEN "record" ELSE "list"
             next == NextSystem(status)
  <1>3. statuses \in Statuses /\ \A s \in DOMAIN statuses : statuses[s] = "fresh" => s \in DOMAIN o
    <2>1. Current \in Systems
      BY CurrentOK
    <2>2. /\ statuses \in Statuses /\ statuses[Current] = status
          /\ DOMAIN statuses = DOMAIN run.statuses \union {Current}
          /\ \A x \in DOMAIN run.statuses \ {Current} : statuses[x] = run.statuses[x]
      <3> DEFINE f == run.statuses
      <3>1. f \in Statuses
        BY <1>1
      <3> HIDE DEF f
      <3>2. /\ With(f, Current, status) \in Statuses
            /\ DOMAIN With(f, Current, status) = DOMAIN f \union {Current}
            /\ \A x \in DOMAIN f \ {Current} : With(f, Current, status)[x] = f[x]
            /\ With(f, Current, status)[Current] = status
        BY <2>1, <3>1, StatusesOK
      <3> QED
        BY <3>2 DEF f
    <2>3. \A s \in DOMAIN run.statuses : run.statuses[s] = "fresh" => s \in DOMAIN o
      BY DEF RunOK
    <2> HIDE DEF statuses
    <2> QED
      BY <2>2, <2>3
  <1>4. next = [run EXCEPT !.at = at, !.next = run.next + 1, !.statuses = statuses]
    BY DEF NextSystem
  <1>5. at \in {"record", "list"} /\ (at = "list" => run.next + 1 \in DOMAIN SystemOrder)
    BY <1>2
  <1> HIDE DEF statuses, at, next
  <1>6. /\ next \in Runs /\ next.at = at /\ next.next = run.next + 1
        /\ next.statuses = statuses /\ next.pending = {}
    <2>1. statuses \in Statuses /\ run.next + 1 \in Nat
      BY <1>2, <1>3
    <2>2. at \in {"idle", "list", "write", "batch", "identities", "object", "record", "recorded",
                  "aborted"}
      BY <1>5
    <2> QED
      BY <1>1, <1>4, <2>1, <2>2 DEF Runs
  <1>7. RunOK(next, table, o)
    BY <1>3, <1>5, <1>6 DEF RunOK, AtSystem, Accounted
  <1> QED
    BY <1>7 DEF next

\* A run that stops leaves what is stored.
LEMMA StopOK ==
  ASSUME RunOK(run, table, objects), NEW at \in {"aborted", "recorded"}, NEW t, NEW o,
         NEW pending \in SUBSET Rows(Places), DOMAIN objects \subseteq DOMAIN o
  PROVE  RunOK([run EXCEPT !.at = at, !.pending = pending], t, o)
         /\ RunOK([run EXCEPT !.at = at], t, o)
  BY DEF RunOK, Runs, AtSystem, Accounted

\* A run begins with the first system.
LEMMA BeginRunOK ==
  ASSUME GraphInv, BeginRun
  PROVE  GraphInv'
  <1>1. run' = [NoRun EXCEPT !.at = "list"] /\ UNCHANGED <<table, objects, record>>
    BY DEF BeginRun
  <1>2. SystemOrder \in Seq(STRING) /\ SystemOrder # <<>>
    BY GraphAssumption
  <1>3. 1 \in DOMAIN SystemOrder
    BY <1>2, EmptySeq, LenProperties
  <1>4. /\ run'.at = "list" /\ run'.next = 1 /\ run'.pending = {} /\ run'.statuses = Nothing
        /\ run' \in Runs
    BY <1>1, NothingOK DEF NoRun, Runs
  <1>5. RunOK(run', table, objects)
    BY <1>3, <1>4, NothingOK DEF RunOK, Accounted
  <1> QED
    BY <1>1, <1>5 DEF GraphInv

\* The rows of what was listed are still to be written.
LEMMA ListSystemOK ==
  ASSUME GraphInv, ListSystem
  PROVE  GraphInv'
  <1> DEFINE listed == {p \in Places : Listable(p) /\ SystemOf(p) = Current}
  <1>1. /\ run.at = "list" /\ RunOK(run, table, objects) /\ UNCHANGED <<table, objects, record>>
        /\ run' \in {Stale, [run EXCEPT !.at = "write", !.listed = listed, !.todo = listed]}
    BY DEF GraphInv, ListSystem
  <1>2. AtSystem(run) /\ run.pending = {}
    BY <1>1 DEF AtSystem, RunOK, Accounted
  <1>3. CASE run' = Stale
    <2>1. RunOK(NextSystem("stale"), table, objects)
      BY <1>1, <1>2, NextSystemOK
    <2> QED
      BY <1>1, <1>3, <2>1 DEF GraphInv, Stale
  <1>4. CASE run' = [run EXCEPT !.at = "write", !.listed = listed, !.todo = listed]
    <2>1. listed \in SUBSET Places
      OBVIOUS
    <2> HIDE DEF listed
    <2>2. RunOK(run', table, objects)
      BY <1>1, <1>2, <1>4, <2>1 DEF RunOK, Runs, AtSystem, Accounted
    <2> QED
      BY <1>1, <2>2 DEF GraphInv
  <1> QED
    BY <1>1, <1>3, <1>4

\* The rows of a batch are pending; none is forgotten.
LEMMA TakeBatchOK ==
  ASSUME GraphInv, TakeBatch
  PROVE  GraphInv'
  <1>1. /\ run.at = "write" /\ RunOK(run, table, objects) /\ UNCHANGED <<table, objects, record>>
    BY DEF GraphInv, TakeBatch
  <1>2. /\ AtSystem(run) /\ run \in Runs /\ run.pending = {}
        /\ Rows(run.listed) \subseteq table \union Rows(run.todo)
    BY <1>1 DEF AtSystem, RunOK, Accounted
  <1>3. RunOK(run', table, objects)
    <2>1. CASE run.todo = {} /\ run' = [run EXCEPT !.at = "identities"]
      BY <1>1, <1>2, <2>1 DEF RunOK, Runs, AtSystem, Accounted
    <2>2. ASSUME NEW batch \in SUBSET run.todo,
                 run' \in {[run EXCEPT !.at = "aborted"],
                           [run EXCEPT !.at = "batch", !.todo = @ \ batch,
                                       !.pending = Rows(batch), !.tries = MaxAttempts]}
          PROVE  RunOK(run', table, objects)
      <3>1. MaxAttempts \in Nat \ {0} /\ run.todo \in SUBSET Places
        BY <1>2, GraphAssumption DEF Runs
      <3>2. CASE run' = [run EXCEPT !.at = "aborted"]
        BY <1>1, <3>2, StopOK
      <3>3. CASE run' = [run EXCEPT !.at = "batch", !.todo = @ \ batch,
                                    !.pending = Rows(batch), !.tries = MaxAttempts]
        <4> DEFINE rest == run.todo \ batch
                   rows == Rows(batch)
        <4>1. /\ rest \in SUBSET Places /\ rows \in SUBSET Rows(Places)
              /\ Rows(run.todo) = Rows(rest) \union rows
          BY <3>1 DEF Rows
        <4>2. run' = [run EXCEPT !.at = "batch", !.todo = rest, !.pending = rows,
                                 !.tries = MaxAttempts]
          BY <3>3
        <4> HIDE DEF rest, rows
        <4> QED
          BY <1>1, <1>2, <3>1, <4>1, <4>2 DEF RunOK, Runs, AtSystem, Accounted
      <3> QED
        BY <2>2, <3>2, <3>3
    <2> QED
      BY <2>1, <2>2 DEF TakeBatch, Abort
  <1> QED
    BY <1>1, <1>3 DEF GraphInv

\* What the table did not take stays pending.
LEMMA WriteBatchOK ==
  ASSUME GraphInv, WriteBatch
  PROVE  GraphInv'
  <1>1. PICK taken \in SUBSET run.pending :
          LET rest == run.pending \ taken
          IN  /\ table' = table \union taken
              /\ \/ Abort
                 \/ run' = CASE rest = {} -> [run EXCEPT !.at = "write", !.pending = {}]
                             [] rest # {} /\ run.tries = 1 -> GivesUp(rest)
                             [] OTHER -> [run EXCEPT !.pending = rest, !.tries = @ - 1]
    BY DEF WriteBatch
  <1>2. /\ run.at = "batch" /\ RunOK(run, table, objects) /\ UNCHANGED <<objects, record>>
        /\ StoreOK(table, objects, record)
    BY DEF GraphInv, WriteBatch
  <1> DEFINE rest == run.pending \ taken
  <1>3. /\ AtSystem(run) /\ run \in Runs /\ run.pending \in SUBSET Rows(Places)
        /\ run.tries \in Nat /\ rest \in SUBSET Rows(Places)
        /\ Rows(run.listed) \subseteq table \union Rows(run.todo) \union run.pending
    BY <1>2 DEF AtSystem, RunOK, Accounted, Runs
  <1>4. table \subseteq table' /\ run.pending \subseteq table' \union rest
        /\ table' \subseteq Rows(Places)
    BY <1>1, <1>2, <1>3 DEF StoreOK
  <1>5. StoreOK(table', objects, record)
    BY <1>2, <1>4 DEF StoreOK
  <1> HIDE DEF rest
  <1>6. RunOK(run', table', objects)
    <2>1. CASE run' = [run EXCEPT !.at = "aborted"]
      BY <1>2, <2>1, StopOK
    <2>2. CASE run' = [run EXCEPT !.at = "aborted", !.pending = rest]
      BY <1>2, <1>3, <2>2, StopOK
    <2>3. CASE rest = {} /\ run' = [run EXCEPT !.at = "write", !.pending = {}]
      BY <1>2, <1>3, <1>4, <2>3 DEF RunOK, Runs, AtSystem, Accounted
    <2>4. CASE run' = [run EXCEPT !.pending = rest, !.tries = @ - 1] /\ run.tries # 1
      <3>1. run.tries - 1 \in Nat /\ run.tries - 1 # 0
        BY <1>2, <1>3, <2>4 DEF RunOK, Accounted
      <3> QED
        BY <1>2, <1>3, <1>4, <2>4, <3>1 DEF RunOK, Runs, AtSystem, Accounted
    <2>5. \/ run' = [run EXCEPT !.at = "aborted"]
          \/ run' = [run EXCEPT !.at = "aborted", !.pending = rest]
          \/ rest = {} /\ run' = [run EXCEPT !.at = "write", !.pending = {}]
          \/ run' = [run EXCEPT !.pending = rest, !.tries = @ - 1] /\ run.tries # 1
      BY <1>1 DEF Abort, GivesUp, rest
    <2> QED
      BY <2>1, <2>2, <2>3, <2>4, <2>5
  <1> QED
    BY <1>2, <1>5, <1>6 DEF GraphInv

\* The rows of the identities are not those of the entitlements.
LEMMA WriteIdentitiesOK ==
  ASSUME GraphInv, WriteIdentities
  PROVE  GraphInv'
  <1>1. /\ run.at = "identities" /\ RunOK(run, table, objects)
        /\ UNCHANGED <<table, objects, record>>
    BY DEF GraphInv, WriteIdentities
  <1>2. RunOK(run', table, objects)
    <2>1. CASE run' = [run EXCEPT !.at = "aborted"]
      BY <1>1, <2>1, StopOK
    <2>2. CASE run' = [run EXCEPT !.at = "object"]
      BY <1>1, <2>2 DEF RunOK, Runs, AtSystem, Accounted
    <2> QED
      BY <2>1, <2>2 DEF WriteIdentities, Abort
  <1> QED
    BY <1>1, <1>2 DEF GraphInv

\* An object is written when all its rows are in the table.
LEMMA WriteObjectOK ==
  ASSUME GraphInv, WriteObject
  PROVE  GraphInv'
  <1> DEFINE rows == Rows(run.listed)
  <1>1. /\ run.at = "object" /\ RunOK(run, table, objects) /\ UNCHANGED <<table, record>>
        /\ StoreOK(table, objects, record)
    BY DEF GraphInv, WriteObject
  <1>2. /\ AtSystem(run) /\ run.pending = {} /\ rows \subseteq table
    BY <1>1 DEF AtSystem, RunOK, Accounted, Rows
  <1>3. Current \in Systems
    BY <1>1, <1>2, CurrentOK
  <1>4. CASE UNCHANGED objects /\ run' = [run EXCEPT !.at = "aborted"]
    <2>1. RunOK(run', table, objects)
      BY <1>1, <1>4, StopOK
    <2> QED
      BY <1>1, <1>4, <2>1 DEF GraphInv
  <1>5. CASE /\ objects' = With(objects, Current, rows)
             /\ run' \in {[run EXCEPT !.at = "aborted"], NextSystem("fresh")}
    <2>1. /\ DOMAIN objects' = DOMAIN objects \union {Current}
          /\ \A s \in DOMAIN objects' : objects'[s] = IF s = Current THEN rows ELSE objects[s]
      BY <1>5 DEF With
    <2> HIDE DEF rows
    <2>2. StoreOK(table, objects', record)
      BY <1>1, <1>2, <1>3, <2>1 DEF StoreOK
    <2>3. CASE run' = [run EXCEPT !.at = "aborted"]
      <3>1. RunOK(run', table, objects')
        BY <1>1, <2>1, <2>3, StopOK
      <3> QED
        BY <1>1, <2>2, <3>1 DEF GraphInv
    <2>4. CASE run' = NextSystem("fresh")
      <3>1. RunOK(run', table, objects')
        BY <1>1, <1>2, <2>1, <2>4, NextSystemOK
      <3> QED
        BY <1>1, <2>2, <3>1 DEF GraphInv
    <2> QED
      BY <1>5, <2>3, <2>4
  <1> QED
    BY <1>4, <1>5 DEF WriteObject, Abort

\* What is recorded as fresh has its object.
LEMMA WriteRecordOK ==
  ASSUME GraphInv, WriteRecord
  PROVE  GraphInv'
  <1>1. /\ run.at = "record" /\ RunOK(run, table, objects) /\ UNCHANGED <<table, objects>>
        /\ StoreOK(table, objects, record)
        /\ record' \in {record, run.statuses}
        /\ run' \in {[run EXCEPT !.at = "aborted"], [run EXCEPT !.at = "recorded"]}
    BY DEF GraphInv, WriteRecord, Abort
  <1>2. StoreOK(table, objects, record')
    BY <1>1 DEF StoreOK, RunOK, Runs
  <1>3. RunOK(run', table, objects)
    BY <1>1, StopOK
  <1> QED
    BY <1>1, <1>2, <1>3 DEF GraphInv

\* The fan-out keeps its invariant and leaves the world alone.
LEMMA FanOutOK ==
  ASSUME AdaptersInv, GraphInv, FanOut
  PROVE  AdaptersInv' /\ TellsTheTruth /\ Counted /\ GraphInv'
  <1>1. AdaptersInv' /\ TellsTheTruth /\ Counted
    BY RestOK DEF FanOut, GraphStep
  <1>2. GraphInv'
    BY BeginRunOK, ListSystemOK, TakeBatchOK, WriteBatchOK, WriteIdentitiesOK, WriteObjectOK,
       WriteRecordOK DEF FanOut, GraphStep
  <1> QED
    BY <1>1, <1>2

-----------------------------------------------------------------------------
(* All together. *)

\* The inductive invariant of the whole.
Inv == AdaptersInv /\ OnboardingInv /\ CompleteInv /\ GraphInv

LEMMA Initial ==
  ASSUME Init
  PROVE  Inv
  <1>1. AdaptersInv
    <2>1. PICK start \in Initially : world = [p \in Places |-> [what |-> start[p], id |-> 1]]
      BY DEF Init, AdaptersInit
    <2>2. /\ gone = {} /\ touched = [p \in Places |-> 0] /\ pc = "idle"
      BY DEF Init, AdaptersInit
    <2>3. \A p \in Places : start[p] \in Grants[p] \union {Absent}
      BY <2>1, AdaptersAssumption
    <2>4. \A p \in Places : start[p] \in Things
      BY <2>3 DEF Things
    <2>5. WorldOK(world)
      BY <2>1, <2>2, <2>3, <2>4 DEF WorldOK
    <2>6. touched \in [Places -> Nat] /\ JobOK
      BY <2>2 DEF JobOK
    <2> QED
      BY <2>2, <2>5, <2>6, AdaptersType DEF AdaptersInv, SinceOK, RestoredIsExact
  <1>2. OnboardingInv
    <2>1. org \in Orgs /\ previewed = {} /\ call = NoCall
      BY DEF Init, OnboardingInit
    <2>2. MaxRetries \in Nat
      BY AdaptersAssumption
    <2>3. call \in Calls /\ call.at = "idle"
      BY <2>1, <2>2 DEF NoCall, Calls
    <2> QED
      BY <2>1, <2>3 DEF OnboardingInv, OnboardingTypeOK, PreviewsNameOrg, GrantsWerePreviewed
  <1>3. CompleteInv
    BY DEF Init, OnboardingInit, NoCall, CompleteInv
  <1>4. GraphInv
    <2>1. table = {} /\ objects = Nothing /\ record = Nothing /\ run = NoRun
      BY DEF Init, GraphInit
    <2>2. StoreOK(table, objects, record)
      BY <2>1, NothingOK DEF StoreOK
    <2> QED
      BY <2>1, <2>2, NoRunOK DEF GraphInv
  <1> QED
    BY <1>1, <1>2, <1>3, <1>4 DEF Inv

\* Every step of a process leaves the others' variables alone.
LEMMA Step ==
  ASSUME Inv, [Next]_vars
  PROVE  Inv' /\ TellsTheTruth
  <1>1. CASE (Remediation \/ \E p \in Places : Touch(p)) /\ UNCHANGED <<onboardingVars, graphVars>>
    <2>1. AdaptersInv' /\ TellsTheTruth /\ Counted
      BY <1>1, RemediationOK, TouchOK DEF Inv
    <2>2. OnboardingInv' /\ GraphInv'
      BY <1>1 DEF Inv, onboardingVars, graphVars, OnboardingInv, OnboardingTypeOK, Seen,
                  PreviewsNameOrg, GrantsWerePreviewed, GraphInv
    <2>3. CompleteInv'
      BY <1>1, <2>1, CompleteRests DEF Inv, onboardingVars
    <2> QED
      BY <2>1, <2>2, <2>3 DEF Inv
  <1>2. CASE Onboarding /\ UNCHANGED graphVars
    <2>1. AdaptersInv' /\ TellsTheTruth /\ Counted /\ OnboardingInv'
      BY <1>2, OnboardingOK DEF Inv
    <2>2. GraphInv'
      BY <1>2 DEF Inv, graphVars, GraphInv
    <2>3. CompleteInv'
      BY <1>2, <2>1, CompleteOnboards DEF Inv
    <2> QED
      BY <2>1, <2>2, <2>3 DEF Inv
  <1>3. CASE FanOut /\ UNCHANGED onboardingVars
    <2>1. AdaptersInv' /\ TellsTheTruth /\ Counted /\ GraphInv'
      BY <1>3, FanOutOK DEF Inv
    <2>2. OnboardingInv'
      BY <1>3 DEF Inv, onboardingVars, OnboardingInv, OnboardingTypeOK, Seen, PreviewsNameOrg,
                  GrantsWerePreviewed
    <2>3. CompleteInv'
      BY <1>3, <2>1, CompleteRests DEF Inv, onboardingVars
    <2> QED
      BY <2>1, <2>2, <2>3 DEF Inv
  <1>4. CASE UNCHANGED vars
    <2>1. AdaptersInv' /\ TellsTheTruth /\ Counted
      BY <1>4, RestOK DEF Inv, vars
    <2>2. OnboardingInv' /\ GraphInv'
      BY <1>4 DEF Inv, vars, onboardingVars, graphVars, OnboardingInv, OnboardingTypeOK, Seen,
                  PreviewsNameOrg, GrantsWerePreviewed, GraphInv
    <2>3. CompleteInv'
      BY <1>4, <2>1, CompleteRests DEF Inv, vars, onboardingVars
    <2> QED
      BY <2>1, <2>2, <2>3 DEF Inv
  <1> QED
    BY <1>1, <1>2, <1>3, <1>4 DEF Next

LEMMA Invariant == Spec => []Inv
  BY Initial, Step, PTL DEF Spec

\* A place has one of the things it may hold, whoever changed it last and in
\* whatever form it was restored, and nothing if it is deleted; a process knows
\* what it works on (github.py:605, mcp_server.py:139, snapshot.py:105).
THEOREM TypeCorrect == Spec => []TypeOK
  <1>1. Inv => TypeOK
    BY GraphImplies DEF Inv, AdaptersInv, OnboardingInv, TypeOK
  <1> QED
    BY <1>1, Invariant, PTL

\* What an adapter reports is true when it reports it, except of an AWS user
\* who is gone (github.py:144, 585; aws_iam.py:462, 525).
THEOREM Truth == Spec => SuccessIsTrue
  <1>1. Inv /\ [Next]_vars => [TellsTheTruth]_<<worldVars, adapterVars>>
    BY Step
  <1> QED
    BY <1>1, Invariant, PTL DEF Spec, SuccessIsTrue

\* If nobody else touched a right since it was listed, a restore that succeeds
\* leaves the very permission that was there (github.py:578).
THEOREM Exact == Spec => []RestoredIsExact
  <1>1. Inv => RestoredIsExact
    BY DEF Inv, AdaptersInv
  <1> QED
    BY <1>1, Invariant, PTL

\* Whatever a tool grants was previewed with the same plan and for the same
\* organization (mcp_server.py:175).
THEOREM Previewed == Spec => []GrantsWerePreviewed
  <1>1. Inv => GrantsWerePreviewed
    BY DEF Inv, OnboardingInv
  <1> QED
    BY <1>1, Invariant, PTL

\* A call that says it was applied granted everything the plan lists, however
\* many answers were lost, an agent's other calls and a remediation going on
\* beside it included: what is there now is as the plan wants it, or somebody
\* changed it since (mcp_server.py:178).
THEOREM Complete == Spec => []AppliedIsComplete
  <1>1. Inv => AppliedIsComplete
    <2> SUFFICES ASSUME Inv, call.at = "applied", call.plan.op = "onboard",
                        NEW p \in Listed(call)
                 PROVE  world[p].what = Wanted(call.plan, p) \/ touched[p] # call.since[p]
      BY DEF AppliedIsComplete, Listed
    <2>1. call.todo = <<>> /\ (p \in Range(call.todo) \/ Stands(call, p))
      BY DEF Inv, CompleteInv
    <2>2. Range(call.todo) = {}
      BY <2>1 DEF Range
    <2> QED
      BY <2>1, <2>2 DEF Stands
  <1> QED
    BY <1>1, Invariant, PTL

\* A system that the record calls fresh has an object, and every row of it can
\* be found in the table (store.py:136, snapshot.py:109).
THEOREM Fresh == Spec => []FreshIsStored
  <1>1. Inv => FreshIsStored
    BY GraphImplies DEF Inv
  <1> QED
    BY <1>1, Invariant, PTL
=============================================================================
