-------------------------- MODULE SessionStore_proofs --------------------------
(***************************************************************************)
(* Theorems about SessionStore with a database server, for any number of   *)
(* runs and threads and a pool of any size: a session sees the committed   *)
(* state and its own writes, and its commit adds no more than those.       *)
(*                                                                         *)
(* With the default store, where all sessions share a connection, they are *)
(* false; that is what the run store_shared shows.                         *)
(***************************************************************************)
EXTENDS SessionStore, TLAPS

\* The stages that each kind of session goes through.
PostStages == {"idle", "building", "open", "committing", "resetting", "done", "failed"}
JobStages == PostStages \cup {"handling", "flushing"}
PollStages == PostStages \cup {"reading", "undoing"}

StoreTypeOK ==
  /\ DOMAIN pending = Conns
  /\ DOMAIN at = Sessions
  /\ todo \in [Runs -> SUBSET {"row", "log"}]
  /\ ended \in [Runs -> {"no"} \cup Outcomes]
  /\ DOMAIN read = Polls
  /\ DOMAIN told = Runs

\* The row is what POST inserts, and it is there once POST has committed it.
PostInv(r) ==
  /\ at[Post(r)] \in PostStages
  /\ r \in DOMAIN stored.row <=> at[Post(r)] \in {"resetting", "done"}
  /\ at[Post(r)] # "committing" => pending[Post(r)] = Nothing
  /\ at[Post(r)] = "committing" =>
       /\ DOMAIN pending[Post(r)].row = {r} /\ pending[Post(r)].row[r] = "created"
       /\ pending[Post(r)].log = {}

\* What is still to be flushed is not pending, and the rest is, as the run ended.
Flushed(r) ==
  LET txn == pending[Job(r)]
  IN  /\ DOMAIN txn.row = IF "row" \in todo[r] THEN {} ELSE {r}
      /\ "row" \notin todo[r] => txn.row[r] = ended[r]
      /\ txn.log \subseteq {r}
      /\ ended[r] = "completed" => "log" \in todo[r] \/ r \in txn.log

\* Until its job commits a run is stored as accepted, and from then on as ended.
JobInv(r) ==
  /\ at[Job(r)] \in JobStages
  /\ at[Job(r)] # "idle" => at[Post(r)] = "done"
  /\ at[Job(r)] \notin {"flushing", "committing"} => pending[Job(r)] = Nothing
  /\ at[Job(r)] \in {"flushing", "committing"} => ended[r] \in Outcomes /\ Flushed(r)
  /\ at[Job(r)] = "flushing" <=> todo[r] # {}
  /\ at[Job(r)] \in {"idle", "building", "open", "handling", "failed"} => ended[r] = "no"
  /\ at[Job(r)] \notin {"resetting", "done"} =>
       /\ r \in DOMAIN stored.row => stored.row[r] = "created"
       /\ r \notin stored.log
  /\ at[Job(r)] \in {"resetting", "done"} =>
       /\ ended[r] \in Outcomes /\ stored.row[r] = ended[r]
       /\ ended[r] = "completed" => r \in stored.log

\* An answer agrees with what is stored.
Agrees(answer, r) ==
  /\ answer \in {"none", "running", "succeeded", "failed"}
  /\ answer = "succeeded" => stored.row[r] = "completed"
  /\ answer = "failed" => stored.row[r] = "failed"

\* A poll writes nothing, and what it has read is still so.
PollInv(r) ==
  /\ at[Poll(r)] \in PollStages
  /\ at[Poll(r)] # "idle" => at[Post(r)] = "done"
  /\ at[Poll(r)] = "reading" => stored.row[r] = "completed"
  /\ at[Poll(r)] # "undoing"
  /\ at[Poll(r)] \in {"committing", "resetting"} => Agrees(read[Poll(r)], r)
  /\ Agrees(told[r], r)
  /\ told[r] \in {"succeeded", "failed"} => at[Post(r)] = "done"

PollsWriteNothing == \A s \in Polls : pending[s] = Nothing

StoreInv ==
  /\ StoreTypeOK
  /\ PollsWriteNothing
  /\ \A r \in Runs : PostInv(r) /\ JobInv(r) /\ PollInv(r)

-----------------------------------------------------------------------------
\* Lemmas about sessions and what they see

LEMMA SessionsDiffer ==
  /\ \A r, q : Post(r) = Post(q) \/ Job(r) = Job(q) \/ Poll(r) = Poll(q) => r = q
  /\ \A r, q : Post(r) # Job(q) /\ Post(r) # Poll(q) /\ Job(r) # Poll(q)
BY DEF Post, Job, Poll

LEMMA SessionKinds ==
  /\ \A r \in Runs : Post(r) \in Sessions /\ Job(r) \in Sessions /\ Poll(r) \in Polls
  /\ Polls \subseteq Sessions /\ Sessions \subseteq Conns
  /\ \A s \in Polls : \A r : s # Post(r) /\ s # Job(r)
  /\ \A s \in Sessions : \/ \E r \in Runs : s = Post(r)
                         \/ \E r \in Runs : s = Job(r)
                         \/ s \in Polls
<1>1. \A s \in Polls : \E q : s = Poll(q)
  BY DEF Polls
<1>. QED
  BY <1>1, SessionsDiffer DEF Sessions, Posts, Jobs, Polls, Conns

\* With a server each session has a connection to itself, and none its own database.
LEMMA OwnConnection ==
  ASSUME ~OneConnection, NEW s
  PROVE  Conn(s) = s /\ ~Private(s)
BY DEF Conn, Private

LEMMA NothingIsEmpty == DOMAIN Nothing.row = {} /\ Nothing.log = {}
BY DEF Nothing

\* A session reads its own writes over what is committed.
LEMMA ViewOf ==
  ASSUME ~OneConnection, NEW s
  PROVE  LET own_row == pending[s].row
         IN  /\ DOMAIN View(s).row = DOMAIN own_row \cup DOMAIN stored.row
             /\ \A x \in DOMAIN View(s).row :
                  View(s).row[x] = IF x \in DOMAIN own_row THEN own_row[x] ELSE stored.row[x]
             /\ View(s).log = stored.log \cup pending[s].log
BY OwnConnection DEF View, Committed, Over

\* What is stored of run r is as before.
Kept(r) ==
  /\ r \in DOMAIN stored'.row <=> r \in DOMAIN stored.row
  /\ r \in DOMAIN stored.row => stored'.row[r] = stored.row[r]
  /\ r \in stored'.log <=> r \in stored.log

\* A step that leaves the job of run r and what is stored of it alone.
LEMMA JobUntouched ==
  ASSUME NEW r \in Runs, JobInv(r), Kept(r),
         at[Post(r)] = "done" => at'[Post(r)] = "done",
         at'[Job(r)] = at[Job(r)], pending'[Job(r)] = pending[Job(r)],
         todo'[r] = todo[r], ended'[r] = ended[r], PostInv(r)
  PROVE  JobInv(r)'
<1>1. Flushed(r) => Flushed(r)'
  BY DEF Flushed
<1>2. at[Job(r)] \in {"resetting", "done"} => r \in DOMAIN stored.row
  BY DEF JobInv, PostInv
<1>. QED
  BY <1>1, <1>2 DEF JobInv, Kept

-----------------------------------------------------------------------------
\* Every step keeps the invariant, one lemma per action

LEMMA OpenKeeps ==
  ASSUME ~OneConnection, StoreInv, NEW s \in Sessions, Open(s)
  PROVE  StoreInv'
<1>. USE SessionsDiffer, SessionKinds
<1>1. StoreTypeOK' /\ PollsWriteNothing'
  BY DEF Open, StoreInv, StoreTypeOK, PollsWriteNothing
<1>2. ASSUME NEW r \in Runs PROVE PostInv(r)'
  BY <1>2 DEF Open, Ready, StoreInv, StoreTypeOK, PostInv, PostStages
<1>3. ASSUME NEW r \in Runs PROVE JobInv(r)'
  BY <1>3 DEF Open, Ready, StoreInv, StoreTypeOK, JobInv, JobStages, PostStages, Flushed
<1>4. ASSUME NEW r \in Runs PROVE PollInv(r)'
  BY <1>4 DEF Open, Ready, StoreInv, StoreTypeOK, PollInv, PollStages, PostStages, Agrees
<1>. QED
  BY <1>1, <1>2, <1>3, <1>4 DEF StoreInv

LEMMA BuildEngineKeeps ==
  ASSUME ~OneConnection, StoreInv, NEW s \in Sessions, BuildEngine(s)
  PROVE  StoreInv'
<1>. USE SessionsDiffer, SessionKinds
<1>1. StoreTypeOK' /\ PollsWriteNothing'
  BY DEF BuildEngine, StoreInv, StoreTypeOK, PollsWriteNothing
<1>2. ASSUME NEW r \in Runs PROVE PostInv(r)'
  BY <1>2 DEF BuildEngine, StoreInv, StoreTypeOK, PostInv, PostStages
<1>3. ASSUME NEW r \in Runs PROVE JobInv(r)'
  BY <1>3 DEF BuildEngine, StoreInv, StoreTypeOK, JobInv, JobStages, PostStages, Flushed
<1>4. ASSUME NEW r \in Runs PROVE PollInv(r)'
  BY <1>4 DEF BuildEngine, StoreInv, StoreTypeOK, PollInv, PollStages, PostStages, Agrees
<1>. QED
  BY <1>1, <1>2, <1>3, <1>4 DEF StoreInv

LEMMA PoolTimeoutKeeps ==
  ASSUME ~OneConnection, StoreInv, NEW s \in Sessions, PoolTimeout(s)
  PROVE  StoreInv'
<1>. USE SessionsDiffer, SessionKinds
<1>1. StoreTypeOK' /\ PollsWriteNothing'
  BY DEF PoolTimeout, StoreInv, StoreTypeOK, PollsWriteNothing
<1>2. ASSUME NEW r \in Runs PROVE PostInv(r)'
  BY <1>2 DEF PoolTimeout, StoreInv, StoreTypeOK, PostInv, PostStages, Jobs
<1>3. ASSUME NEW r \in Runs PROVE JobInv(r)'
  <2>1. UNCHANGED <<stored, pending, todo, ended>> /\ JobInv(r)
    BY DEF PoolTimeout, StoreInv
  <2>2. at[Post(r)] = "done" => at'[Post(r)] = "done"
    BY DEF PoolTimeout, StoreInv, StoreTypeOK
  <2>3. \/ at'[Job(r)] = at[Job(r)]
        \/ at[Job(r)] \in {"open", "handling"} /\ at'[Job(r)] \in {"handling", "failed"}
    BY DEF PoolTimeout, StoreInv, StoreTypeOK, Jobs
  <2>4. CASE at'[Job(r)] = at[Job(r)]
    <3>1. /\ PostInv(r) /\ Kept(r) /\ pending'[Job(r)] = pending[Job(r)]
          /\ todo'[r] = todo[r] /\ ended'[r] = ended[r]
      BY <2>1 DEF StoreInv, Kept
    <3>. QED
      BY <2>1, <2>2, <2>4, <3>1, JobUntouched
  <2>5. CASE at[Job(r)] \in {"open", "handling"} /\ at'[Job(r)] \in {"handling", "failed"}
    <3>1. /\ at[Post(r)] = "done" /\ pending[Job(r)] = Nothing /\ todo[r] = {} /\ ended[r] = "no"
          /\ r \in DOMAIN stored.row => stored.row[r] = "created"
          /\ r \notin stored.log
      BY <2>1, <2>5 DEF JobInv
    <3>2. /\ stored' = stored /\ pending'[Job(r)] = Nothing /\ todo'[r] = {} /\ ended'[r] = "no"
      BY <2>1, <3>1
    <3>. QED
      BY <2>2, <2>5, <3>1, <3>2 DEF JobInv, JobStages, PostStages
  <2>. QED
    BY <2>3, <2>4, <2>5
<1>4. ASSUME NEW r \in Runs PROVE PollInv(r)'
  BY <1>4 DEF PoolTimeout, StoreInv, StoreTypeOK, PollInv, PollStages, PostStages, Agrees, Jobs
<1>. QED
  BY <1>1, <1>2, <1>3, <1>4 DEF StoreInv

LEMMA InsertRowKeeps ==
  ASSUME ~OneConnection, StoreInv, NEW r \in Runs, InsertRow(r)
  PROVE  StoreInv'
<1>. USE SessionsDiffer, SessionKinds, OwnConnection, NothingIsEmpty
<1>1. StoreTypeOK' /\ PollsWriteNothing'
  BY DEF InsertRow, StoreInv, StoreTypeOK, PollsWriteNothing, Flush, Nothing
<1>2. ASSUME NEW q \in Runs PROVE PostInv(q)'
  BY <1>2 DEF InsertRow, StoreInv, StoreTypeOK, PostInv, PostStages, Flush, Nothing, Over, Status
<1>3. ASSUME NEW q \in Runs PROVE JobInv(q)'
  BY <1>3, JobUntouched DEF InsertRow, StoreInv, StoreTypeOK, Kept, Flush
<1>4. ASSUME NEW q \in Runs PROVE PollInv(q)'
  BY <1>4 DEF InsertRow, StoreInv, StoreTypeOK, PollInv, PollStages, PostStages, Agrees
<1>. QED
  BY <1>1, <1>2, <1>3, <1>4 DEF StoreInv

LEMMA StartJobKeeps ==
  ASSUME ~OneConnection, StoreInv, NEW r \in Runs, StartJob(r)
  PROVE  StoreInv'
<1>. USE SessionsDiffer, SessionKinds, OwnConnection, NothingIsEmpty
<1>. USE ViewOf
<1>1. StoreTypeOK' /\ PollsWriteNothing'
  BY DEF StartJob, StoreInv, StoreTypeOK, PollsWriteNothing, Outcomes
<1>2. ASSUME NEW q \in Runs PROVE PostInv(q)'
  BY <1>2 DEF StartJob, StoreInv, StoreTypeOK, PostInv, PostStages
<1>3. ASSUME NEW q \in Runs PROVE JobInv(q)'
  <2>1. JobInv(q) /\ PostInv(q)
    BY <1>3 DEF StoreInv
  <2>2. CASE q = r
    <3>1. /\ at[Job(r)] = "open" /\ at[Post(r)] = "done"
          /\ r \in DOMAIN stored.row /\ pending[Job(r)] = Nothing
      BY <2>1, <2>2 DEF StartJob, JobInv, PostInv
    <3>2. r \in DOMAIN View(Job(r)).row
      BY <3>1
    <3>3. PICK outcome \in Outcomes, writes \in {{"row"}, {"row", "log"}} :
            /\ outcome = "completed" => "log" \in writes
            /\ ended'[r] = outcome /\ todo'[r] = writes /\ at'[Job(r)] = "flushing"
      BY <3>2 DEF StartJob, StoreInv, StoreTypeOK
    <3>4. UNCHANGED <<stored, pending>> /\ at'[Post(r)] = at[Post(r)]
      BY DEF StartJob, StoreInv, StoreTypeOK
    <3>5. "row" \in todo'[r] /\ (ended'[r] = "completed" => "log" \in todo'[r])
      BY <3>3
    <3>6. Flushed(r)'
      BY <3>1, <3>4, <3>5 DEF Flushed
    <3>7. ended'[r] \in Outcomes /\ todo'[r] # {} /\ at'[Job(r)] = "flushing"
      BY <3>3
    <3>. QED
      BY <2>1, <2>2, <3>1, <3>4, <3>6, <3>7 DEF JobInv, JobStages
  <2>3. CASE ~(q = r)
    BY <1>3, <2>1, <2>3, JobUntouched DEF StartJob, StoreInv, StoreTypeOK, Kept
  <2>. QED
    BY <2>2, <2>3
<1>4. ASSUME NEW q \in Runs PROVE PollInv(q)'
  BY <1>4 DEF StartJob, StoreInv, StoreTypeOK, PollInv, PollStages, PostStages, Agrees
<1>. QED
  BY <1>1, <1>2, <1>3, <1>4 DEF StoreInv

LEMMA HandleErrorKeeps ==
  ASSUME ~OneConnection, StoreInv, NEW r \in Runs, HandleError(r)
  PROVE  StoreInv'
<1>. USE SessionsDiffer, SessionKinds, OwnConnection, NothingIsEmpty
<1>. USE ViewOf
<1>1. StoreTypeOK' /\ PollsWriteNothing'
  BY DEF HandleError, StoreInv, StoreTypeOK, PollsWriteNothing, Outcomes
<1>2. ASSUME NEW q \in Runs PROVE PostInv(q)'
  BY <1>2 DEF HandleError, StoreInv, StoreTypeOK, PostInv, PostStages
<1>3. ASSUME NEW q \in Runs PROVE JobInv(q)'
  <2>1. JobInv(q) /\ PostInv(q)
    BY <1>3 DEF StoreInv
  <2>2. CASE q = r
    BY <1>3, <2>1, <2>2 DEF HandleError, StoreInv, StoreTypeOK, JobInv, JobStages, PostStages, Flushed, Nothing, Outcomes, PostInv
  <2>3. CASE ~(q = r)
    BY <1>3, <2>1, <2>3, JobUntouched DEF HandleError, StoreInv, StoreTypeOK, Kept
  <2>. QED
    BY <2>2, <2>3
<1>4. ASSUME NEW q \in Runs PROVE PollInv(q)'
  BY <1>4 DEF HandleError, StoreInv, StoreTypeOK, PollInv, PollStages, PostStages, Agrees
<1>. QED
  BY <1>1, <1>2, <1>3, <1>4 DEF StoreInv

LEMMA FlushJobKeeps ==
  ASSUME ~OneConnection, StoreInv, NEW r \in Runs, FlushJob(r)
  PROVE  StoreInv'
<1>. USE SessionsDiffer, SessionKinds, OwnConnection, NothingIsEmpty
<1>1. StoreTypeOK' /\ PollsWriteNothing'
  BY DEF FlushJob, StoreInv, StoreTypeOK, PollsWriteNothing, Flush
<1>2. ASSUME NEW q \in Runs PROVE PostInv(q)'
  BY <1>2 DEF FlushJob, StoreInv, StoreTypeOK, PostInv, PostStages, Flush
<1>3. ASSUME NEW q \in Runs PROVE JobInv(q)'
  <2>1. JobInv(q) /\ PostInv(q)
    BY <1>3 DEF StoreInv
  <2>2. CASE q = r
    <3>1. PICK w \in todo[r] :
            /\ Flush(Job(r), IF w = "row" THEN [row |-> Status(r, ended[r]), log |-> {}]
                                          ELSE [row |-> <<>>, log |-> {r}])
            /\ todo' = [todo EXCEPT ![r] = @ \ {w}]
            /\ at' = [at EXCEPT ![Job(r)] = IF todo[r] = {w} THEN "committing" ELSE "flushing"]
      BY DEF FlushJob
    <3>2. w \in {"row", "log"} /\ todo[r] \subseteq {"row", "log"}
      BY <3>1 DEF StoreInv, StoreTypeOK
    <3>3. /\ todo'[r] = todo[r] \ {w} /\ ended' = ended /\ stored' = stored
          /\ at'[Post(r)] = at[Post(r)]
          /\ at'[Job(r)] = IF todo[r] = {w} THEN "committing" ELSE "flushing"
      BY <3>1 DEF FlushJob, StoreInv, StoreTypeOK
    <3>4. w = "row" => /\ DOMAIN pending'[Job(r)].row = {r} \cup DOMAIN pending[Job(r)].row
                       /\ pending'[Job(r)].row[r] = ended[r]
                       /\ pending'[Job(r)].log = pending[Job(r)].log
      BY <3>1 DEF Flush, Status, Over, StoreInv, StoreTypeOK
    <3>5. w = "log" => /\ DOMAIN pending'[Job(r)].row = DOMAIN pending[Job(r)].row
                       /\ \A x \in DOMAIN pending[Job(r)].row :
                            pending'[Job(r)].row[x] = pending[Job(r)].row[x]
                       /\ pending'[Job(r)].log = {r} \cup pending[Job(r)].log
      BY <3>1 DEF Flush, Over, StoreInv, StoreTypeOK
    <3>6. at[Job(r)] = "flushing"
      BY DEF FlushJob
    <3>7. Flushed(r)'
      BY <2>1, <2>2, <3>2, <3>3, <3>4, <3>5, <3>6 DEF JobInv, Flushed
    <3>. QED
      BY <2>1, <2>2, <3>1, <3>2, <3>3, <3>6, <3>7 DEF JobInv, JobStages, PostStages
  <2>3. CASE ~(q = r)
    BY <1>3, <2>1, <2>3, JobUntouched DEF FlushJob, StoreInv, StoreTypeOK, Kept, Flush
  <2>. QED
    BY <2>2, <2>3
<1>4. ASSUME NEW q \in Runs PROVE PollInv(q)'
  BY <1>4 DEF FlushJob, StoreInv, StoreTypeOK, PollInv, PollStages, PostStages, Agrees
<1>. QED
  BY <1>1, <1>2, <1>3, <1>4 DEF StoreInv

LEMMA PollRowKeeps ==
  ASSUME ~OneConnection, StoreInv, NEW r \in Runs \cup {NoRun}, PollRow(r)
  PROVE  StoreInv'
<1>. USE SessionsDiffer, SessionKinds, OwnConnection, NothingIsEmpty
<1>. USE ViewOf
<1>1. StoreTypeOK' /\ PollsWriteNothing'
  BY DEF PollRow, StoreInv, StoreTypeOK, PollsWriteNothing
<1>2. ASSUME NEW q \in Runs PROVE PostInv(q)'
  BY <1>2 DEF PollRow, StoreInv, StoreTypeOK, PostInv, PostStages
<1>3. ASSUME NEW q \in Runs PROVE JobInv(q)'
  BY <1>3, JobUntouched DEF PollRow, StoreInv, StoreTypeOK, Kept
<1>4. ASSUME NEW q \in Runs PROVE PollInv(q)'
  <2>1. PollInv(q) /\ PostInv(q) /\ JobInv(q)
    BY <1>4 DEF StoreInv
  <2>2. CASE q # r
    BY <1>4, <2>1, <2>2 DEF PollRow, StoreTypeOK, StoreInv, PollInv, Agrees
  <2>3. CASE q = r
    <3>1. at[Poll(r)] = "open" /\ at[Post(r)] = "done" /\ r \in DOMAIN stored.row
      BY <2>1, <2>3 DEF PollRow, PollInv, PostInv
    <3>2. stored.row[r] \in {"created", "completed", "failed"}
      BY <2>1, <2>3, <3>1 DEF JobInv, Outcomes
    <3>3. DOMAIN pending[Poll(r)].row = {}
      BY <1>4, <2>3 DEF StoreInv, PollsWriteNothing
    <3>4. LET rows == View(Poll(r)).row IN r \in DOMAIN rows /\ rows[r] = stored.row[r]
      BY <3>1, <3>3
    <3>5. \/ /\ at'[Poll(r)] = "committing"
             /\ \/ stored.row[r] = "created" /\ read'[Poll(r)] = "running"
                \/ stored.row[r] = "failed" /\ read'[Poll(r)] = "failed"
          \/ stored.row[r] = "completed" /\ at'[Poll(r)] = "reading"
      BY <1>4, <2>3, <3>2, <3>4 DEF PollRow, StoreInv, StoreTypeOK
    <3>6. UNCHANGED <<stored, told>> /\ at'[Post(r)] = at[Post(r)]
      BY <2>3 DEF PollRow, StoreInv, StoreTypeOK
    <3>. QED
      BY <2>1, <2>3, <3>1, <3>5, <3>6 DEF PollInv, Agrees, PollStages, PostStages
  <2>. QED
    BY <2>2, <2>3
<1>. QED
  BY <1>1, <1>2, <1>3, <1>4 DEF StoreInv

LEMMA PollStepsKeeps ==
  ASSUME ~OneConnection, StoreInv, NEW r \in Runs \cup {NoRun}, PollSteps(r)
  PROVE  StoreInv'
<1>. USE SessionsDiffer, SessionKinds, OwnConnection, NothingIsEmpty
<1>. USE ViewOf
<1>1. StoreTypeOK' /\ PollsWriteNothing'
  BY DEF PollSteps, StoreInv, StoreTypeOK, PollsWriteNothing
<1>2. ASSUME NEW q \in Runs PROVE PostInv(q)'
  BY <1>2 DEF PollSteps, StoreInv, StoreTypeOK, PostInv, PostStages
<1>3. ASSUME NEW q \in Runs PROVE JobInv(q)'
  BY <1>3, JobUntouched DEF PollSteps, StoreInv, StoreTypeOK, Kept
<1>4. ASSUME NEW q \in Runs PROVE PollInv(q)'
  BY <1>4 DEF PollSteps, StoreInv, StoreTypeOK, PollInv, PollStages, PostStages, Agrees, PostInv, JobInv, Outcomes, JobStages
<1>. QED
  BY <1>1, <1>2, <1>3, <1>4 DEF StoreInv

LEMMA RollbackKeeps ==
  ASSUME ~OneConnection, StoreInv, NEW s \in Sessions, Rollback(s)
  PROVE  StoreInv'
<1>. USE SessionsDiffer, SessionKinds, OwnConnection, NothingIsEmpty
<1>1. StoreTypeOK' /\ PollsWriteNothing'
  BY DEF Rollback, StoreInv, StoreTypeOK, PollsWriteNothing, Discard
<1>2. ASSUME NEW q \in Runs PROVE PostInv(q)'
  BY <1>2 DEF Rollback, StoreInv, StoreTypeOK, PostInv, PostStages, Discard, PollInv
<1>3. ASSUME NEW q \in Runs PROVE JobInv(q)'
  <2>1. JobInv(q) /\ PostInv(q)
    BY <1>3 DEF StoreInv
  <2>2. CASE s = Job(q)
    BY <1>3, <2>1, <2>2 DEF Rollback, StoreInv, StoreTypeOK, JobInv, JobStages, PostStages, Flushed, Discard
  <2>3. CASE ~(s = Job(q))
    BY <1>3, <2>1, <2>3, JobUntouched DEF Rollback, StoreInv, StoreTypeOK, Kept, Discard
  <2>. QED
    BY <2>2, <2>3
<1>4. ASSUME NEW q \in Runs PROVE PollInv(q)'
  BY <1>4 DEF Rollback, StoreInv, StoreTypeOK, PollInv, PollStages, PostStages, Agrees
<1>. QED
  BY <1>1, <1>2, <1>3, <1>4 DEF StoreInv

LEMMA ResetKeeps ==
  ASSUME ~OneConnection, StoreInv, NEW s \in Sessions, Reset(s)
  PROVE  StoreInv'
<1>. USE SessionsDiffer, SessionKinds, OwnConnection, NothingIsEmpty
<1>1. StoreTypeOK' /\ PollsWriteNothing'
  BY DEF Reset, StoreInv, StoreTypeOK, PollsWriteNothing, Discard
<1>2. ASSUME NEW q \in Runs PROVE PostInv(q)'
  BY <1>2 DEF Reset, StoreInv, StoreTypeOK, PostInv, PostStages, Discard
<1>3. ASSUME NEW q \in Runs PROVE JobInv(q)'
  <2>1. JobInv(q) /\ PostInv(q)
    BY <1>3 DEF StoreInv
  <2>2. CASE s = Job(q)
    BY <1>3, <2>1, <2>2 DEF Reset, StoreInv, StoreTypeOK, JobInv, JobStages, PostStages, Flushed, Discard
  <2>3. CASE ~(s = Job(q))
    BY <1>3, <2>1, <2>3, JobUntouched DEF Reset, StoreInv, StoreTypeOK, Kept, Discard, PostInv
  <2>. QED
    BY <2>2, <2>3
<1>4. ASSUME NEW q \in Runs PROVE PollInv(q)'
  BY <1>4 DEF Reset, StoreInv, StoreTypeOK, PollInv, PollStages, PostStages, Agrees
<1>. QED
  BY <1>1, <1>2, <1>3, <1>4 DEF StoreInv

\* A commit adds what its session has flushed, and nothing of another.
LEMMA CommitAdds ==
  ASSUME ~OneConnection, NEW s, Commit(s)
  PROVE  /\ DOMAIN stored'.row = DOMAIN pending[s].row \cup DOMAIN stored.row
         /\ \A x \in DOMAIN stored'.row :
              stored'.row[x] = IF x \in DOMAIN pending[s].row THEN pending[s].row[x]
                                                              ELSE stored.row[x]
         /\ stored'.log = stored.log \cup pending[s].log
<1>1. stored' = View(s)
  BY OwnConnection DEF Commit
<1>. QED
  BY <1>1, ViewOf

LEMMA CommitKeeps ==
  ASSUME ~OneConnection, StoreInv, NEW s \in Sessions, Commit(s)
  PROVE  StoreInv'
<1>. USE SessionsDiffer, SessionKinds, NothingIsEmpty
<1>0. /\ pending' = [pending EXCEPT ![s] = Nothing]
      /\ at[s] = "committing" /\ at' = [at EXCEPT ![s] = "resetting"]
      /\ UNCHANGED <<todo, ended, read, told>>
      /\ DOMAIN pending = Conns /\ DOMAIN at = Sessions
  BY OwnConnection DEF Commit, Discard, StoreInv, StoreTypeOK
<1>1. StoreTypeOK' /\ PollsWriteNothing'
  BY <1>0 DEF StoreInv, StoreTypeOK, PollsWriteNothing
<1>2. ASSUME NEW q \in Runs, s # Post(q), s # Job(q)
      PROVE  Kept(q)
  <2>1. q \notin DOMAIN pending[s].row /\ q \notin pending[s].log
    <3>1. CASE s \in Polls
      BY <3>1 DEF StoreInv, PollsWriteNothing
    <3>2. CASE \E r \in Runs : s = Post(r)
      BY <1>0, <1>2, <3>2 DEF StoreInv, PostInv
    <3>3. CASE \E r \in Runs : s = Job(r)
      <4>1. PICK r \in Runs : s = Job(r)
        BY <3>3
      <4>2. Flushed(r) /\ todo[r] = {} /\ r # q
        BY <1>0, <1>2, <4>1 DEF StoreInv, JobInv
      <4>. QED
        BY <4>1, <4>2 DEF Flushed
    <3>. QED
      BY <3>1, <3>2, <3>3
  <2>. QED
    BY <2>1, CommitAdds DEF Kept
<1>3. ASSUME NEW q \in Runs, s # Post(q), s # Job(q)
      PROVE  PostInv(q)' /\ JobInv(q)' /\ PollInv(q)'
  <2>1. Kept(q) /\ PostInv(q) /\ JobInv(q) /\ PollInv(q)
    BY <1>2, <1>3 DEF StoreInv
  <2>2. /\ at'[Post(q)] = at[Post(q)] /\ at'[Job(q)] = at[Job(q)]
        /\ pending'[Post(q)] = pending[Post(q)] /\ pending'[Job(q)] = pending[Job(q)]
        /\ todo'[q] = todo[q] /\ ended'[q] = ended[q]
    BY <1>0, <1>3
  <2>3. PostInv(q)'
    BY <2>1, <2>2 DEF PostInv, Kept
  <2>4. JobInv(q)'
    BY <2>1, <2>2, JobUntouched
  <2>5. PollInv(q)'
    BY <1>0, <1>3, <2>1, <2>2 DEF PollInv, PostInv, Kept, Agrees, PollStages, PostStages
  <2>. QED
    BY <2>3, <2>4, <2>5
<1>4. ASSUME NEW q \in Runs, s = Post(q)
      PROVE  PostInv(q)' /\ JobInv(q)' /\ PollInv(q)'
  <2>1. PostInv(q) /\ JobInv(q) /\ PollInv(q)
    BY DEF StoreInv
  <2>2. /\ q \in DOMAIN stored'.row /\ stored'.row[q] = "created"
        /\ stored'.log = stored.log
    BY <1>0, <1>4, <2>1, CommitAdds DEF PostInv
  <2>3. /\ at'[Post(q)] = "resetting" /\ at'[Job(q)] = at[Job(q)] /\ at'[Poll(q)] = at[Poll(q)]
        /\ pending'[Post(q)] = Nothing /\ pending'[Job(q)] = pending[Job(q)]
        /\ at[Post(q)] = "committing"
    BY <1>0, <1>4
  <2>4. PostInv(q)'
    BY <2>2, <2>3 DEF PostInv, PostStages
  <2>5. at[Job(q)] = "idle" /\ at[Poll(q)] = "idle" /\ told[q] \notin {"succeeded", "failed"}
    BY <2>1, <2>3 DEF JobInv, PollInv
  <2>6. JobInv(q)'
    BY <1>0, <2>1, <2>2, <2>3, <2>5 DEF JobInv
  <2>7. PollInv(q)'
    BY <1>0, <2>1, <2>2, <2>3, <2>5 DEF PollInv, Agrees
  <2>. QED
    BY <2>4, <2>6, <2>7
<1>5. ASSUME NEW q \in Runs, s = Job(q)
      PROVE  PostInv(q)' /\ JobInv(q)' /\ PollInv(q)'
  <2>1. PostInv(q) /\ JobInv(q) /\ PollInv(q)
    BY DEF StoreInv
  <2>2. /\ at[Post(q)] = "done" /\ q \in DOMAIN stored.row /\ stored.row[q] = "created"
        /\ ended[q] \in Outcomes /\ todo[q] = {} /\ Flushed(q)
    BY <1>0, <1>5, <2>1 DEF JobInv, PostInv
  <2>3. /\ q \in DOMAIN stored'.row /\ stored'.row[q] = ended[q]
        /\ ended[q] = "completed" => q \in stored'.log
    BY <1>5, <2>2, CommitAdds DEF Flushed
  <2>4. /\ at'[Post(q)] = at[Post(q)] /\ at'[Job(q)] = "resetting" /\ at'[Poll(q)] = at[Poll(q)]
        /\ pending'[Post(q)] = pending[Post(q)] /\ pending'[Job(q)] = Nothing
    BY <1>0, <1>5
  <2>5. PostInv(q)'
    BY <2>1, <2>2, <2>3, <2>4 DEF PostInv
  <2>6. JobInv(q)'
    BY <1>0, <2>2, <2>3, <2>4 DEF JobInv, JobStages, PostStages
  <2>7. PollInv(q)'
    BY <1>0, <2>1, <2>2, <2>3, <2>4 DEF PollInv, Agrees
  <2>. QED
    BY <2>5, <2>6, <2>7
<1>. QED
  BY <1>1, <1>3, <1>4, <1>5 DEF StoreInv

-----------------------------------------------------------------------------
\* The theorems

\* What holds at every point of every session: the row, the log and the answers
\* of a run are where its three sessions have got to.
THEOREM StoreInvariance ==
  ASSUME ~OneConnection
  PROVE  Spec => []StoreInv
<1>1. Init => StoreInv
  BY SessionKinds DEF Init, StoreInv, StoreTypeOK, PollsWriteNothing, PostInv, JobInv, PollInv,
     PostStages, JobStages, PollStages, Agrees, Nothing
<1>2. StoreInv /\ [Next]_vars => StoreInv'
  <2> SUFFICES ASSUME StoreInv, [Next]_vars PROVE StoreInv'
    OBVIOUS
  <2>1. CASE UNCHANGED vars
    <3>1. UNCHANGED <<stored, pending, at, todo, ended, read, told>>
      BY <2>1 DEF vars
    <3>2. StoreTypeOK' /\ PollsWriteNothing'
      BY <3>1 DEF StoreInv, StoreTypeOK, PollsWriteNothing
    <3>3. ASSUME NEW r \in Runs PROVE PostInv(r)' /\ JobInv(r)' /\ PollInv(r)'
      BY <3>1 DEF StoreInv, PostInv, JobInv, PollInv, Flushed, Agrees
    <3>. QED
      BY <3>2, <3>3 DEF StoreInv
  <2>2. ASSUME NEW s \in Sessions, Open(s) \/ Serve(s) PROVE StoreInv'
    BY <2>2, OpenKeeps, BuildEngineKeeps, PoolTimeoutKeeps, CommitKeeps, RollbackKeeps, ResetKeeps,
       InsertRowKeeps, StartJobKeeps, HandleErrorKeeps, FlushJobKeeps, PollRowKeeps, PollStepsKeeps
       DEF Serve
  <2>. QED
    BY <2>1, <2>2 DEF Next
<1>. QED
  BY <1>1, <1>2, PTL DEF Spec

\* The row of an accepted run is there for whoever polls (deps.py, get_engine).
THEOREM RowPersists ==
  ASSUME ~OneConnection
  PROVE  Spec => []AcceptedRowPersists
<1>1. StoreInv => AcceptedRowPersists
  BY DEF StoreInv, PostInv, AcceptedRowPersists
<1>. QED
  BY <1>1, StoreInvariance, PTL

\* The two reads of a poll see one state of the run: no run is told to have
\* succeeded without a result.
THEOREM ResultComesWithSuccess ==
  ASSUME ~OneConnection
  PROVE  Spec => []SuccessHasResult
<1>1. StoreInv => SuccessHasResult
  BY DEF StoreInv, PollInv, Agrees, SuccessHasResult
<1>. QED
  BY <1>1, StoreInvariance, PTL

\* Row and log of a run are stored together, as the job ended.
THEOREM OutcomeStored ==
  ASSUME ~OneConnection
  PROVE  Spec => []OutcomeIsStored
<1>1. StoreInv => OutcomeIsStored
  BY DEF StoreInv, PostInv, JobInv, Outcomes, OutcomeIsStored
<1>. QED
  BY <1>1, StoreInvariance, PTL

\* No answer rests on writes that were never committed.
THEOREM ToldStored ==
  ASSUME ~OneConnection
  PROVE  Spec => []ToldIsStored
<1>1. StoreInv => ToldIsStored
  BY DEF StoreInv, PostInv, PollInv, Agrees, ToldIsStored
<1>. QED
  BY <1>1, StoreInvariance, PTL
=============================================================================
