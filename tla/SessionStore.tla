------------------------------ MODULE SessionStore ------------------------------
(***************************************************************************)
(* The database sessions of several requests and jobs at once.  Every unit *)
(* of work (run_service.py, _unit_of_work) is a session in a thread of the *)
(* one thread pool: it opens on the engine, checks out a connection with   *)
(* its first statement, flushes its writes when it commits, and gives the  *)
(* connection back, which the pool then rolls back.                        *)
(*                                                                         *)
(* With a database server the engine has a bounded pool of connections,    *)
(* for which a session waits until the pool's timeout; a job keeps its     *)
(* connection for the whole run.  The default store of deps.py is one      *)
(* in-memory SQLite connection for all sessions, and a commit or a         *)
(* rollback ends whatever is unfinished on it, by whomever.                *)
(*                                                                         *)
(* The runner is left out but for the outcome it reaches: AgentRunner and  *)
(* RunService have it.  Any statement of a session may come between two of *)
(* another.                                                                *)
(***************************************************************************)
EXTENDS Naturals, FiniteSets

CONSTANTS
  Runs,
  NoRun,          \* an id that no run has
  Threads,        \* the threads that requests and jobs share
  PoolSize,       \* the connections of the engine's pool
  OneConnection,  \* the default store: all sessions share one connection
  Cold            \* has nobody used the engine yet?

ASSUME StoreAssumption ==
  /\ IsFiniteSet(Runs)
  /\ NoRun \notin Runs
  /\ Threads \in Nat \ {0} /\ PoolSize \in Nat \ {0}
  /\ OneConnection \in BOOLEAN /\ Cold \in BOOLEAN

\* The session of a POST, that of the job it schedules, and that of a poll by
\* the client of a run, or by one with a wrong id.
Post(r) == <<"post", r>>
Job(r) == <<"job", r>>
Poll(r) == <<"poll", r>>
Posts == {Post(r) : r \in Runs}
Jobs == {Job(r) : r \in Runs}
Polls == {Poll(r) : r \in Runs \cup {NoRun}}
Sessions == Posts \cup Jobs \cup Polls

\* The one connection of the default store.
Shared == <<"engine", NoRun>>

\* A capped run is one of the failed here: polls tell no difference.
Outcomes == {"completed", "failed"}
Nothing == [row |-> <<>>, log |-> {}]

\* The row of one run, and rows where the later ones hide the earlier.
Status(r, status) == [q \in {r} |-> status]
Over(f, g) ==
  [x \in DOMAIN f \cup DOMAIN g |-> IF x \in DOMAIN f THEN f[x] ELSE g[x]]

VARIABLES
  stored,   \* what is committed: the status of each row, and the runs with a log
  pending,  \* by connection, what has been flushed since its last commit
  cached,   \* get_engine has an engine to return
  own,      \* the sessions on an engine that nobody else will get
  held,     \* the sessions that have a connection of the pool
  at,       \* where each session stands
  todo,     \* by run, what its job has still to flush
  ended,    \* by run, how it ended: an outcome, and whether it has steps
  read,     \* by poll, what it has read of the run
  told      \* by run, the latest answer to a poll

engine == <<cached, own>>
vars == <<stored, pending, engine, held, at, todo, ended, read, told>>

\* A session that opens on an engine of its own has its connection to itself, and
\* its in-memory database too.
Private(s) == OneConnection /\ s \in own

\* The connection a session works on.  An operator marked "Mutant" is a plausible
\* bug that only the mutation runs use.
\* Mutant: that of the engine, whatever the store.
ConnOfEngine(s) == Shared
Conn(s) == IF OneConnection /\ ~Private(s) THEN Shared ELSE s
Conns == {Shared} \cup Sessions

\* What a session reads: the committed state under what its connection holds.
\* Mutant: what any connection holds.
Committed(s) == IF Private(s) THEN Nothing ELSE stored
ViewUncommitted(s) ==
  [row |-> IF \E c \in Conns : pending[c].row # <<>>
           THEN LET c == CHOOSE c \in Conns : pending[c].row # <<>>
                IN  Over(pending[c].row, stored.row)
           ELSE stored.row,
   log |-> stored.log \cup pending[Conn(s)].log]
View(s) ==
  [row |-> Over(pending[Conn(s)].row, Committed(s).row),
   log |-> Committed(s).log \cup pending[Conn(s)].log]

Flush(s, new) ==
  pending' = [pending EXCEPT ![Conn(s)] =
                [row |-> Over(new.row, @.row), log |-> new.log \cup @.log]]

Discard(s) == pending' = [pending EXCEPT ![Conn(s)] = Nothing]

\* The pool of an engine.  StaticPool has no limit, and neither has an engine
\* with one session.
Pooled(s) == ~OneConnection /\ s \notin own
Exhausted(s) == Pooled(s) /\ Cardinality(held) >= PoolSize
CheckOut(s) == ~Exhausted(s) /\ held' = IF Pooled(s) THEN held \cup {s} ELSE held

Working(s) == at[s] \notin {"idle", "done", "failed"}

Init ==
  /\ stored = Nothing
  /\ pending = [c \in Conns |-> Nothing]
  /\ cached = ~Cold /\ own = {} /\ held = {}
  /\ at = [s \in Sessions |-> "idle"]
  /\ todo = [r \in Runs |-> {}]
  /\ ended = [r \in Runs |-> "no"]
  /\ read = [s \in Polls |-> "none"]
  /\ told = [r \in Runs |-> "none"]

-----------------------------------------------------------------------------
\* Opening a session

\* A request comes in, a job is taken up, a client polls (again), when there is
\* a thread for it.
Ready(s) ==
  /\ at[s] = "idle"
  /\ \A r \in Runs : s \in {Job(r), Poll(r)} => at[Post(r)] = "done"

\* get_engine is cached, but nothing keeps two threads from missing together ...
Open(s) ==
  /\ Ready(s)
  /\ Cardinality({u \in Sessions : Working(u)}) < Threads
  /\ at' = [at EXCEPT ![s] = IF cached THEN "open" ELSE "building"]
  /\ UNCHANGED <<stored, pending, engine, held, todo, ended, read, told>>

\* ... and then each gets the engine it has built, of which one is kept.
BuildEngine(s) ==
  /\ at[s] = "building"
  /\ at' = [at EXCEPT ![s] = "open"]
  /\ cached' = TRUE
  /\ own' = IF cached THEN own \cup {s} ELSE own
  /\ UNCHANGED <<stored, pending, held, todo, ended, read, told>>

\* A session waits for a connection longer than the pool lets it.  That takes a
\* run: requests give theirs back long before.  A request ends with 500; a job
\* whose run() could not read the row tries once more in its except clause.
PoolTimeout(s) ==
  /\ at[s] \in {"open", "handling"}
  /\ Exhausted(s)
  /\ held \cap Jobs # {}
  /\ at' = [at EXCEPT ![s] = CASE \E r \in Runs : s = Poll(r) -> "idle"
                               [] s \in Jobs /\ at[s] = "open" -> "handling"
                               [] OTHER -> "failed"]
  /\ UNCHANGED <<stored, pending, engine, held, todo, ended, read, told>>

-----------------------------------------------------------------------------
\* The units of work, statement by statement

\* start_run: the commit flushes the new row.
InsertRow(r) ==
  /\ at[Post(r)] = "open"
  /\ CheckOut(Post(r))
  /\ Flush(Post(r), [row |-> Status(r, "created"), log |-> {}])
  /\ at' = [at EXCEPT ![Post(r)] = "committing"]
  /\ UNCHANGED <<stored, engine, todo, ended, read, told>>

\* _execute: the row is read, the run goes its way, and its outcome and steps
\* are to be flushed; only a run that made a call has steps.  Without a row
\* nothing is persisted.
StartJob(r) ==
  /\ at[Job(r)] = "open"
  /\ CheckOut(Job(r))
  /\ IF r \in DOMAIN View(Job(r)).row
     THEN \E outcome \in Outcomes, writes \in {{"row"}, {"row", "log"}} :
            /\ outcome = "completed" => "log" \in writes
            /\ ended' = [ended EXCEPT ![r] = outcome]
            /\ todo' = [todo EXCEPT ![r] = writes]
            /\ at' = [at EXCEPT ![Job(r)] = "flushing"]
     ELSE /\ at' = [at EXCEPT ![Job(r)] = "committing"]
          /\ UNCHANGED <<ended, todo>>
  /\ UNCHANGED <<stored, pending, engine, read, told>>

\* The except clause of _execute, when the run could not be read: if the row can
\* be read now, it is marked failed.
HandleError(r) ==
  /\ at[Job(r)] = "handling"
  /\ CheckOut(Job(r))
  /\ IF r \in DOMAIN View(Job(r)).row
     THEN /\ ended' = [ended EXCEPT ![r] = "failed"]
          /\ todo' = [todo EXCEPT ![r] = {"row"}]
          /\ at' = [at EXCEPT ![Job(r)] = "flushing"]
     ELSE /\ at' = [at EXCEPT ![Job(r)] = "committing"]
          /\ UNCHANGED <<ended, todo>>
  /\ UNCHANGED <<stored, pending, engine, read, told>>

\* The flush: an UPDATE of the row and an INSERT of the steps.  The mappings
\* declare no relationship, so nothing says which comes first.
FlushJob(r) ==
  /\ at[Job(r)] = "flushing"
  /\ \E w \in todo[r] :
       /\ Flush(Job(r), IF w = "row" THEN [row |-> Status(r, ended[r]), log |-> {}]
                                     ELSE [row |-> <<>>, log |-> {r}])
       /\ todo' = [todo EXCEPT ![r] = @ \ {w}]
       /\ at' = [at EXCEPT ![Job(r)] = IF todo[r] = {w} THEN "committing" ELSE "flushing"]
  /\ UNCHANGED <<stored, engine, held, ended, read, told>>

\* get_run: the row is read; a completed one needs a second read.
PollRow(r) ==
  /\ at[Poll(r)] = "open"
  /\ CheckOut(Poll(r))
  /\ LET rows == View(Poll(r)).row
         answers(stage, answer) ==
           /\ at' = [at EXCEPT ![Poll(r)] = stage]
           /\ read' = [read EXCEPT ![Poll(r)] = answer]
     IN  CASE r \notin DOMAIN rows -> answers("undoing", "missing")
           [] r \in DOMAIN rows /\ rows[r] = "created" -> answers("committing", "running")
           [] r \in DOMAIN rows /\ rows[r] = "completed" -> answers("reading", "succeeded")
           [] OTHER -> answers("committing", "failed")
  /\ UNCHANGED <<stored, pending, engine, todo, ended, told>>

PollSteps(r) ==
  /\ at[Poll(r)] = "reading"
  /\ at' = [at EXCEPT ![Poll(r)] = "committing"]
  /\ read' = [read EXCEPT ![Poll(r)] =
                IF r \in View(Poll(r)).log THEN "succeeded" ELSE "empty"]
  /\ UNCHANGED <<stored, pending, engine, held, todo, ended, told>>

\* The commit ends what is unfinished on the connection ...
\* Mutant: but for the steps.
CommitRows(s) ==
  /\ at[s] = "committing"
  /\ stored' = [stored EXCEPT !.row = Over(pending[Conn(s)].row, @)]
  /\ Discard(s)
  /\ at' = [at EXCEPT ![s] = "resetting"]
  /\ UNCHANGED <<engine, held, todo, ended, read, told>>
Commit(s) ==
  /\ at[s] = "committing"
  /\ stored' = IF Private(s) THEN stored ELSE View(s)
  /\ Discard(s)
  /\ at' = [at EXCEPT ![s] = "resetting"]
  /\ UNCHANGED <<engine, held, todo, ended, read, told>>

\* ... a poll that found nothing rolls it back (RunNotFoundError) ...
\* Mutant: and never closes its session.
RollbackOnly(s) ==
  /\ at[s] = "undoing"
  /\ Discard(s)
  /\ at' = [at EXCEPT ![s] = "done"]
  /\ UNCHANGED <<stored, engine, held, todo, ended, read, told>>
Rollback(s) ==
  /\ at[s] = "undoing"
  /\ Discard(s)
  /\ at' = [at EXCEPT ![s] = "resetting"]
  /\ UNCHANGED <<stored, engine, held, todo, ended, read, told>>

\* ... and so does the pool when it gets the connection back.  Then the caller
\* has its answer.  A client whose run is not over polls again.
Reset(s) ==
  /\ at[s] = "resetting"
  /\ Discard(s)
  /\ held' = held \ {s}
  /\ own' = own \ {s}
  /\ at' = [at EXCEPT ![s] = IF \E r \in Runs : s = Poll(r) /\ read[s] = "running"
                             THEN "idle" ELSE "done"]
  /\ told' = [r \in Runs |-> IF s = Poll(r) THEN read[s] ELSE told[r]]
  /\ read' = [u \in Polls |-> IF u = s THEN "none" ELSE read[u]]
  /\ UNCHANGED <<stored, cached, todo, ended>>

\* The steps of a session once it has its thread.
Serve(s) ==
  \/ BuildEngine(s) \/ PoolTimeout(s) \/ Commit(s) \/ Rollback(s) \/ Reset(s)
  \/ \E r \in Runs : \/ s = Post(r) /\ InsertRow(r)
                     \/ s = Job(r) /\ (StartJob(r) \/ HandleError(r) \/ FlushJob(r))
  \/ \E r \in Runs \cup {NoRun} : s = Poll(r) /\ (PollRow(r) \/ PollSteps(r))

Next == \E s \in Sessions : Open(s) \/ Serve(s)

Spec == Init /\ [][Next]_vars

\* A thread that can go on does; a job and a client that waits for its run come
\* to their turn; and what waits for a connection gets one in the end or times
\* out, for waiters are woken in order.  Nobody has to send a request.
Fairness ==
  /\ \A r \in Runs : WF_vars(Serve(Post(r))) /\ WF_vars(Serve(Poll(r)))
  /\ \A r \in Runs : SF_vars(Serve(Job(r)))
  /\ SF_vars(Serve(Poll(NoRun)))
  /\ \A r \in Runs : WF_vars(Open(Job(r))) /\ WF_vars(Open(Poll(r)))

FairSpec == Spec /\ Fairness

-----------------------------------------------------------------------------
\* Properties

\* deps.py, get_engine: "the run row persists across the POST -> background ->
\* GET request boundary", however many clients there are.
AcceptedRowPersists == \A r \in Runs : at[Post(r)] = "done" => r \in DOMAIN stored.row

\* schemas.py, AgentRunResponse: a terminal run "carries either result
\* (succeeded) or error": the two reads of a poll see one state of the run.
SuccessHasResult == \A r \in Runs : told[r] # "empty"

\* The row and the log of a run whose job is over are stored together, as the
\* run ended (one unit of work per job); a run whose job never got a connection
\* is stored as it was accepted.
OutcomeIsStored ==
  \A r \in Runs :
    /\ at[Job(r)] = "done" /\ ended[r] # "no" =>
         /\ r \in DOMAIN stored.row /\ stored.row[r] = ended[r]
         /\ ended[r] = "completed" => r \in stored.log
    /\ at[Job(r)] = "failed" => stored.row[r] = "created" /\ r \notin stored.log

\* What a client has been told of an outcome is what is stored: no answer rests
\* on writes that were never committed.
ToldIsStored ==
  \A r \in Runs : told[r] \in {"succeeded", "failed"} =>
    /\ r \in DOMAIN stored.row
    /\ told[r] = "succeeded" <=> stored.row[r] = "completed"
    /\ stored.row[r] # "created"

\* Whatever runs, requests and wrong ids compete for threads and connections, the
\* client of an accepted run that goes on polling is told how it ended, unless
\* its job twice got no connection in time.
AcceptedIsTold ==
  \A r \in Runs :
    at[Post(r)] = "done" ~> told[r] \in {"succeeded", "failed"} \/ at[Job(r)] = "failed"
=============================================================================
