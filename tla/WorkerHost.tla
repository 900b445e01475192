----------------------------- MODULE WorkerHost -----------------------------
(***************************************************************************)
(* The one worker thread: worker/host.ts on the main thread (spawn on      *)
(* demand, relay, shutdown), worker/index.ts in the thread (a serial job   *)
(* queue of sweeps and enrichment passes), and the model's single-flight   *)
(* lock of llm/client.ts, which is a variable of the thread.               *)
(*                                                                         *)
(* The two talk by messages: a thread's `inbox' and its `events', each in  *)
(* order.  A crash is an `error' event and then an `exit' event, with the  *)
(* main thread's other callbacks free to run in between.                   *)
(***************************************************************************)
EXTENDS Naturals, Sequences, FiniteSets

CONSTANTS Accounts, Threads,
          MaxNudges,   \* bound: jobs posted besides the timers'
          MaxCrashes   \* bound: threads that die of an uncaught error

VARIABLES worker,     \* host's pointer to its thread
          current,    \* currentEnrichment: the thread it came from, or Nobody
          thread,     \* the threads
          host,       \* "up", "stopping" in shutdownWorker, "gone"
          due,        \* enrichment rows are due in the ledger
          spent       \* nudges and crashes used; was a pointer lost?

vars == <<worker, current, thread, host, due, spent>>

Nobody == "nobody"
Enrich == "enrich"
Shutdown == "shutdown"
NoJob == "no job"

Unborn == [life |-> "unborn", inbox |-> <<>>, queue |-> <<>>, active |-> NoJob,
           step |-> "none", events |-> <<>>]

Live(t) == thread[t].life \in {"up", "ending"}
Put(t, r) == thread' = [thread EXCEPT ![t] = r]
Post(r, e) == [r EXCEPT !.events = Append(@, e)]

\* drain: the next queued job becomes the active one.
Taken(r) ==
  IF r.queue = <<>> THEN [r EXCEPT !.active = NoJob, !.step = "none"]
  ELSE [r EXCEPT !.active = Head(r.queue), !.queue = Tail(@), !.step = "cheap"]

-----------------------------------------------------------------------------
(* Main thread *)

\* ensureWorker and postJob.  An orphan is a thread the pointer no longer names.
Posted(j) ==
  IF worker # Nobody
  THEN /\ thread' = [thread EXCEPT ![worker].inbox = Append(@, j)]
       /\ UNCHANGED worker
  ELSE \E t \in {x \in Threads : thread[x].life = "unborn"} :
         /\ thread' = [thread EXCEPT ![t].life = "up", ![t].inbox = <<j>>]
         /\ worker' = t

\* A sweep tick of an account's engine, or a resync that stored mail.  Bound: two messages
\* wait in an inbox.
Nudge(j) ==
  /\ host = "up" /\ spent.nudges < MaxNudges
  /\ worker # Nobody => Len(thread[worker].inbox) < 2
  /\ Posted(j)
  /\ due' = (due \/ j = Enrich)
  /\ spent' = [spent EXCEPT !.nudges = @ + 1]
  /\ UNCHANGED <<current, host>>

\* The periodic enrichment timer.
Tick ==
  /\ host = "up" /\ due
  /\ worker # Nobody => thread[worker].inbox = <<>>
  /\ Posted(Enrich)
  /\ UNCHANGED <<current, host, due, spent>>

\* Mutant: the pointer goes on naming the dead thread.
GoneKeepingThread(t) == current' = Nobody /\ UNCHANGED worker

\* `error' and `exit' both clear the pointer, whichever thread it names by now.
Gone(t) == worker' = Nobody /\ current' = Nobody

\* A message or an event of a thread reaches the host.
Relay(t) ==
  /\ host # "gone" /\ thread[t].events # <<>>
  /\ LET e == Head(thread[t].events) IN
     /\ Put(t, [thread[t] EXCEPT !.events = Tail(@)])
     /\ CASE e = "active" -> current' = t /\ UNCHANGED worker
          [] e = "done" -> current' = Nobody /\ UNCHANGED worker
          [] e = "sweep:done" -> UNCHANGED <<current, worker>>
          [] OTHER -> Gone(t)
     /\ spent' = [spent EXCEPT !.orphan = @ \/ (e = "exit" /\ worker \notin {Nobody, t})]
     /\ host' = IF host = "stopping" /\ e = "exit" /\ thread[t].life = "ended" THEN "gone" ELSE host
  /\ UNCHANGED due

\* shutdownWorker: forget the thread, ask it to end.
Stop ==
  /\ host = "up"
  /\ IF worker = Nobody THEN host' = "gone" /\ UNCHANGED <<worker, thread>>
     ELSE /\ host' = "stopping" /\ worker' = Nobody
          /\ thread' = [thread EXCEPT ![worker].inbox = Append(@, Shutdown)]
  /\ UNCHANGED <<current, due, spent>>

\* A resync that was running when the engines were stopped stores its mail.
LateNudge ==
  /\ host = "stopping" /\ spent.nudges < MaxNudges
  /\ worker # Nobody => Len(thread[worker].inbox) < 2
  /\ Posted(Enrich)
  /\ due' = TRUE
  /\ spent' = [spent EXCEPT !.nudges = @ + 1, !.late = TRUE]
  /\ UNCHANGED <<current, host>>

\* Five seconds: terminate, and exit whatever the thread was doing.
Terminate ==
  /\ host = "stopping" /\ host' = "gone"
  /\ UNCHANGED <<worker, current, thread, due, spent>>

-----------------------------------------------------------------------------
(* In the thread *)

Queued(r, j) == r.active = j \/ \E i \in DOMAIN r.queue : r.queue[i] = j

\* port.on('message'): a sweep is dropped when the account's is queued or running, a pass
\* when any is; a free thread takes the job in the same turn.
Receive(t) ==
  /\ host # "gone" /\ thread[t].life = "up" /\ thread[t].inbox # <<>>
  /\ LET j == Head(thread[t].inbox)
         r == [thread[t] EXCEPT !.inbox = Tail(@)] IN
     Put(t, IF j = Shutdown THEN [r EXCEPT !.queue = <<>>, !.life = "ending"]
           ELSE IF Queued(r, j) THEN r
           ELSE IF r.active = NoJob THEN Taken([r EXCEPT !.queue = Append(@, j)])
           ELSE [r EXCEPT !.queue = Append(@, j)])
  /\ UNCHANGED <<worker, current, host, due, spent>>

Does(t, j) == host # "gone" /\ Live(t) /\ thread[t].active = j

\* runSweep: whatever failed is logged, the connection is closed, the end is posted.
EndSweep(t) ==
  /\ host # "gone" /\ Live(t) /\ thread[t].active \in Accounts
  /\ Put(t, Post(Taken(thread[t]), "sweep:done"))
  /\ UNCHANGED <<worker, current, host, due, spent>>

\* runEnrich, its first phase: passes until nothing is due, then the slow ones.
DrainCheap(t) ==
  /\ Does(t, Enrich) /\ thread[t].step = "cheap"
  /\ due' = FALSE
  /\ Put(t, [thread[t] EXCEPT !.step = IF due THEN @ ELSE "llm"])
  /\ UNCHANGED <<worker, current, host, spent>>

\* A pass throws: reported, and on to the second phase.
DrainFails(t) ==
  /\ Does(t, Enrich) /\ thread[t].step = "cheap" /\ spent.crashes < MaxCrashes
  /\ Put(t, [thread[t] EXCEPT !.step = "llm"])
  /\ spent' = [spent EXCEPT !.crashes = @ + 1]
  /\ UNCHANGED <<worker, current, host, due>>

\* runExclusive: one generation at a time in this thread; onRowStart says which.
Generate(t) ==
  /\ Does(t, Enrich) /\ thread[t].step = "llm"
  /\ Put(t, Post([thread[t] EXCEPT !.step = "generating"], "active"))
  /\ UNCHANGED <<worker, current, host, due, spent>>

\* The batch ended, answered or timed out.
Ended(t) == Post(Taken(thread[t]), "done")

EndEnrich(t) ==
  /\ Does(t, Enrich) /\ thread[t].step \in {"llm", "generating"}
  /\ Put(t, Ended(t))
  /\ UNCHANGED <<worker, current, host, due, spent>>

\* exitWhenIdle polls `running'.
ExitIdle(t) ==
  /\ host # "gone" /\ thread[t].life = "ending" /\ thread[t].active = NoJob
  /\ Put(t, Post([thread[t] EXCEPT !.life = "ended"], "exit"))
  /\ UNCHANGED <<worker, current, host, due, spent>>

Crash(t) ==
  /\ host # "gone" /\ Live(t) /\ spent.crashes < MaxCrashes
  /\ Put(t, [Post(Post(thread[t], "error"), "exit") EXCEPT
               !.life = "crashed", !.inbox = <<>>, !.queue = <<>>, !.active = NoJob, !.step = "none"])
  /\ spent' = [spent EXCEPT !.crashes = @ + 1]
  /\ UNCHANGED <<worker, current, host, due>>

-----------------------------------------------------------------------------

Init ==
  /\ worker = Nobody /\ current = Nobody /\ host = "up" /\ due = FALSE
  /\ thread = [t \in Threads |-> Unborn]
  /\ spent = [nudges |-> 0, crashes |-> 0, orphan |-> FALSE, late |-> FALSE]

Next ==
  \/ \E j \in Accounts \cup {Enrich} : Nudge(j)
  \/ Tick \/ Stop \/ LateNudge \/ Terminate
  \/ \E t \in Threads : \/ Relay(t) \/ Receive(t) \/ EndSweep(t) \/ DrainCheap(t) \/ DrainFails(t)
                        \/ Generate(t) \/ EndEnrich(t) \/ ExitIdle(t) \/ Crash(t)

\* The timer ticks, the loops turn, jobs end: every generation and every IMAP call is
\* bounded by a timeout.
Spec == Init /\ [][Next]_vars
FairSpec ==
  /\ Spec /\ WF_vars(Tick)
  /\ \A t \in Threads : /\ WF_vars(Relay(t)) /\ WF_vars(Receive(t)) /\ WF_vars(EndSweep(t))
                        /\ WF_vars(DrainCheap(t)) /\ WF_vars(EndEnrich(t))

-----------------------------------------------------------------------------
(* Properties *)

\* A lost nudge only delays work (worker/host.ts:100): rows due are drained though nudges
\* are coalesced, threads die with their inbox and the pointer is lost, until the server
\* stops (or the instance has no thread left).
DueIsDrained == due ~> (~due \/ host # "up"
                  \/ (worker = Nobody /\ \A t \in Threads : thread[t].life # "unborn"))

\* One heavy operation at a time across the process, and one generation (worker/index.ts:14,
\* llm/client.ts:11), while the server is up.
OneHeavyOp == host = "up" => Cardinality({t \in Threads : Live(t) /\ thread[t].active # NoJob}) <= 1

=============================================================================
