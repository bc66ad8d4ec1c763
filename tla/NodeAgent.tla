------------------------------- MODULE NodeAgent -------------------------------
(***************************************************************************)
(* The panel and the agent of one node (services/node_tasks.py,            *)
(* services/agent.py, agent_api.py, agent/*.go).  The agent reports every  *)
(* interval; the panel holds its answer until there is a task, the agent   *)
(* carries the tasks out and acknowledges them in its next report.  A      *)
(* caller whose task is not acknowledged in time does the work over SSH.   *)
(* The same reports carry the Hysteria2 traffic, which whoever reads it    *)
(* resets: the agent once the panel allowed it, the panel's SSH sweep      *)
(* while the agent is silent.                                              *)
(*                                                                         *)
(* One action is a transaction or a step of the event loop of the panel,   *)
(* an exchange with the node, or a step of the agent.  Time is not         *)
(* measured: a timer may fire at any moment at which it runs.              *)
(***************************************************************************)
EXTENDS Naturals, FiniteSets

CONSTANTS
  Calls,       \* pieces of work for the node, each asked for once
  Handlers,    \* requests to /node/report the panel serves at a time
  NoHandler,
  MaxUsed,     \* bound on the units of traffic
  MaxTrouble   \* bound on losses, failures, restarts and crashes together

ASSUME NodeAssumption ==
  /\ NoHandler \notin Handlers
  /\ MaxUsed \in Nat
  /\ MaxTrouble \in Nat

\* The panel: callers and their tasks.
VARIABLES
  call,      \* where the caller is; it ended with the work done, or failed
  row,       \* the task's row: open, or closed with ok or with an error
  sent,      \* rows with sent_at
  told,      \* callers whose threading.Event is set

\* The panel: the reports it serves, each in a coroutine.
  event,     \* the asyncio.Event of the node
  wakes,     \* submits whose call_soon the loop has not run yet
  req,       \* where the handler of a report is
  load,      \* what the report brought and the handler has not dealt with yet
  batch,     \* the tasks it has read

\* The agent.
  at, conn,  \* idle, sending to handler conn, or running tasks
  took,      \* its report in flight carries traffic, the counters being reset
  acks,      \* acknowledgements not yet delivered
  todo,      \* tasks of the last answer not yet run
  account,   \* the panel allowed it to reset the counters
  pend,      \* traffic it took and the panel did not confirm
  runs,      \* how often it carried a task out
  applied,   \* the work the node has done, by the agent or over SSH

\* The traffic of the node.
  used, counter,
  seen, covered,   \* the panel has a fresh snapshot, and it carries traffic
  hand,      \* traffic the SSH sweep has read
  credited,  \* traffic written to the accounts
  gone,      \* traffic lost with a process, a failed collection or a failed booking
  repeated,  \* traffic of the reports whose answer never came

  trouble

tasks   == <<call, row, sent, told>>
serving == <<event, wakes, req, load, batch>>
agent   == <<at, conn, took, acks, todo, account, pend, runs>>
traffic == <<used, counter, seen, covered, hand, credited, gone, repeated>>
vars    == <<tasks, serving, agent, applied, traffic, trouble>>

Closed  == {"ok", "failed"}
Asking  == {"stored", "submitted", "registered", "checked", "waiting"}
Ended   == {"done", "failed"}
Empty   == [acks |-> {}, delta |-> 0, cleared |-> FALSE]

Init ==
  /\ call = [c \in Calls |-> "idle"]
  /\ row  = [c \in Calls |-> "absent"]
  /\ sent = {} /\ told = {}
  /\ event = FALSE /\ wakes = {}
  /\ req   = [h \in Handlers |-> "free"]
  /\ load  = [h \in Handlers |-> Empty]
  /\ batch = [h \in Handlers |-> {}]
  /\ at = "idle" /\ conn = NoHandler /\ took = FALSE
  /\ acks = {} /\ todo = {} /\ account = FALSE /\ pend = 0
  /\ runs = [c \in Calls |-> 0]
  /\ applied = {}
  /\ used = 0 /\ counter = 0 /\ hand = 0
  /\ seen = FALSE /\ covered = FALSE
  /\ credited = 0 /\ gone = 0 /\ repeated = 0
  /\ trouble = 0

Trouble ==
  /\ trouble < MaxTrouble
  /\ trouble' = trouble + 1

--------------------------------------------------------------------------------
(* The caller: node_tasks.run, and what its callers do with the answer     *)

CallAt(c, from, to) ==
  /\ call[c] = from
  /\ call' = [call EXCEPT ![c] = to]

\* With a fresh agent the task is committed...
Ask(c) ==
  /\ seen
  /\ CallAt(c, "idle", "stored")
  /\ row' = [row EXCEPT ![c] = "open"]
  /\ UNCHANGED <<sent, told, serving, agent, applied, traffic, trouble>>

\* ...without one the work is done over SSH.
AskSsh(c) ==
  /\ ~seen
  /\ CallAt(c, "idle", "ssh")
  /\ UNCHANGED <<row, sent, told, serving, agent, applied, traffic, trouble>>

\* wake: the loop is asked to set the event.
Wake(c) ==
  /\ CallAt(c, "stored", "submitted")
  /\ wakes' = wakes \union {c}
  /\ UNCHANGED <<row, sent, told, event, req, load, batch, agent, applied, traffic, trouble>>

Register(c) ==
  /\ CallAt(c, "submitted", "registered")
  /\ UNCHANGED <<row, sent, told, serving, agent, applied, traffic, trouble>>

\* Variant: the caller passes on what the row says.
Answer_RowWord(c) == row[c]

\* Variant: an answer is an answer, whether the task succeeded or not.
Answer_AnyAck(c) == IF row[c] \in Closed THEN "done" ELSE "ssh"

\* _via_agent: the work is done if the agent says so, else it goes over SSH.
Answer(c) == IF row[c] = "ok" THEN "done" ELSE "ssh"

\* The acknowledgement may have come before the caller could be told of it.
CheckEarly(c) ==
  /\ CallAt(c, "registered", IF row[c] \in Closed THEN Answer(c) ELSE "checked")
  /\ told' = IF row[c] \in Closed THEN told \ {c} ELSE told
  /\ UNCHANGED <<row, sent, serving, agent, applied, traffic, trouble>>

StartWaiting(c) ==
  /\ CallAt(c, "checked", "waiting")
  /\ UNCHANGED <<row, sent, told, serving, agent, applied, traffic, trouble>>

Heard(c) ==
  /\ c \in told
  /\ CallAt(c, "waiting", Answer(c))
  /\ told' = told \ {c}
  /\ UNCHANGED <<row, sent, serving, agent, applied, traffic, trouble>>

\* Variant: the caller waits for as long as the agent is fresh.
TimeOut_WhenSilent(c) ==
  /\ ~seen
  /\ c \notin told
  /\ CallAt(c, "waiting", "ssh")
  /\ UNCHANGED <<row, sent, told, serving, agent, applied, traffic, trouble>>

TimeOut(c) ==
  /\ c \notin told
  /\ CallAt(c, "waiting", "ssh")
  /\ UNCHANGED <<row, sent, told, serving, agent, applied, traffic, trouble>>

\* The work over SSH succeeds, or raises to the caller's caller.
Ssh(c) ==
  /\ CallAt(c, "ssh", "done")
  /\ applied' = applied \union {c}
  /\ UNCHANGED <<row, sent, told, serving, agent, traffic, trouble>>

SshFails(c) ==
  /\ CallAt(c, "ssh", "failed")
  /\ UNCHANGED <<row, sent, told, serving, agent, applied, traffic, trouble>>

\* expire_stale: two minutes after a task its caller, who waits eight seconds, is gone.
Expire(c) ==
  /\ row[c] = "open"
  /\ call[c] \notin Asking
  /\ row' = [row EXCEPT ![c] = "failed"]
  /\ UNCHANGED <<call, sent, told, serving, agent, applied, traffic, trouble>>

--------------------------------------------------------------------------------
(* A report: the agent collects and sends, the panel accepts               *)

\* Variant: the new deltas replace the ones the panel has not confirmed.
Collect_Overwrites(ok) ==
  /\ counter' = IF account THEN 0 ELSE counter
  /\ pend' = IF account /\ ok THEN counter ELSE pend
  /\ gone' = IF account /\ ~ok THEN gone + counter ELSE gone

\* What the agent takes from the counters: all of it when it may reset them.
Collect(ok) ==
  /\ counter' = IF account THEN 0 ELSE counter
  /\ pend' = IF account /\ ok THEN pend + counter ELSE pend
  /\ gone' = IF account /\ ~ok THEN gone + counter ELSE gone

\* Coroutines have no names: a request takes any free slot.
Slot == CHOOSE h \in Handlers : req[h] = "free" \/ \A g \in Handlers : req[g] # "free"

\* Hysteria2 may answer the reset and fail the next question: the collection fails.
Send(h, ok) ==
  /\ at = "idle"
  /\ h = Slot /\ req[h] = "free"
  /\ IF ok THEN UNCHANGED trouble ELSE Trouble
  /\ Collect(ok)
  /\ at' = "sending"
  /\ conn' = h
  /\ req' = [req EXCEPT ![h] = "arrived"]
  /\ took' = (account /\ ok)
  /\ load' = [load EXCEPT ![h] =
       [acks |-> acks, cleared |-> took', delta |-> IF took' THEN pend' ELSE 0]]
  /\ UNCHANGED <<tasks, event, wakes, batch, acks, todo, account, runs, applied,
                 used, seen, covered, hand, credited, repeated>>

\* Variant: what was collected is forgotten when the panel does not answer.
SendLost_Forgets ==
  /\ at = "idle"
  /\ Trouble
  /\ counter' = IF account THEN 0 ELSE counter
  /\ UNCHANGED <<tasks, serving, agent, applied, used, seen, covered, hand, credited, gone, repeated>>

\* The panel cannot be reached: what was collected is kept for the next report.
SendLost ==
  /\ at = "idle"
  /\ Trouble
  /\ Collect(TRUE)
  /\ UNCHANGED <<tasks, serving, at, conn, took, acks, todo, account, runs, applied,
                 used, seen, covered, hand, credited, repeated>>

\* store_report: the snapshot is kept and its traffic is booked; a failed booking is
\* logged, and the report is accepted all the same.
Credit(h, ok) ==
  /\ req[h] = "arrived"
  /\ IF ok THEN UNCHANGED trouble ELSE Trouble
  /\ req' = [req EXCEPT ![h] = "credited"]
  /\ load' = [load EXCEPT ![h].delta = 0, ![h].cleared = FALSE]
  /\ seen' = TRUE
  /\ covered' = load[h].cleared
  /\ credited' = IF ok THEN credited + load[h].delta ELSE credited
  /\ gone' = IF ok THEN gone ELSE gone + load[h].delta
  /\ UNCHANGED <<tasks, event, wakes, batch, agent, applied, used, counter, hand, repeated>>

\* Variant: a caller can be told only once it waits.
Listening_OnceWaiting == {c \in Calls : call[c] = "waiting"}

\* The callers in _acks.
Listening == {c \in Calls : call[c] \in {"registered", "checked", "waiting"}}

\* ack: the open rows the report names are closed, and their callers told.
Ack(h) ==
  LET named == {a[1] : a \in load[h].acks}
      now   == {c \in named : row[c] = "open"}
  IN /\ req[h] = "credited"
     /\ req' = [req EXCEPT ![h] = "acked"]
     /\ load' = [load EXCEPT ![h].acks = {}]
     /\ row' = [c \in Calls |-> IF c \notin now THEN row[c]
                                ELSE IF <<c, TRUE>> \in load[h].acks THEN "ok" ELSE "failed"]
     /\ told' = told \union (now \intersect Listening)
     /\ UNCHANGED <<call, sent, event, wakes, batch, agent, applied, traffic, trouble>>

--------------------------------------------------------------------------------
(* The long poll: node_tasks.pending and take                              *)

\* The event is cleared before the first look at the tasks.
Clear(h) ==
  /\ req[h] = "acked"
  /\ req' = [req EXCEPT ![h] = "cleared"]
  /\ event' = FALSE
  /\ UNCHANGED <<tasks, wakes, load, batch, agent, applied, traffic, trouble>>

Waiting == {c \in Calls : row[c] = "open" /\ c \notin sent}

\* take reads in one statement and marks in another, with no lock between handlers.
TakeRead(h) ==
  /\ \/ /\ req[h] = "cleared"
        /\ req' = [req EXCEPT ![h] = "read"]
     \/ /\ req[h] = "woken"
        /\ req' = [req EXCEPT ![h] = "reread"]
  /\ batch' = [batch EXCEPT ![h] = Waiting]
  /\ UNCHANGED <<tasks, event, wakes, load, agent, applied, traffic, trouble>>

\* Variant: the event is cleared after the first look, before going to sleep.
TakeCommit_ClearsAfter(h) ==
  /\ req[h] \in {"read", "reread"}
  /\ sent' = sent \union batch[h]
  /\ req' = [req EXCEPT ![h] =
       IF batch[h] # {} \/ req[h] = "reread" THEN "reply" ELSE "asleep"]
  /\ event' = FALSE
  /\ UNCHANGED <<call, row, told, wakes, load, batch, agent, applied, traffic, trouble>>

\* Variant: a task is marked as sent only when there is nothing else to do.
TakeCommit_Unmarked(h) ==
  /\ req[h] \in {"read", "reread"}
  /\ req' = [req EXCEPT ![h] =
       CASE batch[h] # {} \/ req[h] = "reread" -> "reply"
         [] event                              -> "woken"
         [] OTHER                              -> "asleep"]
  /\ UNCHANGED <<tasks, event, wakes, load, batch, agent, applied, traffic, trouble>>

\* With no task on the first look the coroutine sleeps, unless the event is set.
TakeCommit(h) ==
  /\ req[h] \in {"read", "reread"}
  /\ sent' = sent \union batch[h]
  /\ req' = [req EXCEPT ![h] =
       CASE batch[h] # {} \/ req[h] = "reread" -> "reply"
         [] event                              -> "woken"
         [] OTHER                              -> "asleep"]
  /\ UNCHANGED <<call, row, told, event, wakes, load, batch, agent, applied, traffic, trouble>>

\* The loop runs a call_soon: the event is set and every sleeper woken.
SetEvent(c) ==
  /\ c \in wakes
  /\ wakes' = wakes \ {c}
  /\ event' = TRUE
  /\ req' = [h \in Handlers |-> IF req[h] = "asleep" THEN "woken" ELSE req[h]]
  /\ UNCHANGED <<tasks, load, batch, agent, applied, traffic, trouble>>

HoldEnds(h) ==
  /\ req[h] = "asleep"
  /\ req' = [req EXCEPT ![h] = "woken"]
  /\ UNCHANGED <<tasks, event, wakes, load, batch, agent, applied, traffic, trouble>>

Free(h) ==
  /\ req'   = [req EXCEPT ![h] = "free"]
  /\ batch' = [batch EXCEPT ![h] = {}]

\* Variant: only a restart clears what the panel has not confirmed.
Reply_KeepsPending(h) ==
  /\ req[h] = "reply"
  /\ conn = h
  /\ Free(h)
  /\ conn' = NoHandler /\ took' = FALSE
  /\ acks' = {}
  /\ account' = TRUE
  /\ todo' = batch[h]
  /\ at' = IF batch[h] = {} THEN "idle" ELSE "running"
  /\ UNCHANGED <<tasks, event, wakes, load, pend, runs, applied, traffic, trouble>>

\* The answer reaches the agent: acknowledgements and traffic are delivered, the tasks
\* of the answer are next.
Reply(h) ==
  /\ req[h] = "reply"
  /\ conn = h
  /\ Free(h)
  /\ conn' = NoHandler /\ took' = FALSE
  /\ acks' = {}
  /\ pend' = IF took THEN 0 ELSE pend
  /\ account' = TRUE
  /\ todo' = batch[h]
  /\ at' = IF batch[h] = {} THEN "idle" ELSE "running"
  /\ UNCHANGED <<tasks, event, wakes, load, runs, applied, traffic, trouble>>

\* Nobody is there any more to take the answer.
ReplyUnheard(h) ==
  /\ req[h] = "reply"
  /\ conn # h
  /\ Free(h)
  /\ UNCHANGED <<tasks, event, wakes, load, agent, applied, traffic, trouble>>

\* The agent's client gives up, or the connection breaks: the handler goes on alone.
Disconnected ==
  /\ at = "sending"
  /\ at' = "idle"
  /\ conn' = NoHandler /\ took' = FALSE
  /\ repeated' = repeated + (IF took THEN pend ELSE 0)

GiveUp ==
  /\ Trouble
  /\ Disconnected
  /\ UNCHANGED <<tasks, serving, acks, todo, account, pend, runs, applied,
                 used, counter, seen, covered, hand, credited, gone>>

--------------------------------------------------------------------------------
(* The agent runs its tasks; traffic flows; the SSH sweep                  *)

\* runTask, and its acknowledgement for the next report, which follows at once.
RunTask(c, ok) ==
  /\ at = "running"
  /\ c \in todo
  /\ todo' = todo \ {c}
  /\ at' = IF todo' = {} THEN "idle" ELSE "running"
  /\ acks' = acks \union {<<c, ok>>}
  /\ runs' = [runs EXCEPT ![c] = @ + 1]
  /\ applied' = IF ok THEN applied \union {c} ELSE applied
  /\ UNCHANGED <<tasks, serving, conn, took, account, pend, traffic, trouble>>

Use ==
  /\ used < MaxUsed
  /\ used' = used + 1
  /\ counter' = counter + 1
  /\ UNCHANGED <<tasks, serving, agent, applied, seen, covered, hand, credited, gone, repeated, trouble>>

\* Two minutes without a report: the snapshot is stale.  A report is held for twelve
\* seconds, so the ones accepted before are answered.
Silence ==
  /\ seen
  /\ \A h \in Handlers : req[h] \in {"free", "arrived"}
  /\ seen' = FALSE
  /\ covered' = FALSE
  /\ UNCHANGED <<tasks, serving, agent, applied, used, counter, hand, credited, gone, repeated, trouble>>

\* sync_traffic, unless a fresh snapshot covers the traffic: read with reset, an answer
\* that does not come through being lost with what it carried...
SweepRead(ok) ==
  /\ ~covered
  /\ counter > 0
  /\ hand = 0
  /\ IF ok THEN UNCHANGED trouble ELSE Trouble
  /\ hand' = IF ok THEN counter ELSE 0
  /\ gone' = IF ok THEN gone ELSE gone + counter
  /\ counter' = 0
  /\ UNCHANGED <<tasks, serving, agent, applied, used, seen, covered, credited, repeated>>

\* ...and book, which may fail and is then logged.
SweepCredit(ok) ==
  /\ hand > 0
  /\ IF ok THEN UNCHANGED trouble ELSE Trouble
  /\ credited' = IF ok THEN credited + hand ELSE credited
  /\ gone' = IF ok THEN gone ELSE gone + hand
  /\ hand' = 0
  /\ UNCHANGED <<tasks, serving, agent, applied, used, counter, seen, covered, repeated>>

\* The agent restarts: all it knew was in its memory.
AgentRestart ==
  /\ Trouble
  /\ at' = "idle" /\ conn' = NoHandler /\ took' = FALSE
  /\ acks' = {} /\ todo' = {} /\ account' = FALSE /\ pend' = 0
  /\ gone' = gone + pend
  /\ UNCHANGED <<tasks, serving, runs, applied, used, counter, seen, covered, hand, credited, repeated>>

\* The panel restarts: callers, reports and the sweep are gone, the tables stay.
PanelCrash ==
  /\ Trouble
  /\ call' = [c \in Calls |-> IF call[c] \in Asking \union {"ssh"} THEN "failed" ELSE call[c]]
  /\ told' = {} /\ event' = FALSE /\ wakes' = {}
  /\ req'   = [h \in Handlers |-> "free"]
  /\ load'  = [h \in Handlers |-> Empty]
  /\ batch' = [h \in Handlers |-> {}]
  /\ hand' = 0
  /\ gone' = gone + hand
  /\ IF at = "sending" THEN Disconnected ELSE UNCHANGED <<at, conn, took, repeated>>
  /\ UNCHANGED <<row, sent, acks, todo, account, pend, runs, applied,
                 used, counter, seen, covered, credited>>

--------------------------------------------------------------------------------
CallerStep(c) ==
  \/ Wake(c) \/ Register(c) \/ CheckEarly(c) \/ StartWaiting(c)
  \/ Heard(c) \/ TimeOut(c) \/ Ssh(c) \/ SshFails(c)

\* What the panel does for a report until it answers.
HandlerStep(h) ==
  \/ Credit(h, TRUE) \/ Ack(h) \/ Clear(h) \/ TakeRead(h) \/ TakeCommit(h)
  \/ HoldEnds(h) \/ Reply(h) \/ ReplyUnheard(h)

\* What goes wrong on the way.
Misfortune ==
  \/ \E h \in Handlers : Send(h, FALSE) \/ Credit(h, FALSE)
  \/ SweepRead(FALSE) \/ SweepCredit(FALSE)
  \/ SendLost \/ GiveUp \/ AgentRestart \/ PanelCrash

Next ==
  \/ \E c \in Calls : Ask(c) \/ AskSsh(c) \/ CallerStep(c) \/ Expire(c) \/ SetEvent(c)
  \/ \E c \in Calls, ok \in BOOLEAN : RunTask(c, ok)
  \/ \E h \in Handlers : Send(h, TRUE) \/ HandlerStep(h)
  \/ Use \/ Silence \/ SweepRead(TRUE) \/ SweepCredit(TRUE)
  \/ Misfortune

\* The threads and the loop of the panel and the loop of the agent go on; nobody has to
\* ask for work, to use the node or to fail.
Fairness ==
  /\ \A c \in Calls : /\ WF_vars(CallerStep(c))
                      /\ WF_vars(Expire(c))
                      /\ WF_vars(SetEvent(c))
                      /\ WF_vars(\E ok \in BOOLEAN : RunTask(c, ok))
  /\ \A h \in Handlers : WF_vars(HandlerStep(h))
  /\ WF_vars(\E h \in Handlers : Send(h, TRUE))
  /\ WF_vars(SweepRead(TRUE)) /\ WF_vars(SweepCredit(TRUE))

Spec     == Init /\ [][Next]_vars
FairSpec == Spec /\ Fairness

--------------------------------------------------------------------------------
Load == [acks : SUBSET (Calls \X BOOLEAN), delta : Nat, cleared : BOOLEAN]

\* Type invariant: the variables hold what the rows, the coroutines and the agent hold.
TypeOK ==
  /\ call \in [Calls -> {"idle", "ssh"} \union Asking \union Ended]
  /\ row  \in [Calls -> {"absent", "open"} \union Closed]
  /\ sent \subseteq Calls /\ told \subseteq Calls /\ wakes \subseteq Calls
  /\ event \in BOOLEAN /\ took \in BOOLEAN /\ account \in BOOLEAN /\ seen \in BOOLEAN /\ covered \in BOOLEAN
  /\ req \in [Handlers -> {"free", "arrived", "credited", "acked", "cleared", "read",
                           "asleep", "woken", "reread", "reply"}]
  /\ load  \in [Handlers -> Load]
  /\ batch \in [Handlers -> SUBSET Calls]
  /\ at \in {"idle", "sending", "running"}
  /\ conn \in Handlers \union {NoHandler}
  /\ acks \subseteq Calls \X BOOLEAN
  /\ todo \subseteq Calls /\ applied \subseteq Calls
  /\ runs \in [Calls -> Nat]
  /\ pend \in Nat /\ used \in Nat /\ counter \in Nat /\ hand \in Nat
  /\ credited \in Nat /\ gone \in Nat /\ repeated \in Nat /\ trouble \in Nat

\* A caller that is told its work is done can rely on it: the node has done it, whether
\* the word came through an acknowledgement or an SSH session (_via_agent).
DoneIsApplied == \A c \in Calls : call[c] = "done" => c \in applied

\* The agent carries a task out at most once, though answers get lost, handlers outlive
\* their connection and take() marks what it read without a lock.
RunOnce == \A c \in Calls : runs[c] <= 1

\* Someone is on the way to give c to an agent.
Coming(c) ==
  \/ call[c] = "stored" \/ c \in wakes
  \/ \E h \in Handlers : \/ req[h] \in {"cleared", "woken"}
                         \/ req[h] \in {"read", "reread"} /\ c \in batch[h]

\* No report sleeps over a task: as long as one is held and a task waits to be sent, its
\* wake-up is on the way or another handler is about to take it (pending's comment).
NoLostWakeup ==
  (\E h \in Handlers : req[h] = "asleep") => \A c \in Waiting : Coming(c)

\* An acknowledgement that comes while its caller is between submitting and waiting is
\* not lost: who still waits for a closed task has been told (run's check after
\* registering).
AckIsHeard == \A c \in Calls : call[c] = "waiting" /\ row[c] \in Closed => c \in told

\* Traffic is not lost between the node, the agent and the panel, whoever resets the
\* counters and whatever answers are lost, but by a crash, a failed collection of the
\* agent or the sweep, or a failed booking (run's pending, sync_traffic).
TrafficKept == used <= counter + pend + hand + credited + gone

\* Traffic is booked again only with a report whose answer did not reach the agent.
RepeatIsBounded == credited <= used + repeated

\* A call ends, whatever happens to its task.
CallEnds == \A c \in Calls : call[c] \in Asking \union {"ssh"} ~> call[c] \in Ended

\* Traffic reaches the accounts, by the agent or by the sweep, or is lost with a failure.
TrafficArrives == \A n \in 1..MaxUsed : used >= n ~> credited + gone >= n
================================================================================
