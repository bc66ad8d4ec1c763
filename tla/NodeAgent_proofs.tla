--------------------------- MODULE NodeAgent_proofs ---------------------------
(***************************************************************************)
(* Proofs about NodeAgent: its type invariant; that a caller told its work *)
(* is done can rely on it; that the agent carries no task out twice; that  *)
(* no held report sleeps over a task; that no acknowledgement is missed;   *)
(* that traffic is not lost but by the named failures, nor booked twice    *)
(* but with a report whose answer was lost.                                *)
(***************************************************************************)
EXTENDS NodeAgent, FiniteSetTheorems, TLAPS

USE DEF Closed, Asking, Ended

--------------------------------------------------------------------------------
(* The parts of the inductive invariant                                    *)

\* A good word about c, on its way, in the table or given, is true.
WordInv ==
  /\ \A c \in Calls : <<c, TRUE>> \in acks => c \in applied
  /\ \A h \in Handlers, c \in Calls : <<c, TRUE>> \in load[h].acks => c \in applied
  /\ \A c \in Calls : row[c] = "ok" => c \in applied
  /\ DoneIsApplied

\* A task an agent has, or has run, is marked as sent, and the batch it is about to get
\* is of tasks it has not run.
RunInv ==
  /\ at = "sending" <=> conn # NoHandler
  /\ at # "running" => todo = {}
  /\ \A c \in Calls : c \notin sent => runs[c] = 0 /\ c \notin todo
  /\ \A c \in todo : runs[c] = 0
  /\ conn # NoHandler => \A c \in batch[conn] : runs[c] = 0
  /\ \A h \in Handlers : /\ req[h] = "free" => batch[h] = {}
                         /\ req[h] = "reply" => batch[h] \subseteq sent
                         /\ conn = h => req[h] # "free"
  /\ RunOnce

\* A handler that read no c before c was put in the table will not sleep over it.
WakeInv ==
  /\ \A h \in Handlers, c \in Waiting :
       req[h] = "read" /\ c \notin batch[h] => event \/ Coming(c)
  /\ NoLostWakeup

\* From the moment run() has checked for an early answer, an answer tells it.
HeardInv ==
  \A c \in Calls : call[c] \in {"checked", "waiting"} /\ row[c] \in Closed => c \in told

\* Once the report in flight is accepted, what the agent keeps is accounted for twice.
TrafficInv ==
  /\ TrafficKept
  /\ took => conn # NoHandler
  /\ took /\ req[conn] = "arrived" => load[conn].delta = pend
  /\ took /\ req[conn] # "arrived" => used <= counter + hand + credited + gone

--------------------------------------------------------------------------------
(* Steps                                                                   *)
LEMMA EmptyIsLoad == Empty \in Load
BY DEF Empty, Load

\* The initial states have the right types.
LEMMA TypeInit == Init => TypeOK
<1> SUFFICES ASSUME Init PROVE TypeOK
  OBVIOUS
<1>1. load \in [Handlers -> Load]
  BY EmptyIsLoad DEF Init
<1> QED
  BY <1>1 DEF Init, TypeOK

\* Every step keeps the types.
LEMMA TypeStep ==
  ASSUME NodeAssumption, TypeOK, [Next]_vars
  PROVE TypeOK'
<1>1. ASSUME NEW c \in Calls, Ask(c) PROVE TypeOK'
  BY <1>1 DEF Ask, CallAt, TypeOK, tasks, serving, agent, traffic
<1>2. ASSUME NEW c \in Calls, AskSsh(c) PROVE TypeOK'
  BY <1>2 DEF AskSsh, CallAt, TypeOK, tasks, serving, agent, traffic
<1>3. ASSUME NEW c \in Calls, Wake(c) PROVE TypeOK'
  BY <1>3 DEF Wake, CallAt, TypeOK, tasks, serving, agent, traffic
<1>4. ASSUME NEW c \in Calls, Register(c) PROVE TypeOK'
  BY <1>4 DEF Register, CallAt, TypeOK, tasks, serving, agent, traffic
<1>5. ASSUME NEW c \in Calls, CheckEarly(c) PROVE TypeOK'
  BY <1>5 DEF CheckEarly, CallAt, Answer, TypeOK, tasks, serving, agent, traffic
<1>6. ASSUME NEW c \in Calls, StartWaiting(c) PROVE TypeOK'
  BY <1>6 DEF StartWaiting, CallAt, TypeOK, tasks, serving, agent, traffic
<1>7. ASSUME NEW c \in Calls, Heard(c) PROVE TypeOK'
  BY <1>7 DEF Heard, CallAt, Answer, TypeOK, tasks, serving, agent, traffic
<1>8. ASSUME NEW c \in Calls, TimeOut(c) PROVE TypeOK'
  BY <1>8 DEF TimeOut, CallAt, TypeOK, tasks, serving, agent, traffic
<1>9. ASSUME NEW c \in Calls, Ssh(c) PROVE TypeOK'
  BY <1>9 DEF Ssh, CallAt, TypeOK, tasks, serving, agent, traffic
<1>10. ASSUME NEW c \in Calls, SshFails(c) PROVE TypeOK'
  BY <1>10 DEF SshFails, CallAt, TypeOK, tasks, serving, agent, traffic
<1>11. ASSUME NEW c \in Calls, Expire(c) PROVE TypeOK'
  BY <1>11 DEF Expire, TypeOK, tasks, serving, agent, traffic
<1>12. ASSUME NEW c \in Calls, SetEvent(c) PROVE TypeOK'
  BY <1>12 DEF SetEvent, TypeOK, tasks, serving, agent, traffic
<1>13. ASSUME NEW c \in Calls, NEW ok \in BOOLEAN, RunTask(c, ok) PROVE TypeOK'
  BY <1>13 DEF RunTask, TypeOK, tasks, serving, agent, traffic
<1>14. ASSUME NEW h \in Handlers, NEW ok \in BOOLEAN, Send(h, ok) PROVE TypeOK'
  <2>1. took' \in BOOLEAN /\ pend' \in Nat /\ gone' \in Nat /\ counter' \in Nat
    BY <1>14 DEF Send, Collect, TypeOK
  <2>2. trouble' \in Nat
    BY <1>14 DEF Send, Trouble, TypeOK
  <2>3. load' \in [Handlers -> Load]
    <3>1. [acks |-> acks, cleared |-> took', delta |-> IF took' THEN pend' ELSE 0] \in Load
      BY <2>1 DEF Load, TypeOK
    <3> QED
      BY <1>14, <3>1 DEF Send, TypeOK
  <2> QED
    BY <1>14, <2>1, <2>2, <2>3 DEF Send, TypeOK, tasks
<1>15. ASSUME NEW h \in Handlers, NEW ok \in BOOLEAN, Credit(h, ok) PROVE TypeOK'
  <2>1. load' \in [Handlers -> Load]
    <3>1. PICK l \in Load : l = load[h] /\ load' = [load EXCEPT ![h] = [l EXCEPT !.delta = 0, !.cleared = FALSE]]
      BY <1>15 DEF Credit, TypeOK
    <3> QED
      BY <3>1 DEF Load, TypeOK
  <2>2. credited' \in Nat /\ gone' \in Nat /\ covered' \in BOOLEAN
    BY <1>15 DEF Credit, TypeOK, Load
  <2>3. trouble' \in Nat
    BY <1>15 DEF Credit, Trouble, TypeOK
  <2> QED
    BY <1>15, <2>1, <2>2, <2>3 DEF Credit, TypeOK, tasks, serving, agent, traffic
<1>16. ASSUME NEW h \in Handlers, Ack(h) PROVE TypeOK'
  <2>1. load' \in [Handlers -> Load]
    <3>1. PICK l \in Load : l = load[h] /\ load' = [load EXCEPT ![h] = [l EXCEPT !.acks = {}]]
      BY <1>16 DEF Ack, TypeOK
    <3> QED
      BY <3>1 DEF Load, TypeOK
  <2>2. row' \in [Calls -> {"absent", "open"} \union Closed]
    BY <1>16 DEF Ack, TypeOK
  <2>3. told' \subseteq Calls
    BY <1>16 DEF Ack, Listening, TypeOK
  <2> QED
    BY <1>16, <2>1, <2>2, <2>3 DEF Ack, TypeOK, agent, traffic
<1>17. ASSUME NEW h \in Handlers, Clear(h) PROVE TypeOK'
  BY <1>17 DEF Clear, TypeOK, tasks, serving, agent, traffic
<1>18. ASSUME NEW h \in Handlers, TakeRead(h) PROVE TypeOK'
  BY <1>18 DEF TakeRead, Waiting, TypeOK, tasks, serving, agent, traffic
<1>19. ASSUME NEW h \in Handlers, TakeCommit(h) PROVE TypeOK'
  BY <1>19 DEF TakeCommit, TypeOK, tasks, serving, agent, traffic
<1>20. ASSUME NEW h \in Handlers, HoldEnds(h) PROVE TypeOK'
  BY <1>20 DEF HoldEnds, TypeOK, tasks, serving, agent, traffic
<1>21. ASSUME NEW h \in Handlers, Reply(h) PROVE TypeOK'
  BY <1>21 DEF Reply, Free, TypeOK, tasks, serving, agent, traffic
<1>22. ASSUME NEW h \in Handlers, ReplyUnheard(h) PROVE TypeOK'
  BY <1>22 DEF ReplyUnheard, Free, TypeOK, tasks, serving, agent, traffic
<1>23. ASSUME Use PROVE TypeOK'
  BY <1>23 DEF Use, TypeOK, tasks, serving, agent, traffic
<1>24. ASSUME Silence PROVE TypeOK'
  BY <1>24 DEF Silence, TypeOK, tasks, serving, agent, traffic
<1>25. ASSUME NEW ok \in BOOLEAN, SweepRead(ok) PROVE TypeOK'
  BY <1>25 DEF SweepRead, Trouble, TypeOK, tasks, serving, agent, traffic
<1>26. ASSUME NEW ok \in BOOLEAN, SweepCredit(ok) PROVE TypeOK'
  BY <1>26 DEF SweepCredit, Trouble, TypeOK, tasks, serving, agent, traffic
<1>27. ASSUME SendLost PROVE TypeOK'
  BY <1>27 DEF SendLost, Collect, Trouble, TypeOK, tasks, serving, agent, traffic
<1>28. ASSUME GiveUp PROVE TypeOK'
  <2>1. trouble' \in Nat /\ repeated' \in Nat
    BY <1>28 DEF GiveUp, Disconnected, Trouble, TypeOK
  <2> QED
    BY <1>28, <2>1 DEF GiveUp, Disconnected, TypeOK, tasks, serving
<1>29. ASSUME AgentRestart PROVE TypeOK'
  <2>1. trouble' \in Nat /\ gone' \in Nat
    BY <1>29 DEF AgentRestart, Trouble, TypeOK
  <2> QED
    BY <1>29, <2>1 DEF AgentRestart, TypeOK, tasks, serving
<1>30. ASSUME PanelCrash PROVE TypeOK'
  <2>1. trouble' \in Nat /\ gone' \in Nat
    BY <1>30 DEF PanelCrash, Trouble, TypeOK
  <2>2. load' \in [Handlers -> Load]
    BY <1>30, EmptyIsLoad DEF PanelCrash
  <2>3. /\ at' \in {"idle", "sending", "running"} /\ conn' \in Handlers \union {NoHandler}
        /\ took' \in BOOLEAN /\ repeated' \in Nat
    <3>1. CASE at = "sending"
      <4>1. repeated' = repeated + (IF took THEN pend ELSE 0)
        BY <1>30, <3>1 DEF PanelCrash, Disconnected
      <4>2. repeated' \in Nat
        BY <4>1 DEF TypeOK
      <4> QED
        BY <1>30, <3>1, <4>2 DEF PanelCrash, Disconnected
    <3>2. CASE at # "sending"
      BY <1>30, <3>2 DEF PanelCrash, TypeOK
    <3> QED
      BY <3>1, <3>2
  <2>4. call' \in [Calls -> {"idle", "ssh"} \union Asking \union Ended]
    BY <1>30 DEF PanelCrash, TypeOK
  <2> QED
    BY <1>30, <2>1, <2>2, <2>3, <2>4 DEF PanelCrash, TypeOK
<1>31. CASE UNCHANGED vars
  BY <1>31 DEF TypeOK, tasks, serving, agent, traffic, vars
<1> QED
  BY <1>1, <1>2, <1>3, <1>4, <1>5, <1>6, <1>7, <1>8, <1>9, <1>10, <1>11, <1>12, <1>13,
     <1>14, <1>15, <1>16, <1>17, <1>18, <1>19, <1>20, <1>21, <1>22, <1>23, <1>24,
     <1>25, <1>26, <1>27, <1>28, <1>29, <1>30, <1>31
  DEF Next, CallerStep, HandlerStep, Misfortune

\* A good word about a task is given only by who did it.
LEMMA WordStep ==
  ASSUME TypeOK, WordInv, [Next]_vars
  PROVE WordInv'
<1>1. ASSUME NEW c \in Calls, Ask(c) PROVE WordInv'
  BY <1>1 DEF Ask, CallAt, WordInv, DoneIsApplied, TypeOK, Load, Empty, tasks, serving, agent, traffic
<1>2. ASSUME NEW c \in Calls, AskSsh(c) PROVE WordInv'
  BY <1>2 DEF AskSsh, CallAt, WordInv, DoneIsApplied, TypeOK, Load, Empty, tasks, serving, agent, traffic
<1>3. ASSUME NEW c \in Calls, Wake(c) PROVE WordInv'
  BY <1>3 DEF Wake, CallAt, WordInv, DoneIsApplied, TypeOK, Load, Empty, tasks, serving, agent, traffic
<1>4. ASSUME NEW c \in Calls, Register(c) PROVE WordInv'
  BY <1>4 DEF Register, CallAt, WordInv, DoneIsApplied, TypeOK, Load, Empty, tasks, serving, agent, traffic
<1>5. ASSUME NEW c \in Calls, CheckEarly(c) PROVE WordInv'
  BY <1>5 DEF CheckEarly, CallAt, Answer, WordInv, DoneIsApplied, TypeOK, Load, Empty, tasks, serving, agent, traffic
<1>6. ASSUME NEW c \in Calls, StartWaiting(c) PROVE WordInv'
  BY <1>6 DEF StartWaiting, CallAt, WordInv, DoneIsApplied, TypeOK, Load, Empty, tasks, serving, agent, traffic
<1>7. ASSUME NEW c \in Calls, Heard(c) PROVE WordInv'
  BY <1>7 DEF Heard, CallAt, Answer, WordInv, DoneIsApplied, TypeOK, Load, Empty, tasks, serving, agent, traffic
<1>8. ASSUME NEW c \in Calls, TimeOut(c) PROVE WordInv'
  BY <1>8 DEF TimeOut, CallAt, WordInv, DoneIsApplied, TypeOK, Load, Empty, tasks, serving, agent, traffic
<1>9. ASSUME NEW c \in Calls, Ssh(c) PROVE WordInv'
  BY <1>9 DEF Ssh, CallAt, WordInv, DoneIsApplied, TypeOK, Load, Empty, tasks, serving, agent, traffic
<1>10. ASSUME NEW c \in Calls, SshFails(c) PROVE WordInv'
  BY <1>10 DEF SshFails, CallAt, WordInv, DoneIsApplied, TypeOK, Load, Empty, tasks, serving, agent, traffic
<1>11. ASSUME NEW c \in Calls, Expire(c) PROVE WordInv'
  BY <1>11 DEF Expire, WordInv, DoneIsApplied, TypeOK, Load, Empty, tasks, serving, agent, traffic
<1>12. ASSUME NEW c \in Calls, SetEvent(c) PROVE WordInv'
  BY <1>12 DEF SetEvent, WordInv, DoneIsApplied, TypeOK, Load, Empty, tasks, serving, agent, traffic
<1>13. ASSUME NEW c \in Calls, NEW ok \in BOOLEAN, RunTask(c, ok) PROVE WordInv'
  BY <1>13 DEF RunTask, WordInv, DoneIsApplied, TypeOK, Load, Empty, tasks, serving, agent, traffic
<1>14. ASSUME NEW h \in Handlers, NEW ok \in BOOLEAN, Send(h, ok) PROVE WordInv'
  BY <1>14 DEF Send, Collect, Trouble, WordInv, DoneIsApplied, TypeOK, Load, Empty, tasks, serving, agent, traffic
<1>15. ASSUME NEW h \in Handlers, NEW ok \in BOOLEAN, Credit(h, ok) PROVE WordInv'
  <2>1. \A g \in Handlers : load'[g].acks = load[g].acks
    <3>1. load \in [Handlers -> Load]
      BY DEF TypeOK
    <3> QED
      BY <1>15, <3>1 DEF Credit, Load
  <2> QED
    BY <1>15, <2>1 DEF Credit, WordInv, DoneIsApplied, tasks, agent
<1>16. ASSUME NEW h \in Handlers, Ack(h) PROVE WordInv'
  BY <1>16, ZenonT(30) DEF Ack, Listening, WordInv, DoneIsApplied,
    TypeOK, Load, Empty, tasks, serving, agent, traffic
<1>17. ASSUME NEW h \in Handlers, Clear(h) PROVE WordInv'
  BY <1>17 DEF Clear, WordInv, DoneIsApplied, TypeOK, Load, Empty, tasks, serving, agent, traffic
<1>18. ASSUME NEW h \in Handlers, TakeRead(h) PROVE WordInv'
  BY <1>18 DEF TakeRead, Waiting, WordInv, DoneIsApplied, TypeOK, Load, Empty, tasks, serving, agent, traffic
<1>19. ASSUME NEW h \in Handlers, TakeCommit(h) PROVE WordInv'
  BY <1>19 DEF TakeCommit, WordInv, DoneIsApplied, TypeOK, Load, Empty, tasks, serving, agent, traffic
<1>20. ASSUME NEW h \in Handlers, HoldEnds(h) PROVE WordInv'
  BY <1>20 DEF HoldEnds, WordInv, DoneIsApplied, TypeOK, Load, Empty, tasks, serving, agent, traffic
<1>21. ASSUME NEW h \in Handlers, Reply(h) PROVE WordInv'
  BY <1>21 DEF Reply, Free, WordInv, DoneIsApplied, TypeOK, Load, Empty, tasks, serving, agent, traffic
<1>22. ASSUME NEW h \in Handlers, ReplyUnheard(h) PROVE WordInv'
  BY <1>22 DEF ReplyUnheard, Free, WordInv, DoneIsApplied, TypeOK, Load, Empty, tasks, serving, agent, traffic
<1>23. ASSUME Use PROVE WordInv'
  BY <1>23 DEF Use, WordInv, DoneIsApplied, TypeOK, Load, Empty, tasks, serving, agent, traffic
<1>24. ASSUME Silence PROVE WordInv'
  BY <1>24 DEF Silence, WordInv, DoneIsApplied, TypeOK, Load, Empty, tasks, serving, agent, traffic
<1>25. ASSUME NEW ok \in BOOLEAN, SweepRead(ok) PROVE WordInv'
  BY <1>25 DEF SweepRead, Trouble, WordInv, DoneIsApplied, TypeOK, Load, Empty, tasks, serving, agent, traffic
<1>26. ASSUME NEW ok \in BOOLEAN, SweepCredit(ok) PROVE WordInv'
  BY <1>26 DEF SweepCredit, Trouble, WordInv, DoneIsApplied, TypeOK, Load, Empty, tasks, serving, agent, traffic
<1>27. ASSUME SendLost PROVE WordInv'
  BY <1>27 DEF SendLost, Collect, Trouble, WordInv, DoneIsApplied, TypeOK, Load, Empty, tasks, serving, agent, traffic
<1>28. ASSUME GiveUp PROVE WordInv'
  BY <1>28 DEF GiveUp, Disconnected, Trouble, WordInv, DoneIsApplied, TypeOK, Load, Empty, tasks, serving, agent, traffic
<1>29. ASSUME AgentRestart PROVE WordInv'
  BY <1>29 DEF AgentRestart, Trouble, WordInv, DoneIsApplied, TypeOK, Load, Empty, tasks, serving, agent, traffic
<1>30. ASSUME PanelCrash PROVE WordInv'
  BY <1>30 DEF PanelCrash, Disconnected, Trouble, WordInv, DoneIsApplied, TypeOK, Load, Empty, tasks, serving, agent, traffic
<1>31. CASE UNCHANGED vars
  BY <1>31 DEF WordInv, DoneIsApplied, TypeOK, Load, Empty, tasks, serving, agent, traffic, vars
<1> QED
  BY <1>1, <1>2, <1>3, <1>4, <1>5, <1>6, <1>7, <1>8, <1>9, <1>10, <1>11, <1>12, <1>13,
     <1>14, <1>15, <1>16, <1>17, <1>18, <1>19, <1>20, <1>21, <1>22, <1>23, <1>24,
     <1>25, <1>26, <1>27, <1>28, <1>29, <1>30, <1>31
  DEF Next, CallerStep, HandlerStep, Misfortune

\* A batch that reaches the agent is of tasks no other batch brought it.
LEMMA RunStep ==
  ASSUME NodeAssumption, TypeOK, RunInv, [Next]_vars
  PROVE RunInv'
<1>1. ASSUME NEW c \in Calls, Ask(c) PROVE RunInv'
  BY <1>1 DEF Ask, CallAt, RunInv, RunOnce, TypeOK, Waiting, tasks, serving, agent, traffic
<1>2. ASSUME NEW c \in Calls, AskSsh(c) PROVE RunInv'
  BY <1>2 DEF AskSsh, CallAt, RunInv, RunOnce, TypeOK, Waiting, tasks, serving, agent, traffic
<1>3. ASSUME NEW c \in Calls, Wake(c) PROVE RunInv'
  BY <1>3 DEF Wake, CallAt, RunInv, RunOnce, TypeOK, Waiting, tasks, serving, agent, traffic
<1>4. ASSUME NEW c \in Calls, Register(c) PROVE RunInv'
  BY <1>4 DEF Register, CallAt, RunInv, RunOnce, TypeOK, Waiting, tasks, serving, agent, traffic
<1>5. ASSUME NEW c \in Calls, CheckEarly(c) PROVE RunInv'
  BY <1>5 DEF CheckEarly, CallAt, Answer, RunInv, RunOnce, TypeOK, Waiting, tasks, serving, agent, traffic
<1>6. ASSUME NEW c \in Calls, StartWaiting(c) PROVE RunInv'
  BY <1>6 DEF StartWaiting, CallAt, RunInv, RunOnce, TypeOK, Waiting, tasks, serving, agent, traffic
<1>7. ASSUME NEW c \in Calls, Heard(c) PROVE RunInv'
  BY <1>7 DEF Heard, CallAt, Answer, RunInv, RunOnce, TypeOK, Waiting, tasks, serving, agent, traffic
<1>8. ASSUME NEW c \in Calls, TimeOut(c) PROVE RunInv'
  BY <1>8 DEF TimeOut, CallAt, RunInv, RunOnce, TypeOK, Waiting, tasks, serving, agent, traffic
<1>9. ASSUME NEW c \in Calls, Ssh(c) PROVE RunInv'
  BY <1>9 DEF Ssh, CallAt, RunInv, RunOnce, TypeOK, Waiting, tasks, serving, agent, traffic
<1>10. ASSUME NEW c \in Calls, SshFails(c) PROVE RunInv'
  BY <1>10 DEF SshFails, CallAt, RunInv, RunOnce, TypeOK, Waiting, tasks, serving, agent, traffic
<1>11. ASSUME NEW c \in Calls, Expire(c) PROVE RunInv'
  BY <1>11 DEF Expire, RunInv, RunOnce, TypeOK, Waiting, tasks, serving, agent, traffic
<1>12. ASSUME NEW c \in Calls, SetEvent(c) PROVE RunInv'
  BY <1>12 DEF SetEvent, RunInv, RunOnce, TypeOK, Waiting, tasks, serving, agent, traffic
<1>13. ASSUME NEW c \in Calls, NEW ok \in BOOLEAN, RunTask(c, ok) PROVE RunInv'
  BY <1>13 DEF RunTask, RunInv, RunOnce, TypeOK, Waiting, tasks, serving, agent, traffic
<1>14. ASSUME NEW h \in Handlers, NEW ok \in BOOLEAN, Send(h, ok) PROVE RunInv'
  BY <1>14 DEF Send, Collect, Trouble, RunInv, RunOnce, TypeOK, Waiting, tasks, serving, agent, traffic
<1>15. ASSUME NEW h \in Handlers, NEW ok \in BOOLEAN, Credit(h, ok) PROVE RunInv'
  BY <1>15 DEF Credit, Trouble, RunInv, RunOnce, TypeOK, Waiting, tasks, serving, agent, traffic
<1>16. ASSUME NEW h \in Handlers, Ack(h) PROVE RunInv'
  BY <1>16 DEF Ack, Listening, RunInv, RunOnce, TypeOK, Waiting, tasks, serving, agent, traffic
<1>17. ASSUME NEW h \in Handlers, Clear(h) PROVE RunInv'
  BY <1>17 DEF Clear, RunInv, RunOnce, TypeOK, Waiting, tasks, serving, agent, traffic
<1>18. ASSUME NEW h \in Handlers, TakeRead(h) PROVE RunInv'
  BY <1>18 DEF TakeRead, Waiting, RunInv, RunOnce, TypeOK, Waiting, tasks, serving, agent, traffic
<1>19. ASSUME NEW h \in Handlers, TakeCommit(h) PROVE RunInv'
  BY <1>19 DEF TakeCommit, RunInv, RunOnce, TypeOK, Waiting, tasks, serving, agent, traffic
<1>20. ASSUME NEW h \in Handlers, HoldEnds(h) PROVE RunInv'
  BY <1>20 DEF HoldEnds, RunInv, RunOnce, TypeOK, Waiting, tasks, serving, agent, traffic
<1>21. ASSUME NEW h \in Handlers, Reply(h) PROVE RunInv'
  BY <1>21 DEF Reply, Free, RunInv, RunOnce, TypeOK, Waiting, tasks, serving, agent, traffic
<1>22. ASSUME NEW h \in Handlers, ReplyUnheard(h) PROVE RunInv'
  BY <1>22 DEF ReplyUnheard, Free, RunInv, RunOnce, TypeOK, Waiting, tasks, serving, agent, traffic
<1>23. ASSUME Use PROVE RunInv'
  BY <1>23 DEF Use, RunInv, RunOnce, TypeOK, Waiting, tasks, serving, agent, traffic
<1>24. ASSUME Silence PROVE RunInv'
  BY <1>24 DEF Silence, RunInv, RunOnce, TypeOK, Waiting, tasks, serving, agent, traffic
<1>25. ASSUME NEW ok \in BOOLEAN, SweepRead(ok) PROVE RunInv'
  BY <1>25 DEF SweepRead, Trouble, RunInv, RunOnce, TypeOK, Waiting, tasks, serving, agent, traffic
<1>26. ASSUME NEW ok \in BOOLEAN, SweepCredit(ok) PROVE RunInv'
  BY <1>26 DEF SweepCredit, Trouble, RunInv, RunOnce, TypeOK, Waiting, tasks, serving, agent, traffic
<1>27. ASSUME SendLost PROVE RunInv'
  BY <1>27 DEF SendLost, Collect, Trouble, RunInv, RunOnce, TypeOK, Waiting, tasks, serving, agent, traffic
<1>28. ASSUME GiveUp PROVE RunInv'
  BY <1>28 DEF GiveUp, Disconnected, Trouble, RunInv, RunOnce, TypeOK, Waiting, tasks, serving, agent, traffic
<1>29. ASSUME AgentRestart PROVE RunInv'
  BY <1>29 DEF AgentRestart, Trouble, RunInv, RunOnce, TypeOK, Waiting, tasks, serving, agent, traffic
<1>30. ASSUME PanelCrash PROVE RunInv'
  BY <1>30 DEF PanelCrash, Disconnected, Trouble, RunInv, RunOnce, TypeOK, Waiting, tasks, serving, agent, traffic
<1>31. CASE UNCHANGED vars
  BY <1>31 DEF RunInv, RunOnce, TypeOK, Waiting, tasks, serving, agent, traffic, vars
<1> QED
  BY <1>1, <1>2, <1>3, <1>4, <1>5, <1>6, <1>7, <1>8, <1>9, <1>10, <1>11, <1>12, <1>13,
     <1>14, <1>15, <1>16, <1>17, <1>18, <1>19, <1>20, <1>21, <1>22, <1>23, <1>24,
     <1>25, <1>26, <1>27, <1>28, <1>29, <1>30, <1>31
  DEF Next, CallerStep, HandlerStep, Misfortune

\* Clearing the event before the first look leaves a handler nothing to sleep over.
LEMMA WakeStep ==
  ASSUME TypeOK, WakeInv, [Next]_vars
  PROVE WakeInv'
<1>1. ASSUME NEW c \in Calls, Ask(c) PROVE WakeInv'
  BY <1>1 DEF Ask, CallAt, WakeInv, NoLostWakeup, Waiting, Coming, TypeOK, tasks, serving, agent, traffic
<1>2. ASSUME NEW c \in Calls, AskSsh(c) PROVE WakeInv'
  BY <1>2 DEF AskSsh, CallAt, WakeInv, NoLostWakeup, Waiting, Coming, TypeOK, tasks, serving, agent, traffic
<1>3. ASSUME NEW c \in Calls, Wake(c) PROVE WakeInv'
  BY <1>3 DEF Wake, CallAt, WakeInv, NoLostWakeup, Waiting, Coming, TypeOK, tasks, serving, agent, traffic
<1>4. ASSUME NEW c \in Calls, Register(c) PROVE WakeInv'
  BY <1>4 DEF Register, CallAt, WakeInv, NoLostWakeup, Waiting, Coming, TypeOK, tasks, serving, agent, traffic
<1>5. ASSUME NEW c \in Calls, CheckEarly(c) PROVE WakeInv'
  BY <1>5 DEF CheckEarly, CallAt, Answer, WakeInv, NoLostWakeup, Waiting, Coming, TypeOK, tasks, serving, agent, traffic
<1>6. ASSUME NEW c \in Calls, StartWaiting(c) PROVE WakeInv'
  BY <1>6 DEF StartWaiting, CallAt, WakeInv, NoLostWakeup, Waiting, Coming, TypeOK, tasks, serving, agent, traffic
<1>7. ASSUME NEW c \in Calls, Heard(c) PROVE WakeInv'
  BY <1>7 DEF Heard, CallAt, Answer, WakeInv, NoLostWakeup, Waiting, Coming, TypeOK, tasks, serving, agent, traffic
<1>8. ASSUME NEW c \in Calls, TimeOut(c) PROVE WakeInv'
  BY <1>8 DEF TimeOut, CallAt, WakeInv, NoLostWakeup, Waiting, Coming, TypeOK, tasks, serving, agent, traffic
<1>9. ASSUME NEW c \in Calls, Ssh(c) PROVE WakeInv'
  BY <1>9 DEF Ssh, CallAt, WakeInv, NoLostWakeup, Waiting, Coming, TypeOK, tasks, serving, agent, traffic
<1>10. ASSUME NEW c \in Calls, SshFails(c) PROVE WakeInv'
  BY <1>10 DEF SshFails, CallAt, WakeInv, NoLostWakeup, Waiting, Coming, TypeOK, tasks, serving, agent, traffic
<1>11. ASSUME NEW c \in Calls, Expire(c) PROVE WakeInv'
  BY <1>11 DEF Expire, WakeInv, NoLostWakeup, Waiting, Coming, TypeOK, tasks, serving, agent, traffic
<1>12. ASSUME NEW c \in Calls, SetEvent(c) PROVE WakeInv'
  BY <1>12 DEF SetEvent, WakeInv, NoLostWakeup, Waiting, Coming, TypeOK, tasks, serving, agent, traffic
<1>13. ASSUME NEW c \in Calls, NEW ok \in BOOLEAN, RunTask(c, ok) PROVE WakeInv'
  BY <1>13 DEF RunTask, WakeInv, NoLostWakeup, Waiting, Coming, TypeOK, tasks, serving, agent, traffic
<1>14. ASSUME NEW h \in Handlers, NEW ok \in BOOLEAN, Send(h, ok) PROVE WakeInv'
  BY <1>14 DEF Send, Collect, Trouble, WakeInv, NoLostWakeup, Waiting, Coming, TypeOK, tasks, serving, agent, traffic
<1>15. ASSUME NEW h \in Handlers, NEW ok \in BOOLEAN, Credit(h, ok) PROVE WakeInv'
  BY <1>15 DEF Credit, Trouble, WakeInv, NoLostWakeup, Waiting, Coming, TypeOK, tasks, serving, agent, traffic
<1>16. ASSUME NEW h \in Handlers, Ack(h) PROVE WakeInv'
  BY <1>16 DEF Ack, Listening, WakeInv, NoLostWakeup, Waiting, Coming, TypeOK, tasks, serving, agent, traffic
<1>17. ASSUME NEW h \in Handlers, Clear(h) PROVE WakeInv'
  BY <1>17 DEF Clear, WakeInv, NoLostWakeup, Waiting, Coming, TypeOK, tasks, serving, agent, traffic
<1>18. ASSUME NEW h \in Handlers, TakeRead(h) PROVE WakeInv'
  BY <1>18 DEF TakeRead, Waiting, WakeInv, NoLostWakeup, Waiting, Coming, TypeOK, tasks, serving, agent, traffic
<1>19. ASSUME NEW h \in Handlers, TakeCommit(h) PROVE WakeInv'
  BY <1>19 DEF TakeCommit, WakeInv, NoLostWakeup, Waiting, Coming, TypeOK, tasks, serving, agent, traffic
<1>20. ASSUME NEW h \in Handlers, HoldEnds(h) PROVE WakeInv'
  BY <1>20 DEF HoldEnds, WakeInv, NoLostWakeup, Waiting, Coming, TypeOK, tasks, serving, agent, traffic
<1>21. ASSUME NEW h \in Handlers, Reply(h) PROVE WakeInv'
  BY <1>21 DEF Reply, Free, WakeInv, NoLostWakeup, Waiting, Coming, TypeOK, tasks, serving, agent, traffic
<1>22. ASSUME NEW h \in Handlers, ReplyUnheard(h) PROVE WakeInv'
  BY <1>22 DEF ReplyUnheard, Free, WakeInv, NoLostWakeup, Waiting, Coming, TypeOK, tasks, serving, agent, traffic
<1>23. ASSUME Use PROVE WakeInv'
  BY <1>23 DEF Use, WakeInv, NoLostWakeup, Waiting, Coming, TypeOK, tasks, serving, agent, traffic
<1>24. ASSUME Silence PROVE WakeInv'
  BY <1>24 DEF Silence, WakeInv, NoLostWakeup, Waiting, Coming, TypeOK, tasks, serving, agent, traffic
<1>25. ASSUME NEW ok \in BOOLEAN, SweepRead(ok) PROVE WakeInv'
  BY <1>25 DEF SweepRead, Trouble, WakeInv, NoLostWakeup, Waiting, Coming, TypeOK, tasks, serving, agent, traffic
<1>26. ASSUME NEW ok \in BOOLEAN, SweepCredit(ok) PROVE WakeInv'
  BY <1>26 DEF SweepCredit, Trouble, WakeInv, NoLostWakeup, Waiting, Coming, TypeOK, tasks, serving, agent, traffic
<1>27. ASSUME SendLost PROVE WakeInv'
  BY <1>27 DEF SendLost, Collect, Trouble, WakeInv, NoLostWakeup, Waiting, Coming, TypeOK, tasks, serving, agent, traffic
<1>28. ASSUME GiveUp PROVE WakeInv'
  BY <1>28 DEF GiveUp, Disconnected, Trouble, WakeInv, NoLostWakeup, Waiting, Coming, TypeOK, tasks, serving, agent, traffic
<1>29. ASSUME AgentRestart PROVE WakeInv'
  BY <1>29 DEF AgentRestart, Trouble, WakeInv, NoLostWakeup, Waiting, Coming, TypeOK, tasks, serving, agent, traffic
<1>30. ASSUME PanelCrash PROVE WakeInv'
  BY <1>30 DEF PanelCrash, Disconnected, Trouble, WakeInv, NoLostWakeup, Waiting, Coming, TypeOK, tasks, serving, agent, traffic
<1>31. CASE UNCHANGED vars
  BY <1>31 DEF WakeInv, NoLostWakeup, Waiting, Coming, TypeOK, tasks, serving, agent, traffic, vars
<1> QED
  BY <1>1, <1>2, <1>3, <1>4, <1>5, <1>6, <1>7, <1>8, <1>9, <1>10, <1>11, <1>12, <1>13,
     <1>14, <1>15, <1>16, <1>17, <1>18, <1>19, <1>20, <1>21, <1>22, <1>23, <1>24,
     <1>25, <1>26, <1>27, <1>28, <1>29, <1>30, <1>31
  DEF Next, CallerStep, HandlerStep, Misfortune

\* A caller that registered before it looked hears of every answer.
LEMMA HeardStep ==
  ASSUME TypeOK, HeardInv, [Next]_vars
  PROVE HeardInv'
<1>1. ASSUME NEW c \in Calls, Ask(c) PROVE HeardInv'
  BY <1>1 DEF Ask, CallAt, HeardInv, TypeOK, tasks, serving, agent, traffic
<1>2. ASSUME NEW c \in Calls, AskSsh(c) PROVE HeardInv'
  BY <1>2 DEF AskSsh, CallAt, HeardInv, TypeOK, tasks, serving, agent, traffic
<1>3. ASSUME NEW c \in Calls, Wake(c) PROVE HeardInv'
  BY <1>3 DEF Wake, CallAt, HeardInv, TypeOK, tasks, serving, agent, traffic
<1>4. ASSUME NEW c \in Calls, Register(c) PROVE HeardInv'
  BY <1>4 DEF Register, CallAt, HeardInv, TypeOK, tasks, serving, agent, traffic
<1>5. ASSUME NEW c \in Calls, CheckEarly(c) PROVE HeardInv'
  BY <1>5 DEF CheckEarly, CallAt, Answer, HeardInv, TypeOK, tasks, serving, agent, traffic
<1>6. ASSUME NEW c \in Calls, StartWaiting(c) PROVE HeardInv'
  BY <1>6 DEF StartWaiting, CallAt, HeardInv, TypeOK, tasks, serving, agent, traffic
<1>7. ASSUME NEW c \in Calls, Heard(c) PROVE HeardInv'
  BY <1>7 DEF Heard, CallAt, Answer, HeardInv, TypeOK, tasks, serving, agent, traffic
<1>8. ASSUME NEW c \in Calls, TimeOut(c) PROVE HeardInv'
  BY <1>8 DEF TimeOut, CallAt, HeardInv, TypeOK, tasks, serving, agent, traffic
<1>9. ASSUME NEW c \in Calls, Ssh(c) PROVE HeardInv'
  BY <1>9 DEF Ssh, CallAt, HeardInv, TypeOK, tasks, serving, agent, traffic
<1>10. ASSUME NEW c \in Calls, SshFails(c) PROVE HeardInv'
  BY <1>10 DEF SshFails, CallAt, HeardInv, TypeOK, tasks, serving, agent, traffic
<1>11. ASSUME NEW c \in Calls, Expire(c) PROVE HeardInv'
  BY <1>11 DEF Expire, HeardInv, TypeOK, tasks, serving, agent, traffic
<1>12. ASSUME NEW c \in Calls, SetEvent(c) PROVE HeardInv'
  BY <1>12 DEF SetEvent, HeardInv, TypeOK, tasks, serving, agent, traffic
<1>13. ASSUME NEW c \in Calls, NEW ok \in BOOLEAN, RunTask(c, ok) PROVE HeardInv'
  BY <1>13 DEF RunTask, HeardInv, TypeOK, tasks, serving, agent, traffic
<1>14. ASSUME NEW h \in Handlers, NEW ok \in BOOLEAN, Send(h, ok) PROVE HeardInv'
  BY <1>14 DEF Send, Collect, Trouble, HeardInv, TypeOK, tasks, serving, agent, traffic
<1>15. ASSUME NEW h \in Handlers, NEW ok \in BOOLEAN, Credit(h, ok) PROVE HeardInv'
  BY <1>15 DEF Credit, Trouble, HeardInv, TypeOK, tasks, serving, agent, traffic
<1>16. ASSUME NEW h \in Handlers, Ack(h) PROVE HeardInv'
  BY <1>16 DEF Ack, Listening, HeardInv, TypeOK, tasks, serving, agent, traffic
<1>17. ASSUME NEW h \in Handlers, Clear(h) PROVE HeardInv'
  BY <1>17 DEF Clear, HeardInv, TypeOK, tasks, serving, agent, traffic
<1>18. ASSUME NEW h \in Handlers, TakeRead(h) PROVE HeardInv'
  BY <1>18 DEF TakeRead, Waiting, HeardInv, TypeOK, tasks, serving, agent, traffic
<1>19. ASSUME NEW h \in Handlers, TakeCommit(h) PROVE HeardInv'
  BY <1>19 DEF TakeCommit, HeardInv, TypeOK, tasks, serving, agent, traffic
<1>20. ASSUME NEW h \in Handlers, HoldEnds(h) PROVE HeardInv'
  BY <1>20 DEF HoldEnds, HeardInv, TypeOK, tasks, serving, agent, traffic
<1>21. ASSUME NEW h \in Handlers, Reply(h) PROVE HeardInv'
  BY <1>21 DEF Reply, Free, HeardInv, TypeOK, tasks, serving, agent, traffic
<1>22. ASSUME NEW h \in Handlers, ReplyUnheard(h) PROVE HeardInv'
  BY <1>22 DEF ReplyUnheard, Free, HeardInv, TypeOK, tasks, serving, agent, traffic
<1>23. ASSUME Use PROVE HeardInv'
  BY <1>23 DEF Use, HeardInv, TypeOK, tasks, serving, agent, traffic
<1>24. ASSUME Silence PROVE HeardInv'
  BY <1>24 DEF Silence, HeardInv, TypeOK, tasks, serving, agent, traffic
<1>25. ASSUME NEW ok \in BOOLEAN, SweepRead(ok) PROVE HeardInv'
  BY <1>25 DEF SweepRead, Trouble, HeardInv, TypeOK, tasks, serving, agent, traffic
<1>26. ASSUME NEW ok \in BOOLEAN, SweepCredit(ok) PROVE HeardInv'
  BY <1>26 DEF SweepCredit, Trouble, HeardInv, TypeOK, tasks, serving, agent, traffic
<1>27. ASSUME SendLost PROVE HeardInv'
  BY <1>27 DEF SendLost, Collect, Trouble, HeardInv, TypeOK, tasks, serving, agent, traffic
<1>28. ASSUME GiveUp PROVE HeardInv'
  BY <1>28 DEF GiveUp, Disconnected, Trouble, HeardInv, TypeOK, tasks, serving, agent, traffic
<1>29. ASSUME AgentRestart PROVE HeardInv'
  BY <1>29 DEF AgentRestart, Trouble, HeardInv, TypeOK, tasks, serving, agent, traffic
<1>30. ASSUME PanelCrash PROVE HeardInv'
  BY <1>30 DEF PanelCrash, Disconnected, Trouble, HeardInv, TypeOK, tasks, serving, agent, traffic
<1>31. CASE UNCHANGED vars
  BY <1>31 DEF HeardInv, TypeOK, tasks, serving, agent, traffic, vars
<1> QED
  BY <1>1, <1>2, <1>3, <1>4, <1>5, <1>6, <1>7, <1>8, <1>9, <1>10, <1>11, <1>12, <1>13,
     <1>14, <1>15, <1>16, <1>17, <1>18, <1>19, <1>20, <1>21, <1>22, <1>23, <1>24,
     <1>25, <1>26, <1>27, <1>28, <1>29, <1>30, <1>31
  DEF Next, CallerStep, HandlerStep, Misfortune

\* What leaves the counters stays with somebody.
LEMMA TrafficStep ==
  ASSUME NodeAssumption, TypeOK, RunInv, TrafficInv, [Next]_vars
  PROVE TrafficInv'
<1>1. ASSUME NEW c \in Calls, Ask(c) PROVE TrafficInv'
  BY <1>1 DEF Ask, CallAt, TrafficInv, TrafficKept, RunInv, TypeOK, Load, tasks, serving, agent, traffic
<1>2. ASSUME NEW c \in Calls, AskSsh(c) PROVE TrafficInv'
  BY <1>2 DEF AskSsh, CallAt, TrafficInv, TrafficKept, RunInv, TypeOK, Load, tasks, serving, agent, traffic
<1>3. ASSUME NEW c \in Calls, Wake(c) PROVE TrafficInv'
  BY <1>3 DEF Wake, CallAt, TrafficInv, TrafficKept, RunInv, TypeOK, Load, tasks, serving, agent, traffic
<1>4. ASSUME NEW c \in Calls, Register(c) PROVE TrafficInv'
  BY <1>4 DEF Register, CallAt, TrafficInv, TrafficKept, RunInv, TypeOK, Load, tasks, serving, agent, traffic
<1>5. ASSUME NEW c \in Calls, CheckEarly(c) PROVE TrafficInv'
  BY <1>5 DEF CheckEarly, CallAt, Answer, TrafficInv, TrafficKept, RunInv, TypeOK, Load, tasks, serving, agent, traffic
<1>6. ASSUME NEW c \in Calls, StartWaiting(c) PROVE TrafficInv'
  BY <1>6 DEF StartWaiting, CallAt, TrafficInv, TrafficKept, RunInv, TypeOK, Load, tasks, serving, agent, traffic
<1>7. ASSUME NEW c \in Calls, Heard(c) PROVE TrafficInv'
  BY <1>7 DEF Heard, CallAt, Answer, TrafficInv, TrafficKept, RunInv, TypeOK, Load, tasks, serving, agent, traffic
<1>8. ASSUME NEW c \in Calls, TimeOut(c) PROVE TrafficInv'
  BY <1>8 DEF TimeOut, CallAt, TrafficInv, TrafficKept, RunInv, TypeOK, Load, tasks, serving, agent, traffic
<1>9. ASSUME NEW c \in Calls, Ssh(c) PROVE TrafficInv'
  BY <1>9 DEF Ssh, CallAt, TrafficInv, TrafficKept, RunInv, TypeOK, Load, tasks, serving, agent, traffic
<1>10. ASSUME NEW c \in Calls, SshFails(c) PROVE TrafficInv'
  BY <1>10 DEF SshFails, CallAt, TrafficInv, TrafficKept, RunInv, TypeOK, Load, tasks, serving, agent, traffic
<1>11. ASSUME NEW c \in Calls, Expire(c) PROVE TrafficInv'
  BY <1>11 DEF Expire, TrafficInv, TrafficKept, RunInv, TypeOK, Load, tasks, serving, agent, traffic
<1>12. ASSUME NEW c \in Calls, SetEvent(c) PROVE TrafficInv'
  BY <1>12 DEF SetEvent, TrafficInv, TrafficKept, RunInv, TypeOK, Load, tasks, serving, agent, traffic
<1>13. ASSUME NEW c \in Calls, NEW ok \in BOOLEAN, RunTask(c, ok) PROVE TrafficInv'
  BY <1>13 DEF RunTask, TrafficInv, TrafficKept, RunInv, TypeOK, Load, tasks, serving, agent, traffic
<1>14. ASSUME NEW h \in Handlers, NEW ok \in BOOLEAN, Send(h, ok) PROVE TrafficInv'
  BY <1>14 DEF Send, Collect, Trouble, TrafficInv, TrafficKept, RunInv, TypeOK, Load, tasks, serving, agent, traffic
<1>15. ASSUME NEW h \in Handlers, NEW ok \in BOOLEAN, Credit(h, ok) PROVE TrafficInv'
  BY <1>15 DEF Credit, Trouble, TrafficInv, TrafficKept, RunInv, TypeOK, Load, tasks, serving, agent, traffic
<1>16. ASSUME NEW h \in Handlers, Ack(h) PROVE TrafficInv'
  BY <1>16 DEF Ack, Listening, TrafficInv, TrafficKept, RunInv, TypeOK, Load, tasks, serving, agent, traffic
<1>17. ASSUME NEW h \in Handlers, Clear(h) PROVE TrafficInv'
  BY <1>17 DEF Clear, TrafficInv, TrafficKept, RunInv, TypeOK, Load, tasks, serving, agent, traffic
<1>18. ASSUME NEW h \in Handlers, TakeRead(h) PROVE TrafficInv'
  BY <1>18 DEF TakeRead, Waiting, TrafficInv, TrafficKept, RunInv, TypeOK, Load, tasks, serving, agent, traffic
<1>19. ASSUME NEW h \in Handlers, TakeCommit(h) PROVE TrafficInv'
  BY <1>19 DEF TakeCommit, TrafficInv, TrafficKept, RunInv, TypeOK, Load, tasks, serving, agent, traffic
<1>20. ASSUME NEW h \in Handlers, HoldEnds(h) PROVE TrafficInv'
  BY <1>20 DEF HoldEnds, TrafficInv, TrafficKept, RunInv, TypeOK, Load, tasks, serving, agent, traffic
<1>21. ASSUME NEW h \in Handlers, Reply(h) PROVE TrafficInv'
  BY <1>21 DEF Reply, Free, TrafficInv, TrafficKept, RunInv, TypeOK, Load, tasks, serving, agent, traffic
<1>22. ASSUME NEW h \in Handlers, ReplyUnheard(h) PROVE TrafficInv'
  BY <1>22 DEF ReplyUnheard, Free, TrafficInv, TrafficKept, RunInv, TypeOK, Load, tasks, serving, agent, traffic
<1>23. ASSUME Use PROVE TrafficInv'
  BY <1>23 DEF Use, TrafficInv, TrafficKept, RunInv, TypeOK, Load, tasks, serving, agent, traffic
<1>24. ASSUME Silence PROVE TrafficInv'
  BY <1>24 DEF Silence, TrafficInv, TrafficKept, RunInv, TypeOK, Load, tasks, serving, agent, traffic
<1>25. ASSUME NEW ok \in BOOLEAN, SweepRead(ok) PROVE TrafficInv'
  BY <1>25 DEF SweepRead, Trouble, TrafficInv, TrafficKept, RunInv, TypeOK, Load, tasks, serving, agent, traffic
<1>26. ASSUME NEW ok \in BOOLEAN, SweepCredit(ok) PROVE TrafficInv'
  BY <1>26 DEF SweepCredit, Trouble, TrafficInv, TrafficKept, RunInv, TypeOK, Load, tasks, serving, agent, traffic
<1>27. ASSUME SendLost PROVE TrafficInv'
  BY <1>27 DEF SendLost, Collect, Trouble, TrafficInv, TrafficKept, RunInv, TypeOK, Load, tasks, serving, agent, traffic
<1>28. ASSUME GiveUp PROVE TrafficInv'
  BY <1>28 DEF GiveUp, Disconnected, Trouble, TrafficInv, TrafficKept, RunInv, TypeOK, Load, tasks, serving, agent, traffic
<1>29. ASSUME AgentRestart PROVE TrafficInv'
  BY <1>29 DEF AgentRestart, Trouble, TrafficInv, TrafficKept, RunInv, TypeOK, Load, tasks, serving, agent, traffic
<1>30. ASSUME PanelCrash PROVE TrafficInv'
  BY <1>30 DEF PanelCrash, Disconnected, Trouble, TrafficInv, TrafficKept, RunInv, TypeOK, Load, tasks, serving, agent, traffic
<1>31. CASE UNCHANGED vars
  BY <1>31 DEF TrafficInv, TrafficKept, RunInv, TypeOK, Load, tasks, serving, agent, traffic, vars
<1> QED
  BY <1>1, <1>2, <1>3, <1>4, <1>5, <1>6, <1>7, <1>8, <1>9, <1>10, <1>11, <1>12, <1>13,
     <1>14, <1>15, <1>16, <1>17, <1>18, <1>19, <1>20, <1>21, <1>22, <1>23, <1>24,
     <1>25, <1>26, <1>27, <1>28, <1>29, <1>30, <1>31
  DEF Next, CallerStep, HandlerStep, Misfortune

--------------------------------------------------------------------------------
(* Traffic booked twice                                                    *)

\* The traffic the reports being served still bring, unit by unit.
Span(h, n) == {h} \X (0 .. (n - 1))
Brought(h) == Span(h, load[h].delta)
InFlight == {u \in Handlers \X Nat : u[2] < load[u[1]].delta}

\* Every unit is in one place, those of a lost answer in two.
BookInv ==
  /\ IsFiniteSet(InFlight)
  /\ counter + hand + credited + Cardinality(InFlight) + (IF took THEN 0 ELSE pend)
       <= used + repeated

\* What a report brings is as much as it says.
LEMMA SpanSize ==
  ASSUME NEW h, NEW n \in Nat
  PROVE  IsFiniteSet(Span(h, n)) /\ Cardinality(Span(h, n)) = n
<1>1. n - 1 \in Int /\ (0 > n - 1 => n = 0) /\ (n - 1) - 0 + 1 = n
  OBVIOUS
<1>2. IsFiniteSet(0 .. (n - 1))
  BY <1>1, FS_Interval
<1>3. Cardinality(0 .. (n - 1)) = IF 0 > n - 1 THEN 0 ELSE (n - 1) - 0 + 1
  BY <1>1, FS_Interval
<1>4. Cardinality(0 .. (n - 1)) = n
  BY <1>1, <1>3
<1>5. IsFiniteSet({h}) /\ Cardinality({h}) = 1
  BY FS_Singleton
<1>6. IsFiniteSet(Span(h, n)) /\ Cardinality(Span(h, n)) = 1 * n
  BY <1>2, <1>4, <1>5, FS_Product DEF Span
<1> QED
  BY <1>6

LEMMA BroughtSize ==
  ASSUME TypeOK, NEW h \in Handlers
  PROVE  /\ IsFiniteSet(Brought(h)) /\ Cardinality(Brought(h)) = load[h].delta
         /\ Brought(h) \subseteq InFlight
         /\ \A u \in InFlight : u \in Brought(h) <=> u[1] = h
<1>1. load[h].delta \in Nat
  BY DEF TypeOK, Load
<1>2. Brought(h) \subseteq InFlight
  BY <1>1 DEF Brought, Span, InFlight
<1>3. \A u \in InFlight : u \in Brought(h) <=> u[1] = h
  BY <1>1 DEF Brought, Span, InFlight
<1> QED
  BY <1>1, <1>2, <1>3, SpanSize DEF Brought

\* A step that moves no traffic keeps the book.
LEMMA QuietBook ==
  ASSUME BookInv, UNCHANGED <<load, took, pend, used, counter, hand, credited, repeated>>
  PROVE  BookInv'
<1>1. InFlight' = InFlight
  BY DEF InFlight
<1> QED
  BY <1>1 DEF BookInv

\* A report begins: the traffic it takes along is what the agent has.
LEMMA SendBook ==
  ASSUME NodeAssumption, TypeOK, RunInv, TrafficInv, BookInv,
         NEW h \in Handlers, NEW ok \in BOOLEAN, Send(h, ok)
  PROVE  BookInv'
<1>1. TypeOK'
  BY TypeStep DEF Next, HandlerStep, Misfortune
<1>2. IsFiniteSet(Brought(h)') /\ Cardinality(Brought(h)') = load'[h].delta
  <2>1. load'[h].delta \in Nat
    BY <1>1 DEF TypeOK, Load
  <2> QED
    BY <2>1, SpanSize DEF Brought
<1>3. InFlight' \subseteq InFlight \union Brought(h)'
  BY <1>1 DEF InFlight, Brought, Span, Send, TypeOK, Load
<1>4. /\ IsFiniteSet(InFlight \union Brought(h)')
      /\ Cardinality(InFlight \union Brought(h)') <= Cardinality(InFlight) + load'[h].delta
  <2>1. IsFiniteSet(InFlight \intersect Brought(h)')
    BY FS_Intersection DEF BookInv
  <2>2. Cardinality(InFlight \intersect Brought(h)') \in Nat /\ Cardinality(InFlight) \in Nat
    BY <2>1, FS_CardinalityType DEF BookInv
  <2>3. load'[h].delta \in Nat
    BY <1>1 DEF TypeOK, Load
  <2> DEFINE A == InFlight
             B == Brought(h)'
             d == load'[h].delta
  <2>4. IsFiniteSet(A) /\ IsFiniteSet(B) /\ Cardinality(B) = d /\ d \in Nat
    BY <1>2, <2>3 DEF BookInv
  <2>5. Cardinality(A \intersect B) \in Nat /\ Cardinality(A) \in Nat
    BY <2>2
  <2> HIDE DEF A, B, d
  <2>6. /\ IsFiniteSet(A \union B)
        /\ Cardinality(A \union B) = Cardinality(A) + Cardinality(B) - Cardinality(A \intersect B)
    BY <2>4, FS_Union
  <2>7. IsFiniteSet(A \union B) /\ Cardinality(A \union B) <= Cardinality(A) + d
    BY <2>4, <2>5, <2>6
  <2> QED
    BY <2>7 DEF A, B, d
<1>5. /\ IsFiniteSet(InFlight')
      /\ Cardinality(InFlight') <= Cardinality(InFlight) + load'[h].delta
  <2>1. IsFiniteSet(InFlight') /\ Cardinality(InFlight') <= Cardinality(InFlight \union Brought(h)')
    BY <1>3, <1>4, FS_Subset
  <2>2. /\ Cardinality(InFlight') \in Nat /\ Cardinality(InFlight) \in Nat
        /\ Cardinality(InFlight \union Brought(h)') \in Nat /\ load'[h].delta \in Nat
    BY <1>1, <1>4, <2>1, FS_CardinalityType DEF BookInv, TypeOK, Load
  <2> QED
    BY <1>4, <2>1, <2>2
<1>6. ~took
  BY DEF Send, RunInv, TrafficInv
<1>7. load'[h].delta = IF took' THEN pend' ELSE 0
  BY DEF Send, TypeOK
<1>8. counter' + pend' <= counter + pend
  BY DEF Send, Collect, TypeOK
<1>9. Cardinality(InFlight') \in Nat /\ Cardinality(InFlight) \in Nat
  BY <1>5, FS_CardinalityType DEF BookInv
<1>10. UNCHANGED <<used, hand, credited, repeated>>
  BY DEF Send
<1>11. /\ {used, hand, credited, repeated, counter, pend, counter', pend'} \subseteq Nat
       /\ took \in BOOLEAN /\ took' \in BOOLEAN
  BY <1>1 DEF TypeOK
<1>12. counter' + hand' + credited' + Cardinality(InFlight') + (IF took' THEN 0 ELSE pend')
         <= used' + repeated'
  BY <1>5, <1>6, <1>7, <1>8, <1>9, <1>10, <1>11 DEF BookInv
<1> QED
  BY <1>5, <1>12 DEF BookInv

\* A report is booked: what it brought is in the accounts, or gone.
LEMMA CreditBook ==
  ASSUME NodeAssumption, TypeOK, BookInv, NEW h \in Handlers, NEW ok \in BOOLEAN, Credit(h, ok)
  PROVE  BookInv'
<1>1. InFlight' = InFlight \ Brought(h)
  <2>1. \A g \in Handlers : load'[g].delta = IF g = h THEN 0 ELSE load[g].delta
    BY DEF Credit, TypeOK, Load
  <2>2. \A u \in InFlight : u \in Brought(h) <=> u[1] = h
    BY BroughtSize
  <2> QED
    BY <2>1, <2>2 DEF InFlight
<1>2. /\ IsFiniteSet(Brought(h)) /\ Cardinality(Brought(h)) = load[h].delta
      /\ InFlight \intersect Brought(h) = Brought(h)
  BY BroughtSize
<1>3. /\ IsFiniteSet(InFlight')
      /\ Cardinality(InFlight') = Cardinality(InFlight) - load[h].delta
  <2>1. IsFiniteSet(InFlight)
    BY DEF BookInv
  <2>2. /\ IsFiniteSet(InFlight \ Brought(h))
        /\ Cardinality(InFlight \ Brought(h))
             = Cardinality(InFlight) - Cardinality(InFlight \intersect Brought(h))
    BY <2>1, FS_Difference
  <2> QED
    BY <1>1, <1>2, <2>2
<1>4. /\ credited' <= credited + load[h].delta /\ credited' \in Nat
      /\ load[h].delta \in Nat
  BY DEF Credit, TypeOK, Load
<1>5. Cardinality(InFlight) \in Nat
  BY FS_CardinalityType DEF BookInv
<1>6. UNCHANGED <<took, pend, used, counter, hand, repeated>>
  BY DEF Credit, agent
<1> QED
  BY <1>3, <1>4, <1>5, <1>6 DEF BookInv, TypeOK

LEMMA BookStep ==
  ASSUME NodeAssumption, TypeOK, RunInv, TrafficInv, BookInv, [Next]_vars
  PROVE BookInv'
<1>1. ASSUME NEW c \in Calls, Ask(c) PROVE BookInv'
  BY <1>1, QuietBook DEF Ask, tasks, serving, agent, traffic
<1>2. ASSUME NEW c \in Calls, AskSsh(c) PROVE BookInv'
  BY <1>2, QuietBook DEF AskSsh, tasks, serving, agent, traffic
<1>3. ASSUME NEW c \in Calls, Wake(c) PROVE BookInv'
  BY <1>3, QuietBook DEF Wake, tasks, serving, agent, traffic
<1>4. ASSUME NEW c \in Calls, Register(c) PROVE BookInv'
  BY <1>4, QuietBook DEF Register, tasks, serving, agent, traffic
<1>5. ASSUME NEW c \in Calls, CheckEarly(c) PROVE BookInv'
  BY <1>5, QuietBook DEF CheckEarly, tasks, serving, agent, traffic
<1>6. ASSUME NEW c \in Calls, StartWaiting(c) PROVE BookInv'
  BY <1>6, QuietBook DEF StartWaiting, tasks, serving, agent, traffic
<1>7. ASSUME NEW c \in Calls, Heard(c) PROVE BookInv'
  BY <1>7, QuietBook DEF Heard, tasks, serving, agent, traffic
<1>8. ASSUME NEW c \in Calls, TimeOut(c) PROVE BookInv'
  BY <1>8, QuietBook DEF TimeOut, tasks, serving, agent, traffic
<1>9. ASSUME NEW c \in Calls, Ssh(c) PROVE BookInv'
  BY <1>9, QuietBook DEF Ssh, tasks, serving, agent, traffic
<1>10. ASSUME NEW c \in Calls, SshFails(c) PROVE BookInv'
  BY <1>10, QuietBook DEF SshFails, tasks, serving, agent, traffic
<1>11. ASSUME NEW c \in Calls, Expire(c) PROVE BookInv'
  BY <1>11, QuietBook DEF Expire, tasks, serving, agent, traffic
<1>12. ASSUME NEW c \in Calls, SetEvent(c) PROVE BookInv'
  BY <1>12, QuietBook DEF SetEvent, tasks, serving, agent, traffic
<1>13. ASSUME NEW c \in Calls, NEW ok \in BOOLEAN, RunTask(c, ok) PROVE BookInv'
  BY <1>13, QuietBook DEF RunTask, tasks, serving, agent, traffic
<1>14. ASSUME NEW h \in Handlers, NEW ok \in BOOLEAN, Send(h, ok) PROVE BookInv'
  BY <1>14, SendBook
<1>15. ASSUME NEW h \in Handlers, NEW ok \in BOOLEAN, Credit(h, ok) PROVE BookInv'
  BY <1>15, CreditBook
<1>16. ASSUME NEW h \in Handlers, Ack(h) PROVE BookInv'
  <2>1. \A g \in Handlers : load'[g].delta = load[g].delta
    BY <1>16 DEF Ack, TypeOK, Load
  <2>2. InFlight' = InFlight
    BY <2>1 DEF InFlight
  <2> QED
    BY <1>16, <2>2 DEF Ack, BookInv, tasks, serving, agent, traffic
<1>17. ASSUME NEW h \in Handlers, Clear(h) PROVE BookInv'
  BY <1>17, QuietBook DEF Clear, Free, tasks, serving, agent, traffic
<1>18. ASSUME NEW h \in Handlers, TakeRead(h) PROVE BookInv'
  BY <1>18, QuietBook DEF TakeRead, Free, tasks, serving, agent, traffic
<1>19. ASSUME NEW h \in Handlers, TakeCommit(h) PROVE BookInv'
  BY <1>19, QuietBook DEF TakeCommit, Free, tasks, serving, agent, traffic
<1>20. ASSUME NEW h \in Handlers, HoldEnds(h) PROVE BookInv'
  BY <1>20, QuietBook DEF HoldEnds, Free, tasks, serving, agent, traffic
<1>21. ASSUME NEW h \in Handlers, ReplyUnheard(h) PROVE BookInv'
  BY <1>21, QuietBook DEF ReplyUnheard, Free, tasks, serving, agent, traffic
<1>22. ASSUME Silence PROVE BookInv'
  BY <1>22, QuietBook DEF Silence, tasks, serving, agent, traffic
<1>23. CASE UNCHANGED vars
  BY <1>23, QuietBook DEF vars, tasks, serving, agent, traffic
<1>24. IsFiniteSet(InFlight) /\ Cardinality(InFlight) \in Nat
  BY FS_CardinalityType DEF BookInv
<1>25. load' = load => InFlight' = InFlight
  BY DEF InFlight
<1>26. ASSUME NEW h \in Handlers, Reply(h) PROVE BookInv'
  BY <1>26, <1>24, <1>25 DEF Reply, Free, RunInv, TrafficInv, BookInv, TypeOK, tasks, serving, agent, traffic
<1>27. ASSUME Use PROVE BookInv'
  BY <1>27, <1>24, <1>25 DEF Use, BookInv, TypeOK, tasks, serving, agent, traffic
<1>28. ASSUME NEW ok \in BOOLEAN, SweepRead(ok) PROVE BookInv'
  BY <1>28, <1>24, <1>25 DEF SweepRead, Trouble, BookInv, TypeOK, tasks, serving, agent, traffic
<1>29. ASSUME NEW ok \in BOOLEAN, SweepCredit(ok) PROVE BookInv'
  BY <1>29, <1>24, <1>25 DEF SweepCredit, Trouble, BookInv, TypeOK, tasks, serving, agent, traffic
<1>30. ASSUME SendLost PROVE BookInv'
  BY <1>30, <1>24, <1>25 DEF SendLost, Collect, Trouble, RunInv, TrafficInv, BookInv, TypeOK, tasks, serving, agent, traffic
<1>31. ASSUME GiveUp PROVE BookInv'
  BY <1>31, <1>24, <1>25 DEF GiveUp, Disconnected, Trouble, RunInv, TrafficInv, BookInv, TypeOK, tasks, serving, agent, traffic
<1>32. ASSUME AgentRestart PROVE BookInv'
  BY <1>32, <1>24, <1>25 DEF AgentRestart, Trouble, BookInv, TypeOK, tasks, serving, agent, traffic
<1>33. ASSUME PanelCrash PROVE BookInv'
  <2>1. InFlight' = {}
    BY <1>33 DEF PanelCrash, InFlight, Empty
  <2>2. IsFiniteSet(InFlight') /\ Cardinality(InFlight') = 0
    BY <2>1, FS_EmptySet
  <2> QED
    BY <1>33, <1>24, <2>2 DEF PanelCrash, Disconnected, Trouble, RunInv, TrafficInv, BookInv, TypeOK, tasks, serving, agent, traffic
<1> QED
  BY <1>1, <1>2, <1>3, <1>4, <1>5, <1>6, <1>7, <1>8, <1>9, <1>10, <1>11, <1>12, <1>13,
     <1>14, <1>15, <1>16, <1>17, <1>18, <1>19, <1>20, <1>21, <1>22, <1>23, <1>26,
     <1>27, <1>28, <1>29, <1>30, <1>31, <1>32, <1>33
  DEF Next, CallerStep, HandlerStep, Misfortune

--------------------------------------------------------------------------------
(* Theorems                                                                *)

Inv == WordInv /\ RunInv /\ WakeInv /\ HeardInv /\ TrafficInv /\ BookInv

\* The parts of the invariant hold at the start.
LEMMA InvInit == Init => Inv
<1> SUFFICES ASSUME Init PROVE Inv
  OBVIOUS
<1>1. WordInv
  BY DEF Init, WordInv, DoneIsApplied, Empty
<1>2. RunInv
  BY NodeAssumption DEF Init, RunInv, RunOnce
<1>3. WakeInv
  BY DEF Init, WakeInv, NoLostWakeup, Waiting
<1>4. HeardInv
  BY DEF Init, HeardInv
<1>5. TrafficInv
  BY DEF Init, TrafficInv, TrafficKept
<1>6. BookInv
  <2>1. InFlight = {}
    BY DEF Init, InFlight, Empty
  <2> QED
    BY <2>1, FS_EmptySet DEF Init, BookInv
<1> QED
  BY <1>1, <1>2, <1>3, <1>4, <1>5, <1>6 DEF Inv

\* The variables of NodeAgent have their types in every reachable state.
THEOREM TypeCorrect == Spec => []TypeOK
<1>1. TypeOK /\ [Next]_vars => TypeOK'
  BY TypeStep, NodeAssumption
<1> QED
  BY <1>1, TypeInit, PTL DEF Spec

\* The invariant holds in every reachable state.
LEMMA InvariantCorrect == Spec => []Inv
<1>1. TypeOK /\ Inv /\ [Next]_vars => Inv'
  BY NodeAssumption, WordStep, RunStep, WakeStep, HeardStep, TrafficStep, BookStep DEF Inv
<1> QED
  BY <1>1, InvInit, TypeCorrect, PTL DEF Spec

\* A caller told that its work is done relies on work the node has done, for any number
\* of tasks, held reports, lost answers, restarts and crashes.
THEOREM DoneCorrect == Spec => []DoneIsApplied
<1>1. Inv => DoneIsApplied
  BY DEF Inv, WordInv
<1> QED
  BY <1>1, InvariantCorrect, PTL

\* The agent carries no task out twice, though take() holds no lock.
THEOREM RunOnceCorrect == Spec => []RunOnce
<1>1. Inv => RunOnce
  BY DEF Inv, RunInv
<1> QED
  BY <1>1, InvariantCorrect, PTL

\* No held report sleeps over a task that nobody is about to wake it for, or to take.
THEOREM WakeupCorrect == Spec => []NoLostWakeup
<1>1. Inv => NoLostWakeup
  BY DEF Inv, WakeInv
<1> QED
  BY <1>1, InvariantCorrect, PTL

\* A caller that waits for a closed task has been told.
THEOREM HeardCorrect == Spec => []AckIsHeard
<1>1. Inv => AckIsHeard
  BY DEF Inv, HeardInv, AckIsHeard
<1> QED
  BY <1>1, InvariantCorrect, PTL

\* Traffic is lost only with a crash, a failed collection or a failed booking.
THEOREM TrafficCorrect == Spec => []TrafficKept
<1>1. Inv => TrafficKept
  BY DEF Inv, TrafficInv
<1> QED
  BY <1>1, InvariantCorrect, PTL

\* Traffic is booked twice only with a report whose answer was lost.
THEOREM RepeatCorrect == Spec => []RepeatIsBounded
<1>1. TypeOK /\ Inv => RepeatIsBounded
  <2> SUFFICES ASSUME TypeOK, Inv PROVE RepeatIsBounded
    OBVIOUS
  <2>1. Cardinality(InFlight) \in Nat
    BY FS_CardinalityType DEF Inv, BookInv
  <2> QED
    BY <2>1 DEF Inv, BookInv, RepeatIsBounded, TypeOK
<1> QED
  BY <1>1, TypeCorrect, InvariantCorrect, PTL

================================================================================
