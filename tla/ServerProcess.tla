---------------------------- MODULE ServerProcess ----------------------------
(***************************************************************************)
(* The process of the server: its life from start to exit, with the model  *)
(* servers and plugins it starts and stops, and the queue of its log.  The *)
(* queue carries entries that nothing else reads, and a shutdown waits for *)
(* it no longer than five seconds, so a behaviour follows one of the two.  *)
(***************************************************************************)
EXTENDS ServerLifecycle, LogQueue

VARIABLE part       \* what a behaviour follows

processVars == <<vars, queueVars, part>>

ProcessInit == Init /\ QueueInit /\ part \in {"server", "log"}

OfServer(A) == part = "server" /\ A /\ UNCHANGED <<queueVars, part>>
OfLog(A) == part = "log" /\ A /\ UNCHANGED <<vars, part>>

ProcessNext == OfServer(Next) \/ OfLog(QueueNext)

\* The fairness of FairSpec and that of FairQueueSpec.
ProcessSpec ==
    /\ ProcessInit /\ [][ProcessNext]_processVars
    /\ \A c \in Signals : WF_processVars(OfServer(ShutdownStep(c)))
    /\ WF_processVars(OfLog(Tick))
    /\ WF_processVars(OfLog(Wake))
    /\ WF_processVars(OfLog(Insert))
    /\ WF_processVars(OfLog(FinishFlush))
    /\ WF_processVars(OfLog(ExitProcess))
=============================================================================
