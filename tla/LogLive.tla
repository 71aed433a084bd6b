------------------------------ MODULE LogLive -------------------------------
(***************************************************************************)
(* Progress of the log.  Without a bound on the calls, others may overtake *)
(* a process in begin_op() forever, so each process makes at most MaxCalls *)
(* calls and the power fails at most MaxCrashes times.                     *)
(***************************************************************************)
EXTENDS Log

CONSTANTS MaxCalls, MaxCrashes

VARIABLES calls, crashes

livevars == <<vars, calls, crashes>>

LiveInit ==
  /\ Init
  /\ calls = [p \in Proc |-> 0]
  /\ crashes = 0

(* A new call of begin_op(); a woken process retries without a new call.   *)
NewCall(p) ==
  /\ pc[p] = "out"
  /\ calls[p] < MaxCalls
  /\ BeginOp(p)
  /\ calls' = [calls EXCEPT ![p] = @ + 1]
  /\ UNCHANGED crashes

Retry(p) == pc[p] = "woken" /\ BeginOp(p)
BufferStep(p) ==
  \/ \E b \in Block : Bread(p, b)
  \/ \E v \in Val : LogWrite(p, v)

Steady(A) == ~Panicked /\ A /\ UNCHANGED <<calls, crashes>>

LiveCrash ==
  /\ crashes < MaxCrashes
  /\ Crash
  /\ crashes' = crashes + 1
  /\ UNCHANGED calls

LiveNext ==
  \/ \E p \in Proc :
       \/ ~Panicked /\ NewCall(p)
       \/ Steady(Retry(p) \/ BufferStep(p) \/ Brelse(p) \/ EndOp(p))
  \/ Steady(CommitStep \/ RecoveryStep \/ CacheStep)
  \/ LiveCrash

(* The scheduler runs every runnable process (weak fairness).  A call uses *)
(* finitely many buffers, so one that could end again and again does end   *)
(* (strong fairness of EndOp); the disk completes every request.           *)
Fairness ==
  /\ \A p \in Proc : /\ WF_livevars(Steady(Retry(p)))
                     /\ WF_livevars(Steady(Brelse(p)))
                     /\ SF_livevars(Steady(EndOp(p)))
  /\ WF_livevars(Steady(CommitStep))
  /\ WF_livevars(Steady(RecoveryStep))

LiveSpec == LiveInit /\ [][LiveNext]_livevars /\ Fairness

(* Every process waiting in begin_op() is let in (or loses its power): the *)
(* wakeups of end_op() reach every reason begin_op() has to wait.          *)
BeginOpReturns ==
  \A p \in Proc : pc[p] \in {"asleep", "woken"} ~> InOp(p) \/ phase = "read_head"
=============================================================================
