----------------------------- MODULE RuntimeLog ------------------------------
(***************************************************************************)
(* A runtime together with the capture of its native log: when start(),    *)
(* close() and the death of the SIP thread start and stop what             *)
(* LogCapture.tla describes, and which threads still log then.             *)
(***************************************************************************)
EXTENDS Runtime, LogCapture

VARIABLES
    stopped,   \* _stop_native_log has called bp_log_stop
    unseen     \* history: the stack logged a line while nothing was captured

capVars == <<logVars, stopped, unseen>>
sysVars == <<vars, capVars>>

SysInit == Init /\ LogInit /\ stopped = FALSE /\ unseen = FALSE

-----------------------------------------------------------------------------

(* The capture is started between the sink and the SIP thread, which is    *)
(* the last thing that start() does before it waits.                       *)
StartCapturing ==
    /\ Start
    /\ \/ sink' /\ LogStart
       \/ re' = "none" /\ UNCHANGED logVars
    /\ UNCHANGED <<stopped, unseen>>

(* Mutant of StopCapture: before the SIP thread is joined. *)
StopCaptureEarly ==
    /\ life \in {"close_join", "close_log", "ended"} /\ ~stopped
    /\ LogStop
    /\ stopped' = TRUE
    /\ UNCHANGED <<vars, unseen>>

(* _stop_native_log, once the SIP thread was joined or given up.  (After a *)
(* failed start it keeps the loop, which has no part in the capture.)      *)
StopCapture ==
    /\ life \in {"close_log", "ended"} /\ ~stopped
    /\ LogStop
    /\ stopped' = TRUE
    /\ UNCHANGED <<vars, unseen>>

(* Its join: the log thread has ended, or has two seconds not been enough. *)
CaptureClosed == Closed /\ stopped /\ UNCHANGED capVars

(* The SIP thread that dies stops the capture, and does not wait. *)
DieCapturing == Die /\ LogStop /\ UNCHANGED <<stopped, unseen>>

(* A thread of the stack logs: it is there until bp_loop_done has returned. *)
StackLogs ==
    /\ re \in {"init", "loop", "left", "unwind"}
    /\ \E len \in 1 .. MaxText : LogWrite(len)
    /\ unseen' = (unseen \/ ~reading)
    /\ UNCHANGED <<vars, stopped>>

LogThread(r) == ReaderSteps(r) /\ UNCHANGED <<vars, stopped, unseen>>

Wakes == (\E r \in 1 .. MaxRuns : Spurious(r)) /\ UNCHANGED <<vars, stopped, unseen>>

(* The next runtime of the process, of which only the capture is described: *)
(* it may start when this one is over and the process is not poisoned.      *)
Successor ==
    /\ stopped
    /\ \/ ~reading /\ life = "ended" /\ ~active /\ ~poisoned /\ LogStart
       \/ reading /\ LogStop
       \/ reading /\ \E len \in 1 .. MaxText : LogWrite(len)
    /\ UNCHANGED <<vars, stopped, unseen>>

(* The steps of Runtime.tla that the capture has no part in. *)
LifecycleSteps ==
    \/ Started \/ Setting \/ SettingApplied \/ StartReturns \/ StartFails \/ StartFailed
    \/ SendStop \/ Joined

ApplicationSteps == Close \/ Dial \/ \E n \in Cmd : Cancel(n)

ReThreadSteps == ReInit \/ Handle \/ HandleStop \/ LoopDone \/ Unwound \/ CheckClosing

OtherSteps ==
    /\ \/ Push \/ Callbacks \/ Expiries \/ Coroutines
       \/ LifecycleSteps \/ ApplicationSteps \/ ReThreadSteps \/ Outside
    /\ UNCHANGED capVars

SysNext ==
    \/ StartCapturing \/ StopCapture \/ CaptureClosed \/ DieCapturing
    \/ StackLogs \/ (\E r \in 1 .. MaxRuns : LogThread(r)) \/ Wakes \/ Successor \/ OtherSteps

SysSpec == SysInit /\ [][SysNext]_sysVars

(* The loop runs its callbacks and its timeouts, and a join has a timeout; *)
(* the SIP thread need not do anything, except that a thread that has left *)
(* re_main runs to its end; the handlers of the log thread return.         *)
SysFairSpec ==
    /\ SysSpec
    /\ WF_sysVars((Push \/ Callbacks \/ LifecycleSteps) /\ UNCHANGED capVars)
    /\ WF_sysVars(StopCapture \/ CaptureClosed)
    /\ WF_sysVars((CheckClosing /\ UNCHANGED capVars) \/ DieCapturing)
    /\ \A r \in 1 .. MaxRuns : WF_sysVars(LogThread(r))

-----------------------------------------------------------------------------

(* A runtime loses no line of its stack: it captures as long as the stack  *)
(* is up, unless the SIP thread was given up as wedged; what is captured is *)
(* handed over whole and in order, or counted, before its log thread ends.  *)
LinesAreKept ==
    /\ LogTypeOK /\ LinesAreWhole /\ NothingIsLeft
    /\ unseen => poisoned

(* The log thread keeps up when the stack is quiet, and is not left behind  *)
(* asleep: after a stop, by close() or by the SIP thread that dies, every   *)
(* log thread there is ends on an empty ring, unless a next capture begins. *)
LinesAreRead ==
    (log.used > 0 \/ ~reading)
        ~> (log.used = 0 /\ (reading \/ \A r \in 1 .. runs : reader[r] = "ended"))
=============================================================================
