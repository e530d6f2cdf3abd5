------------------------------- MODULE Shutdown -------------------------------
(***************************************************************************)
(* Running and ending `pingenty dashboard` and `pingenty ping` (main.rs,    *)
(* tui/mod.rs, ping.rs under src/src): the main thread sets the terminal    *)
(* up, draws until the user quits and restores it; the ping tasks and the   *)
(* DNS relay share the runtime's worker threads, which a name resolution    *)
(* blocks; a probe waits on a thread of the blocking pool.  When main       *)
(* returns, dropping the runtime waits for every such thread.               *)
(***************************************************************************)
EXTENDS Integers, FiniteSets

CONSTANTS
    Pingers,        \* the ping tasks
    Workers,        \* worker threads of the runtime
    ResolveTime,    \* how long to_socket_addrs may block
    ProbeTime,      \* how long a probe may wait: twice its read timeout
    MaxQueued       \* bound: DNS results waiting for the relay

ASSUME DownAssumption ==
    /\ IsFiniteSet(Pingers) /\ Workers \in Nat
    /\ ResolveTime \in Nat /\ ProbeTime \in Nat /\ MaxQueued \in Nat

VARIABLES
    ui,             \* where the main thread is
    failed,         \* main returns an error
    terminal,       \* what the terminal was switched to: "raw", "alternate"
    pinger,         \* each ping task: [pc, left], left of its blocking call
    queued,         \* results the relay has not yet taken
    waited          \* time since main returned

downVars == <<ui, failed, terminal, pinger, queued, waited>>

DownInit ==
    /\ ui \in {"enable_raw_mode", "select"}
    /\ failed = FALSE
    /\ terminal = {}
    /\ pinger = [i \in Pingers |-> [pc |-> "sleep", left |-> 0]]
    /\ queued = 0 /\ waited = 0

------------------------------------------------------------------------------
(* The main thread. *)

(* Each call: the one after it, and what it does to the terminal.           *)
Steps == [enable_raw_mode    |-> [to |-> "EnterAlternateScreen", set |-> {"raw"}, reset |-> {}],
          EnterAlternateScreen |-> [to |-> "Terminal", set |-> {"alternate"}, reset |-> {}],
          Terminal           |-> [to |-> "draw", set |-> {}, reset |-> {}],
          disable_raw_mode   |-> [to |-> "LeaveAlternateScreen", set |-> {}, reset |-> {"raw"}],
          LeaveAlternateScreen |-> [to |-> "show_cursor", set |-> {}, reset |-> {"alternate"}],
          show_cursor        |-> [to |-> "returned", set |-> {}, reset |-> {}]]

(* A call on the way into the loop or out of it. *)
TerminalCall ==
    /\ ui \in DOMAIN Steps
    /\ ui' = Steps[ui].to
    /\ terminal' = (terminal \cup Steps[ui].set) \ Steps[ui].reset
    /\ UNCHANGED <<failed, pinger, queued, waited>>

(* `?`: an error of any of the calls, or of draw, poll or read, is main's.  *)
TerminalFails ==
    /\ ui \in DOMAIN Steps \cup {"draw", "poll"}
    /\ ui' = "returned"
    /\ failed' = TRUE
    /\ UNCHANGED <<terminal, pinger, queued, waited>>

Free == Cardinality({i \in Pingers : pinger[i].pc = "resolve"}) < Workers

Draw ==
    /\ ui = "draw"
    /\ ui' = "poll"
    /\ UNCHANGED <<failed, terminal, pinger, queued, waited>>

(* Mutant: `q` returns from the loop. *)
ReturnAtOnce == "returned"

AfterQuit == "disable_raw_mode"

(* poll times out or brings another key; or `q` or Ctrl-C. *)
PollKeys ==
    /\ ui = "poll"
    /\ ui' \in {"draw", AfterQuit}
    /\ UNCHANGED <<failed, terminal, pinger, queued, waited>>

(* `ping`: select! between its tasks, which never end, and Ctrl-C.          *)
CtrlCInPing ==
    /\ ui = "select"
    /\ ui' = "returned"
    /\ UNCHANGED <<failed, terminal, pinger, queued, waited>>

(* The runtime is dropped: no task is polled any more, the blocking pool    *)
(* takes no more work, and the drop waits for the threads that are busy.    *)
Busy == {i \in Pingers : pinger[i].pc \in {"resolve", "probe"}}

CloseRuntime ==
    /\ ui = "returned"
    /\ ui' = "closing"
    /\ UNCHANGED <<failed, terminal, pinger, queued, waited>>

Exit ==
    /\ ui = "closing" /\ Busy = {}
    /\ ui' = "gone"
    /\ UNCHANGED <<failed, terminal, pinger, queued, waited>>

------------------------------------------------------------------------------
(* The tasks. *)

Closed == ui \in {"closing", "gone"}

Polls == Free /\ ~Closed

Enter(i, where, time) == pinger' = [pinger EXCEPT ![i] = [pc |-> where, left |-> time]]

(* The sleep is over and the task polled: ping_once blocks its worker.      *)
StartResolve(i) ==
    /\ pinger[i].pc = "sleep" /\ Polls
    /\ Enter(i, "resolve", ResolveTime)
    /\ UNCHANGED <<ui, failed, terminal, queued, waited>>

Resolved == "probe"

(* The name is resolved, and the probe handed to the blocking pool, unless  *)
(* that is closed; or it is not, and the sample is an error.                *)
EndResolve(i) ==
    /\ pinger[i].pc = "resolve"
    /\ \/ Enter(i, IF Closed THEN "sleep" ELSE Resolved, ProbeTime)
       \/ Enter(i, "sleep", 0)
    /\ UNCHANGED <<ui, failed, terminal, queued, waited>>

(* recv_from has returned; what follows (TCP, the sample, the sleep) awaits.*)
EndProbe(i) ==
    /\ pinger[i].pc = "probe"
    /\ Enter(i, "sleep", 0)
    /\ UNCHANGED <<ui, failed, terminal, queued, waited>>

(* The DNS engine sends a result to the relay, and the relay takes it.      *)
EngineSends ==
    /\ ui # "select" /\ Polls /\ queued < MaxQueued
    /\ queued' = queued + 1
    /\ UNCHANGED <<ui, failed, terminal, pinger, waited>>

RelayTakes ==
    /\ Polls /\ queued > 0
    /\ queued' = queued - 1
    /\ UNCHANGED <<ui, failed, terminal, pinger, waited>>

(* Time passes, but not past the end of a blocking call, nor while the main *)
(* thread has something to do.                                              *)
Passed(i) == IF i \in Busy THEN [pinger[i] EXCEPT !.left = @ - 1] ELSE pinger[i]

TimePasses ==
    /\ \A i \in Busy : pinger[i].left > 0
    /\ \/ ui \in {"poll", "select"}
       \/ ui = "closing" /\ Busy # {}
    /\ pinger' = [i \in Pingers |-> Passed(i)]
    /\ waited' = IF ui = "closing" THEN waited + 1 ELSE waited
    /\ UNCHANGED <<ui, failed, terminal, queued>>

Main == TerminalCall \/ TerminalFails \/ Draw \/ PollKeys \/ CloseRuntime \/ Exit

DownNext ==
    \/ Main \/ CtrlCInPing \/ TimePasses \/ EngineSends \/ RelayTakes
    \/ \E i \in Pingers : StartResolve(i) \/ EndResolve(i) \/ EndProbe(i)

(* The main thread and the blocked threads run on, time passes; and a task  *)
(* that is ready again and again is polled, as the run queue is first in,   *)
(* first out.                                                               *)
DownFairness ==
    /\ WF_downVars(Main) /\ WF_downVars(TimePasses)
    /\ \A i \in Pingers : WF_downVars(EndResolve(i)) /\ WF_downVars(EndProbe(i))
    /\ SF_downVars(RelayTakes)

DownSpec == DownInit /\ [][DownNext]_downVars

------------------------------------------------------------------------------
(* Properties. *)

(* Every variable keeps its type, and no more workers are blocked than      *)
(* there are.                                                               *)
DownTypeOK ==
    /\ ui \in DOMAIN Steps \cup {"draw", "poll", "select", "returned", "closing", "gone"}
    /\ terminal \subseteq {"raw", "alternate"}
    /\ pinger \in [Pingers -> [pc : {"sleep", "resolve", "probe"}, left : Nat]]
    /\ queued \in 0..MaxQueued
    /\ Cardinality({i \in Pingers : pinger[i].pc = "resolve"}) <= Workers

(* Whatever probes and resolutions are under way when main returns, the     *)
(* process is gone no later than the longest blocking call takes: nothing   *)
(* new begins while the runtime is dropped.                                 *)
ExitBounded == waited <= IF ResolveTime > ProbeTime THEN ResolveTime ELSE ProbeTime

(* When the dashboard ends without an error, the terminal is as it was; an  *)
(* error of drawing or polling leaves it raw (tui/mod.rs:48).               *)
TerminalRestored ==
    /\ ui \in {"returned", "closing", "gone"} /\ ~failed => terminal = {}
    /\ ui \in {"draw", "poll"} => terminal = {"raw", "alternate"}

(* Leaving is quick and leaves nothing behind.                              *)
LeavesInOrder == ExitBounded /\ TerminalRestored

(* Once main has returned, the process ends.                                *)
ExitCompletes == ui = "returned" ~> ui = "gone"

(* Resolutions that block every worker delay the relay, and do not keep it  *)
(* from its queue (ping.rs:201).                                            *)
RelayRuns == queued = MaxQueued ~> (queued < MaxQueued \/ Closed)
==============================================================================
