----------------------------- MODULE WindowsService ----------------------------
(***************************************************************************)
(* app/postgraph/src/service.rs: the proxy as a Windows service.  The      *)
(* service manager is told what state the service is in, and its Stop      *)
(* reaches the runtime over a channel that a blocking task waits for; the  *)
(* proxy and that task race in a select, and the runtime is dropped before *)
(* the end is reported.  That drop, as tokio defines it, cancels the       *)
(* sessions and waits for every blocking task that has begun.              *)
(***************************************************************************)
EXTENDS Naturals

CONSTANT Sessions  \* the sessions the proxy may run at once

VARIABLES
  servicePc, \* of run_service
  reported,  \* the state last told to the service manager
  exitCode,  \* and the exit code told with "Stopped"
  asked,     \* history: the operator has asked to stop
  channel,   \* is there a message in the channel?
  task,      \* the blocking task that receives it
  proxy,     \* run_mail_proxy
  sessions   \* those that run

serviceVars == <<servicePc, reported, exitCode, asked, channel, task, proxy, sessions>>
told == <<reported, exitCode, asked>>

ServiceInit ==
  /\ servicePc = "registering" /\ reported = "StartPending" /\ exitCode = 0
  /\ asked = FALSE /\ channel = FALSE
  /\ task = "none" /\ proxy = "none" /\ sessions = {}

--------------------------------------------------------------------------------
(* The environment *)

\* Fault, for a mutant of Stop: only a task that waits already is woken.
StopWaiter ==
  /\ reported = "Running" /\ servicePc # "exited"
  /\ asked' = TRUE /\ channel' = (task = "waiting")
  /\ UNCHANGED <<servicePc, reported, exitCode, task, proxy, sessions>>

\* The control handler; a message stays until it is received.
Stop ==
  /\ reported = "Running" /\ servicePc # "exited"
  /\ asked' = TRUE /\ channel' = TRUE
  /\ UNCHANGED <<servicePc, reported, exitCode, task, proxy, sessions>>

SessionStarts ==
  /\ proxy = "serving"
  /\ \E s \in Sessions \ sessions : sessions' = sessions \cup {s}
  /\ UNCHANGED <<servicePc, told, channel, task, proxy>>

SessionEnds ==
  /\ \E s \in sessions : sessions' = sessions \ {s}
  /\ UNCHANGED <<servicePc, told, channel, task, proxy>>

\* accept fails.
ProxyFails ==
  /\ proxy = "serving" /\ proxy' = "failed"
  /\ UNCHANGED <<servicePc, told, channel, task, sessions>>

\* An error that run_service returns; it is logged, and nothing reported.
Fails ==
  /\ servicePc \in {"registering", "starting", "reported", "reporting"}
  /\ servicePc' = "exited"
  /\ UNCHANGED <<told, channel, task, proxy, sessions>>

--------------------------------------------------------------------------------
(* The service *)

Register ==
  /\ servicePc = "registering" /\ servicePc' = "starting"
  /\ UNCHANGED <<told, channel, task, proxy, sessions>>

ReportRunning ==
  /\ servicePc = "starting" /\ servicePc' = "reported"
  /\ reported' = "Running"
  /\ UNCHANGED <<exitCode, asked, channel, task, proxy, sessions>>

\* The runtime starts with both branches of the select.
StartRuntime ==
  /\ servicePc = "reported" /\ servicePc' = "selecting"
  /\ task' = "queued" /\ proxy' = "loading"
  /\ UNCHANGED <<told, channel, sessions>>

TaskStarts ==
  /\ task = "queued" /\ task' = "waiting"
  /\ UNCHANGED <<servicePc, told, channel, proxy, sessions>>

TaskReceives ==
  /\ task = "waiting" /\ channel
  /\ task' = "done" /\ channel' = FALSE
  /\ UNCHANGED <<servicePc, told, proxy, sessions>>

\* The configuration loads, or not; the address is taken, and bind panics.
ProxyStarts ==
  /\ proxy = "loading" /\ proxy' \in {"serving", "failed", "panicked"}
  /\ UNCHANGED <<servicePc, told, channel, task, sessions>>

\* One branch is ready and the other is dropped.  A panic ends the select too.
SelectProxy ==
  /\ servicePc = "selecting" /\ proxy \in {"failed", "panicked"}
  /\ servicePc' = "dropping"
  /\ UNCHANGED <<told, channel, task, proxy, sessions>>

SelectStop ==
  /\ servicePc = "selecting" /\ task = "done"
  /\ servicePc' = "dropping"
  /\ proxy' = "dropped"
  /\ UNCHANGED <<told, channel, task, sessions>>

CancelSession ==
  /\ servicePc = "dropping"
  /\ \E s \in sessions : sessions' = sessions \ {s}
  /\ UNCHANGED <<servicePc, told, channel, task, proxy>>

\* A blocking task that has not begun is not run any more.
CancelTask ==
  /\ servicePc = "dropping" /\ task = "queued" /\ task' = "cancelled"
  /\ UNCHANGED <<servicePc, told, channel, proxy, sessions>>

\* Fault, for a mutant of DropEnds: the runtime is left to end by itself.
DropDetaches ==
  /\ servicePc = "dropping"
  /\ servicePc' = (IF proxy = "panicked" THEN "exited" ELSE "reporting")
  /\ UNCHANGED <<told, channel, task, proxy, sessions>>

\* After a panic the process aborts when it has unwound this far.
DropEnds ==
  /\ servicePc = "dropping" /\ sessions = {} /\ task \in {"done", "cancelled"}
  /\ servicePc' = (IF proxy = "panicked" THEN "exited" ELSE "reporting")
  /\ UNCHANGED <<told, channel, task, proxy, sessions>>

ReportStopped ==
  /\ servicePc = "reporting" /\ servicePc' = "exited"
  /\ reported' = "Stopped"
  /\ exitCode' = (IF proxy = "dropped" THEN 0 ELSE 32769)
  /\ UNCHANGED <<asked, channel, task, proxy, sessions>>

Service ==
  \/ Register \/ ReportRunning \/ StartRuntime
  \/ TaskStarts \/ TaskReceives \/ ProxyStarts \/ SelectProxy \/ SelectStop
  \/ CancelSession \/ CancelTask \/ DropEnds \/ ReportStopped

ServiceNext == Service \/ Stop \/ SessionStarts \/ SessionEnds \/ ProxyFails \/ Fails

\* The process runs; nobody has to stop it, and a session need not end.
ServiceSpec == ServiceInit /\ [][ServiceNext]_serviceVars /\ WF_serviceVars(Service)

--------------------------------------------------------------------------------
(* Properties *)

\* When the service manager is told that the service has stopped, nothing of it
\* runs any more, and the exit code tells an end that was asked for from one by
\* an error of the proxy.
StoppedIsTrue ==
  reported = "Stopped" =>
    /\ sessions = {} /\ task \in {"done", "cancelled"} /\ proxy \in {"failed", "dropped"}
    /\ exitCode = 0 => asked
    /\ exitCode # 0 => proxy = "failed"

\* A stop that the service accepts is followed, whenever it comes: before the
\* runtime is there to receive it, while the configuration loads, with sessions
\* running, or when the proxy has failed.
StopIsFollowed == asked ~> servicePc = "exited"

--------------------------------------------------------------------------------
(* The inductive strengthening of StoppedIsTrue *)

\* Nothing of the proxy is there before the runtime, and none of it starts
\* again once the select is over.
OnlyOnce ==
  /\ servicePc \in {"registering", "starting", "reported"} =>
       task = "none" /\ proxy = "none" /\ sessions = {}
  /\ servicePc \in {"dropping", "reporting"} => proxy \in {"failed", "panicked", "dropped"}

\* A message, and what comes of it, goes back to the operator.
StopWasAsked ==
  /\ channel \/ task = "done" => asked
  /\ proxy = "dropped" => task = "done"

\* run_service gets past the drop of its runtime only when that has waited.
DropHasWaited ==
  servicePc = "reporting" =>
    sessions = {} /\ task \in {"done", "cancelled"} /\ proxy \in {"failed", "dropped"}

ServiceInv ==
  /\ OnlyOnce /\ StopWasAsked /\ DropHasWaited
  /\ reported = "Stopped" => servicePc = "exited"
  /\ StoppedIsTrue
================================================================================
