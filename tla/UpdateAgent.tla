---------------------------- MODULE UpdateAgent ----------------------------
(***************************************************************************)
(* The update agent (update-agent/src): one thread that polls the update   *)
(* server, downloads the bundle it is offered, has RAUC install it, watches *)
(* RAUC's Operation property and reboots.  Every message to the server may *)
(* be lost, the server's answer to it too.                                 *)
(*                                                                         *)
(* The agent is the only client that asks RAUC for installations here.  It *)
(* never hears RAUC's Completed signal: nothing dispatches the connection's *)
(* messages.                                                               *)
(***************************************************************************)
EXTENDS RaucService, Integers

CONSTANTS
    Offers,                     \* the bundles the server may offer
    SleepSeconds,               \* MAIN_LOOP_SLEEP_SECONDS
    StatusCheckInterval,        \* RAUC_STATUS_CHECK_INTERVAL_SECONDS
    ProgressFeedbackInterval,   \* PROGRESS_FEEDBACK_INTERVAL_SECONDS
    InstallationTimeout         \* INSTALLATION_TIMEOUT_SECONDS_MAIN

ASSUME OffersAssumption == Offers \subseteq Bundles
ASSUME TimingAssumption ==
    {SleepSeconds, StatusCheckInterval, ProgressFeedbackInterval, InstallationTimeout}
        \subseteq Nat \ {0}

VARIABLES
    agent,      \* where the agent is
    offer,      \* the bundle it was offered
    elapsed,    \* timeout_counter
    feedback    \* what the server last heard of an update

agentVars == <<agent, offer, elapsed, feedback>>

allVars == <<vars, serviceVars, agentVars>>

AgentStates == {"poll", "start", "download", "install", "wait", "report", "reboot"}

AgentTypeOK ==
    /\ ServiceTypeOK
    /\ agent \in AgentStates
    /\ offer \in Bundles \cup {NoBundle}
    /\ elapsed \in 0 .. InstallationTimeout + SleepSeconds
    /\ feedback \in {"none", "proceeding", "success", "failure"}

AgentInit ==
    /\ ServiceInit
    /\ agent = "poll"
    /\ offer = NoBundle
    /\ elapsed = 0
    /\ feedback = "none"

----------------------------------------------------------------------------
(* From the poll to the download.                                           *)

AgentIn(state) == machine = "up" /\ agent = state

Tell(result) == feedback' \in {result, feedback}

\* A poll that fails or brings nothing changes nothing.
Poll(b) ==
    /\ AgentIn("poll")
    /\ agent' = "start"
    /\ offer' = b
    /\ UNCHANGED <<vars, serviceVars, elapsed, feedback>>

\* The update is given up, the server is told; main goes back to polling.
GiveUp ==
    /\ Tell("failure")
    /\ agent' = "poll"
    /\ UNCHANGED <<offer, elapsed>>

\* Without an answer to the first message there is no update and no other message.
SendStarted ==
    /\ AgentIn("start")
    /\ \/ feedback' = "proceeding" /\ agent' = "download"
       \/ Tell("proceeding") /\ agent' = "poll"
    /\ UNCHANGED <<vars, serviceVars, offer, elapsed>>

DownloadBundle ==
    /\ AgentIn("download")
    /\ \/ agent' = "install" /\ Tell("proceeding") /\ UNCHANGED <<offer, elapsed>>
       \/ GiveUp
    /\ UNCHANGED <<vars, serviceVars>>

----------------------------------------------------------------------------
(* The call of RAUC's Install method.                                       *)

\* RAUC does not answer the question for its status, or the file is gone.
InstallNotTried ==
    AgentIn("install") /\ GiveUp /\ UNCHANGED <<vars, serviceVars>>

InstallAccepted ==
    /\ AgentIn("install")
    /\ AcceptInstall(offer)
    /\ agent' = "wait"
    /\ elapsed' = 0
    /\ UNCHANGED <<offer, feedback>>

\* No reply within 30 seconds; RAUC installs all the same.
InstallUnanswered == AgentIn("install") /\ AcceptInstall(offer) /\ GiveUp

\* Mutant of InstallRejected: an error reply is taken for success.
ErrorTakenForSuccess ==
    /\ AgentIn("install")
    /\ RejectInstall
    /\ agent' = "wait"
    /\ elapsed' = 0
    /\ UNCHANGED <<offer, feedback>>

InstallRejected == AgentIn("install") /\ RejectInstall /\ GiveUp

----------------------------------------------------------------------------
(* The wait for the end of the installation, and what follows.              *)

StatusDue(t) == t % StatusCheckInterval = 0

\* Mutants of KeepWaiting: the seconds are not counted; the timeout is not looked at.
WaitUncounted ==
    AgentIn("wait") /\ elapsed < InstallationTimeout /\ UNCHANGED allVars
WaitPastTimeout ==
    /\ AgentIn("wait")
    /\ elapsed' = elapsed + SleepSeconds
    /\ UNCHANGED <<vars, serviceVars, agent, offer, feedback>>

\* No check is due, or RAUC is not idle, or does not answer.  Progress is a message too.
KeepWaiting ==
    /\ AgentIn("wait") /\ elapsed < InstallationTimeout
    /\ elapsed' = elapsed + SleepSeconds
    /\ IF elapsed' % ProgressFeedbackInterval = 0
       THEN Tell("proceeding")
       ELSE UNCHANGED feedback
    /\ UNCHANGED <<vars, serviceVars, agent, offer>>

\* "idle" counts as success.  Seen at the last check it comes too late: the time is up.
SeeIdle ==
    /\ AgentIn("wait") /\ elapsed < InstallationTimeout
    /\ elapsed' = elapsed + SleepSeconds
    /\ StatusDue(elapsed') /\ elapsed' < InstallationTimeout
    /\ operation = "idle"
    /\ agent' = "report"
    /\ UNCHANGED <<vars, serviceVars, offer, feedback>>

TimeOut ==
    /\ AgentIn("wait") /\ elapsed >= InstallationTimeout
    /\ GiveUp
    /\ UNCHANGED <<vars, serviceVars>>

\* "proceeding" with 100 %, then "success"; either may be lost.
ReportSuccess ==
    /\ AgentIn("report")
    /\ feedback' \in {"proceeding", "success", feedback}
    /\ agent' = "reboot"
    /\ UNCHANGED <<vars, serviceVars, offer, elapsed>>

\* The machine goes down, and everything the agent knows with it.
AgentGone == agent' = "poll" /\ offer' = NoBundle /\ elapsed' = 0 /\ UNCHANGED feedback

Reboot == AgentIn("reboot") /\ LosePower /\ AgentGone

\* systemd starts an agent that ended again (Restart=always).
AgentRestarts ==
    machine = "up" /\ AgentGone /\ UNCHANGED <<vars, serviceVars>>

AgentStep ==
    \/ SendStarted \/ DownloadBundle
    \/ InstallNotTried \/ InstallAccepted \/ InstallUnanswered \/ InstallRejected
    \/ KeepWaiting \/ SeeIdle \/ TimeOut
    \/ ReportSuccess \/ Reboot

AgentNext ==
    \/ AgentStep
    \/ \E b \in Offers : Poll(b)
    \/ AgentRestarts
    \/ Background /\ UNCHANGED agentVars
    \/ Down /\ AgentGone

AgentSpec == AgentInit /\ [][AgentNext]_allVars

\* The agent's thread is scheduled, and every blocking call of it has a timeout.
\* Nothing is assumed of RAUC.
AgentFairSpec == AgentSpec /\ WF_allVars(AgentStep)

----------------------------------------------------------------------------
\* The agent never reboots a machine whose RAUC still installs, not even if it gave up
\* waiting for an earlier installation and asked for another one, nor after it told
\* the server that the update failed (update_agent.cpp:71 to 158).
RebootsAfterInstall ==
    agent \in {"report", "reboot"} => phase = "idle" /\ feedback # "failure"

\* "Reboot system to boot into new image" (the comment at update_agent.cpp:155).
RebootsIntoNewImage == agent = "reboot" => BootSlot(env) # booted

\* Every update the agent begins comes to an end and the server is polled again, even if
\* RAUC never finishes (the timeout at update_agent.cpp:86).
AttemptEnds == agent # "poll" ~> agent = "poll"
=============================================================================
