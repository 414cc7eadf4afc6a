---------------------------- MODULE RaucService ----------------------------
(***************************************************************************)
(* The D-Bus service in front of the installer (rauc/src/service.c): what  *)
(* clients can see of an installation, through the Operation and LastError *)
(* properties and the Completed signal.                                    *)
(*                                                                         *)
(* The main loop handles one call at a time; the installer thread runs     *)
(* beside it.  RAUC is busy exactly while there is an installer thread.    *)
(***************************************************************************)
EXTENDS SlotUpdate

VARIABLES
    operation,  \* the Operation property
    lastError,  \* whether LastError holds a message
    completed   \* the result of the daemon's last Completed signal, if it sent one

serviceVars == <<operation, lastError, completed>>

busy == phase # "idle"

ServiceTypeOK ==
    /\ TypeOK
    /\ operation \in {"idle", "installing"}
    /\ lastError \in BOOLEAN
    /\ completed \in {"none", "success", "failure"}

ServiceInit ==
    /\ Init
    /\ operation = "idle"
    /\ lastError = FALSE
    /\ completed = "none"

----------------------------------------------------------------------------
(* The calls.                                                               *)

AcceptInstall(b) ==
    /\ StartInstall(b)
    /\ operation' = "installing"
    /\ UNCHANGED <<lastError, completed>>

\* "Already processing a different method": the handler's error path sets Operation.
RejectInstall ==
    /\ machine = "up" /\ busy
    /\ operation' = "idle"
    /\ UNCHANGED <<vars, lastError, completed>>

InstallBundle(b) == AcceptInstall(b) \/ RejectInstall

MarkCall == (\E r \in MarkRequests : Mark(r[1], r[2])) /\ UNCHANGED serviceVars

----------------------------------------------------------------------------
(* The installer thread, and the end of it in the main loop.                *)

\* Mutant of BeginThread: LastError is not cleared.
BeginKeepsError == AcceptBundle /\ UNCHANGED serviceVars

\* LastError is cleared before anything else.
BeginThread ==
    /\ AcceptBundle
    /\ lastError' = FALSE
    /\ UNCHANGED <<operation, completed>>

RejectInThread ==
    /\ RejectBundle
    /\ lastError' = FALSE
    /\ UNCHANGED <<operation, completed>>

InstallSteps ==
    /\ \/ MarkTargetBad \/ MarkTargetBadFails
       \/ \E p \in Parts : SkipImage(p) \/ SavePending(p)
       \/ BeginWrite \/ FinishWrite \/ HandlerFails \/ SaveOk
       \/ Activate \/ SkipActivate \/ ActivateFails
       \/ PostInstall
    /\ UNCHANGED serviceVars

\* The thread's last act when the installation failed.
SetLastError ==
    /\ phase = "failed" /\ ~lastError
    /\ lastError' = TRUE
    /\ UNCHANGED <<vars, operation, completed>>

\* Mutant of InstallCompleted: Operation is left as it is.
CompletedOnly ==
    /\ phase = "failed" => lastError
    /\ InstallDone
    /\ completed' = IF phase = "succeeded" THEN "success" ELSE "failure"
    /\ UNCHANGED <<operation, lastError>>

\* install_done and service_install_cleanup: Completed, then Operation, then not busy.
InstallCompleted ==
    /\ phase = "failed" => lastError
    /\ InstallDone
    /\ completed' = IF phase = "succeeded" THEN "success" ELSE "failure"
    /\ operation' = "idle"
    /\ UNCHANGED lastError

Thread == BeginThread \/ RejectInThread \/ InstallSteps \/ SetLastError \/ InstallCompleted

----------------------------------------------------------------------------
(* The daemon and the machine.                                              *)

\* A daemon that takes its bus name says it is idle.
FreshProperties ==
    /\ operation' = "idle"
    /\ lastError' = FALSE
    /\ completed' = "none"

RestartService == DaemonRestart /\ FreshProperties
LosePower == PowerLoss /\ FreshProperties
FailBoot == BootFails /\ FreshProperties
Boot == (GrubBoot \/ ComeUp) /\ UNCHANGED serviceVars

\* What goes on whatever the clients ask for, while the machine runs; and its ends.
Background == Boot \/ MarkCall \/ Thread \/ RestartService
Down == LosePower \/ FailBoot

ServiceNext == Background \/ Down \/ \E b \in Bundles : InstallBundle(b)

ServiceSpec == ServiceInit /\ [][ServiceNext]_<<vars, serviceVars>>

----------------------------------------------------------------------------
\* "Represents the current (global) operation rauc performs"
\* (de.pengutronix.rauc.Installer.xml:94): a RAUC that says idle installs nothing.
OperationTruth == operation = "idle" => phase = "idle"

\* The other way round: RAUC never says it is installing when no thread is left to end
\* that, so that a client polling Operation is not kept waiting.
NeverStuckInstalling == operation = "installing" => phase # "idle"

\* Between installations LastError is set exactly if the last one failed, whatever
\* happened in those before it (service.c:46, install.c:1750 and 1760).
LastErrorTells == phase = "idle" => (lastError <=> completed = "failure")
=============================================================================
