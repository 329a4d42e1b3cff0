-------------------------------- MODULE Ota --------------------------------
(***************************************************************************)
(* httpLib/ota.cpp: the firmware update that arrives as an HTTP request,   *)
(* and the confirmation and rollback of the running firmware, against      *)
(* restarts at any moment. Partitions, their states and the boot loader    *)
(* (CONFIG_BOOTLOADER_APP_ROLLBACK_ENABLE) are external. The server's task *)
(* runs the request handler, one request at a time; the application's task *)
(* confirms or rolls back; a timer restarts after an update.               *)
(***************************************************************************)
EXTENDS Naturals

CONSTANTS Versions,     \* firmwares
          Broken,       \* no bootable firmware in a partition
          MaxChunks     \* the longest upload, in calls of httpd_req_recv

ASSUME OtaAssumption == MaxChunks \in Nat /\ Broken \notin Versions

Partitions == {"ota_0", "ota_1"}
Other(p) == IF p = "ota_0" THEN "ota_1" ELSE "ota_0"
ImgStates == {"new", "pending", "valid", "invalid", "aborted"}

VARIABLES
    \* flash
    image,              \* what each partition holds
    state,              \* esp_ota_get_state_partition of each
    boot,               \* esp_ota_get_boot_partition
    \* memory
    running,            \* esp_ota_get_running_partition
    req,                \* where the request handler is
    upload,             \* the firmware that is being sent
    remain, numWaits,   \* its local variables
    closed,             \* the sender has closed the connection
    rebootTimer,        \* the timer of line 146 is running
    app,                \* where the application's task is
    restarting,         \* somebody is in myRestart()
    \* for the properties
    accepted            \* the update that was reported as successful, until it is booted

flash == <<image, state, boot>>
handler == <<req, upload, remain, numWaits, closed>>
memory == <<running, handler, rebootTimer, app, restarting>>
vars == <<flash, memory, accepted>>

FreshMemory ==
    /\ req' = "idle" /\ upload' = Broken /\ remain' = 0 /\ numWaits' = 0
    /\ closed' = FALSE /\ rebootTimer' = FALSE
    /\ app' = "idle" /\ restarting' = FALSE

\* A device as it was flashed: one firmware, confirmed.
Init ==
    /\ \E v \in Versions : image = [p \in Partitions |-> IF p = "ota_0" THEN v ELSE Broken]
    /\ state = [p \in Partitions |-> IF p = "ota_0" THEN "valid" ELSE "invalid"]
    /\ boot = "ota_0" /\ running = "ota_0"
    /\ req = "idle" /\ upload = Broken /\ remain = 0 /\ numWaits = 0 /\ closed = FALSE
    /\ rebootTimer = FALSE /\ app = "idle" /\ restarting = FALSE
    /\ accepted = Broken

-----------------------------------------------------------------------------
\* The boot loader. A firmware that was not confirmed since it was first booted
\* is given up; one that cannot be loaded is passed over for the other.
GivenUp(p) == IF state[p] = "pending" THEN "aborted" ELSE state[p]
Bootable(p) == GivenUp(p) \in {"new", "valid"}
Selected == IF Bootable(boot) THEN boot ELSE IF Bootable(Other(boot)) THEN Other(boot) ELSE boot
Loaded == IF image[Selected] # Broken THEN Selected ELSE Other(Selected)

Restart ==
    /\ running' = Loaded
    /\ boot' = Loaded
    /\ state' = [p \in Partitions |->
                    IF p # Loaded THEN GivenUp(p)
                    ELSE IF p # Selected THEN "valid"
                    ELSE IF GivenUp(p) = "new" THEN "pending" ELSE GivenUp(p)]
    /\ accepted' = IF image[Loaded] = accepted THEN Broken ELSE accepted
    /\ UNCHANGED image
    /\ FreshMemory

\* rollbackIsPendingVerify
IsPending == state[running] = "pending"
-----------------------------------------------------------------------------
\* otaHttpRequestHandler. gOtaInProgress is true while req # "idle".

\* The partition that is not running.
ThisPartition == running
NextUpdate == Other(running)

ReqGoes(to) ==
    /\ req' = to
    /\ UNCHANGED <<running, upload, remain, numWaits, closed, rebootTimer, app, restarting>>

Request ==
    /\ req = "idle"
    /\ \E v \in Versions \cup {Broken}, n \in 0 .. MaxChunks : upload' = v /\ remain' = n
    /\ req' = "begin" /\ numWaits' = 0 /\ closed' = FALSE
    /\ accepted' = Broken
    /\ UNCHANGED <<flash, running, rebootTimer, app, restarting>>

\* esp_ota_begin refuses to erase while the running firmware is not confirmed.
MayBeginAlways == TRUE
MayBegin == ~IsPending

\* It erases the partition, or fails before or after that.
Begin ==
    /\ req = "begin" /\ MayBegin
    /\ \/ image' = [image EXCEPT ![NextUpdate] = Broken] /\ ReqGoes("recv")
       \/ image' \in {image, [image EXCEPT ![NextUpdate] = Broken]} /\ ReqGoes("idle")
    /\ UNCHANGED <<state, boot, accepted>>

\* Refused: the handler confirms the running firmware and tries again.
MarkValid == state' = [state EXCEPT ![running] = "valid"]
Refused ==
    /\ req = "begin" /\ ~MayBegin
    /\ ReqGoes("refused")
    /\ UNCHANGED <<flash, accepted>>
TryAgain ==
    /\ req = "refused"
    /\ MarkValid
    /\ ReqGoes("begin")
    /\ UNCHANGED <<image, boot, accepted>>

\* A part arrives and is written. Whether esp_ota_write succeeded is not looked
\* at: what is missing then is found by esp_ota_end. (The moment between the
\* write and the restart of a rollback is too short for an upload.)
Receive ==
    /\ req = "recv" /\ remain > 0 /\ ~closed /\ app # "reboot"
    /\ upload' \in {upload, Broken}
    /\ remain' = remain - 1
    /\ numWaits' = 0
    /\ image' = [image EXCEPT ![NextUpdate] = IF remain = 1 THEN upload' ELSE Broken]
    /\ UNCHANGED <<state, boot, running, req, closed, rebootTimer, app, restarting, accepted>>

\* The fourth time-out in a row is an error.
Tries == 4
LastWait == numWaits + 1 = Tries
RecvTimeout ==
    /\ req = "recv" /\ remain > 0 /\ ~closed /\ ~LastWait
    /\ numWaits' = numWaits + 1
    /\ UNCHANGED <<flash, running, req, upload, remain, closed, rebootTimer, app, restarting,
                   accepted>>
GiveUp == ReqGoes("idle")
NoMoreWaits ==
    /\ req = "recv" /\ remain > 0 /\ ~closed /\ LastWait
    /\ GiveUp
    /\ UNCHANGED <<flash, accepted>>
RecvError ==
    /\ req = "recv" /\ remain > 0 /\ ~closed
    /\ ReqGoes("idle")
    /\ UNCHANGED <<flash, accepted>>

\* An orderly end of the connection is not an error: httpd_req_recv returns 0
\* from then on, and the loop at line 89 goes on for ever.
Close ==
    /\ req = "recv" /\ remain > 0 /\ ~closed
    /\ closed' = TRUE
    /\ UNCHANGED <<flash, running, req, upload, remain, numWaits, rebootTimer, app, restarting,
                   accepted>>

\* esp_ota_end checks the image.
EndOk == image[NextUpdate] # Broken

End ==
    /\ req = "recv" /\ remain = 0
    /\ ReqGoes(IF EndOk THEN "setBoot" ELSE "idle")
    /\ UNCHANGED <<flash, accepted>>

\* esp_ota_set_boot_partition
SetBoot(p) == boot' = p /\ state' = [state EXCEPT ![p] = "new"]
SetBootPartition ==
    /\ req = "setBoot"
    /\ \/ SetBoot(NextUpdate) /\ ReqGoes("respond")
       \/ UNCHANGED <<boot, state>> /\ ReqGoes("idle")
    /\ UNCHANGED <<image, accepted>>

\* "OTA update successful": the restart comes a second later, from a timer.
RebootNot == UNCHANGED rebootTimer
RebootLater == rebootTimer' = TRUE
Respond ==
    /\ req = "respond"
    /\ RebootLater
    /\ accepted' = upload
    /\ req' = "idle"
    /\ UNCHANGED <<flash, running, upload, remain, numWaits, closed, app, restarting>>

RebootTimer ==
    /\ rebootTimer
    /\ rebootTimer' = FALSE
    /\ restarting' = TRUE
    /\ UNCHANGED <<flash, running, handler, app, accepted>>

HandlerStep ==
    \/ Begin \/ Refused \/ TryAgain
    \/ Receive \/ RecvTimeout \/ NoMoreWaits \/ RecvError
    \/ End \/ SetBootPartition \/ Respond
-----------------------------------------------------------------------------
\* The application's task.

AppGoes(to) ==
    /\ app' = to
    /\ UNCHANGED <<image, running, handler, rebootTimer>>

\* rollbackConfirmAppIsWorking
CheckPending ==
    /\ app = "idle" /\ IsPending
    /\ AppGoes("confirm")
    /\ UNCHANGED <<state, boot, restarting, accepted>>
Confirm ==
    /\ app = "confirm"
    /\ MarkValid
    /\ AppGoes("idle")
    /\ UNCHANGED <<boot, restarting, accepted>>

\* rollbackCheckUserForced: the button is held for four seconds, or it is not.
Press ==
    /\ app = "idle"
    /\ AppGoes("pressed")
    /\ UNCHANGED <<state, boot, restarting, accepted>>
Release ==
    /\ app = "pressed"
    /\ AppGoes("idle")
    /\ UNCHANGED <<state, boot, restarting, accepted>>

\* setOtherPartitionBootableAndRestart: a firmware that is not confirmed is
\* given up, if there is another to go back to ...
CanRollBack == IsPending /\ image[NextUpdate] # Broken /\ state[NextUpdate] \in {"new", "valid"}
RollBack ==
    /\ app = "pressed" /\ CanRollBack
    /\ state' = [state EXCEPT ![running] = "invalid"]
    /\ AppGoes("reboot")
    /\ accepted' = Broken
    /\ UNCHANGED <<boot, restarting>>
\* ... and otherwise the other partition is selected, whatever its state is.
DoNotRollBack ==
    /\ app = "pressed" /\ ~CanRollBack
    /\ AppGoes("switch")
    /\ accepted' = Broken
    /\ UNCHANGED <<state, boot, restarting>>
\* ESP_ERROR_CHECK ends the program when that is not possible.
SwitchBoot ==
    /\ app = "switch"
    /\ IF image[NextUpdate] # Broken
       THEN SetBoot(NextUpdate) /\ restarting' = TRUE /\ AppGoes("stopped")
       ELSE UNCHANGED <<state, boot, restarting>> /\ AppGoes("reboot")
    /\ UNCHANGED accepted

AppStep == Confirm \/ Release \/ RollBack \/ DoNotRollBack \/ SwitchBoot
-----------------------------------------------------------------------------
\* Power is lost at any moment; or myRestart() (lines 32-41) comes to its end,
\* or a fatal error to its restart.
PowerLoss == Restart
RestartDone == (restarting \/ app = "reboot") /\ Restart

Next ==
    \/ Request \/ HandlerStep \/ Close
    \/ RebootTimer
    \/ CheckPending \/ Press \/ AppStep
    \/ PowerLoss \/ RestartDone

Spec == Init /\ [][Next]_vars

\* Tasks inside a function, the timer and restarts go on. Nobody has to make a
\* request, to confirm, to press the button, or to take the power away.
Fairness == WF_vars(HandlerStep) /\ WF_vars(RebootTimer) /\ WF_vars(AppStep) /\ WF_vars(RestartDone)
FairSpec == Spec /\ Fairness
-----------------------------------------------------------------------------
\* Every variable has its type.
TypeOK ==
    /\ image \in [Partitions -> Versions \cup {Broken}]
    /\ state \in [Partitions -> ImgStates]
    /\ boot \in Partitions /\ running \in Partitions
    /\ req \in {"idle", "begin", "refused", "recv", "setBoot", "respond"}
    /\ upload \in Versions \cup {Broken}
    /\ remain \in 0 .. MaxChunks /\ numWaits \in 0 .. Tries - 1
    /\ closed \in BOOLEAN /\ rebootTimer \in BOOLEAN /\ restarting \in BOOLEAN
    /\ app \in {"idle", "confirm", "pressed", "switch", "reboot", "stopped"}
    /\ accepted \in Versions \cup {Broken}

\* A restart at any moment, in the middle of an update, between its end and the
\* selection of the partition, or while a rollback is under way, finds a whole
\* firmware to boot.
AlwaysBoots == image[Loaded] # Broken

\* As long as the running firmware is not confirmed, the one to go back to is
\* whole and the boot loader would take it, also when an update or a rollback is
\* asked for meanwhile.
FallbackKept ==
    IsPending => image[NextUpdate] # Broken /\ state[NextUpdate] \in {"new", "valid"}

\* An update that was reported as successful is booted, unless another request
\* or a rollback comes first.
UpdateRuns ==
    \A v \in Versions : accepted = v ~> (image[running] = v \/ accepted # v)

\* A request comes to its end, however the sender stalls and whatever fails,
\* unless the connection is closed in the middle.
RequestEnds == req # "idle" ~> (req = "idle" \/ closed)

\* Whoever updates is answered, and the answer is kept.
UpdateServed == UpdateRuns /\ RequestEnds
=============================================================================
