---------------------------- MODULE NetworkProofs ----------------------------
(***************************************************************************)
(* What holds of the parts composed in MCNetwork for any firmwares and     *)
(* uploads, any number of connections, messages and tasks that log, for    *)
(* responses of every length, for every tree of files, and for all         *)
(* parameters that are set and deleted over HTTP.                          *)
(***************************************************************************)
EXTENDS MCNetwork, SequenceTheorems, WellFoundedInduction, TLAPS

(* Ota, by its own specification: there is always a firmware to boot, and one to
   go back to as long as the running one is not confirmed. *)

\* The firmware that runs stays whole; an update is written to the other partition.
RunningWhole == image[running] # Broken

\* What runs was selected by the boot loader, and may have been given up since.
RunningSelected == state[running] \in {"pending", "valid", "invalid"}

\* Until the running firmware is confirmed no update is under way, the other one
\* is confirmed, and a rollback does not have to switch by hand.
Unconfirmed ==
    IsPending =>
        /\ image[NextUpdate] # Broken /\ state[NextUpdate] = "valid"
        /\ req \in {"idle", "begin", "refused"}
        /\ app # "switch"

\* Once it was given up, a restart is all that comes: the other one is still
\* confirmed, and an update that is under way cannot come to its end.
GivenUpToRestart ==
    state[running] = "invalid" =>
        /\ app = "reboot" /\ state[NextUpdate] = "valid"
        /\ req \in {"idle", "begin", "refused", "recv"}
        /\ req = "recv" /\ remain = 0 => image[NextUpdate] = Broken

IInv == TypeOK /\ RunningWhole /\ RunningSelected /\ Unconfirmed /\ GivenUpToRestart

\* The boot loader finds a whole firmware if the running one is whole.
LEMMA LoadedWhole == TypeOK /\ RunningWhole => Loaded \in Partitions /\ image[Loaded] # Broken
  BY DEF TypeOK, RunningWhole, Loaded, Selected, Other, Partitions

\* A firmware that waits for its confirmation after a restart was new before, and
\* the one that ran until then is confirmed.
LEMMA RestartIInv == IInv /\ Restart => IInv'
<1> SUFFICES ASSUME IInv, Restart PROVE IInv'
  OBVIOUS
<1> USE OtaAssumption DEF Partitions, Other, NextUpdate, IsPending
<1>1. Loaded \in Partitions /\ image[Loaded] # Broken
  BY LoadedWhole DEF IInv
<1>2. TypeOK'
  <2>1. state' \in [Partitions -> ImgStates]
    <3>1. \A p \in Partitions : GivenUp(p) \in ImgStates
      BY DEF IInv, TypeOK, GivenUp, ImgStates
    <3> QED BY <3>1 DEF Restart, ImgStates
  <2>2. accepted' \in Versions \cup {Broken}
    BY DEF IInv, TypeOK, Restart
  <2>3. remain' \in 0 .. MaxChunks /\ numWaits' \in 0 .. Tries - 1
    BY DEF Restart, FreshMemory, Tries
  <2> QED BY <1>1, <2>1, <2>2, <2>3 DEF IInv, TypeOK, Restart, FreshMemory
<1>3. RunningWhole'
  BY <1>1 DEF RunningWhole, Restart
<1>4. RunningSelected' /\ state'[running'] # "invalid"
  BY <1>1 DEF IInv, TypeOK, RunningWhole, RunningSelected, Unconfirmed, GivenUpToRestart,
              Restart, Loaded, Selected, Bootable, GivenUp
<1>5. Unconfirmed'
  BY <1>1 DEF IInv, TypeOK, RunningWhole, RunningSelected, Unconfirmed, GivenUpToRestart,
              Restart, FreshMemory, Loaded, Selected, Bootable, GivenUp
<1> QED BY <1>2, <1>3, <1>4, <1>5 DEF IInv, GivenUpToRestart

\* The device as flashed.
LEMMA InitIInv == Init => IInv
<1> SUFFICES ASSUME Init PROVE IInv
  OBVIOUS
<1> USE OtaAssumption DEF Partitions, Tries
<1>1. image \in [Partitions -> Versions \cup {Broken}] /\ image["ota_0"] # Broken
  BY DEF Init
<1>2. state \in [Partitions -> ImgStates] /\ state["ota_0"] = "valid"
  BY DEF Init, ImgStates
<1>3. TypeOK
  <2>1. remain \in 0 .. MaxChunks /\ numWaits \in 0 .. Tries - 1
    BY DEF Init
  <2> QED BY <1>1, <1>2, <2>1 DEF Init, TypeOK
<1>4. state[running] = "valid" /\ running = "ota_0"
  BY <1>2 DEF Init
<1> QED
  BY <1>1, <1>3, <1>4
  DEF IInv, TypeOK, RunningWhole, RunningSelected, Unconfirmed, GivenUpToRestart, IsPending

\* Each step keeps the invariant.
LEMMA NextIInv == IInv /\ [Next]_vars => IInv'
<1> SUFFICES ASSUME IInv, [Next]_vars PROVE IInv'
  OBVIOUS
<1> USE OtaAssumption
    DEF IInv, TypeOK, RunningWhole, RunningSelected, Unconfirmed, GivenUpToRestart,
        IsPending, NextUpdate, Other, Partitions, ImgStates, flash
<1>1. CASE Request
  <2>1. TypeOK'
    <3>1. upload' \in Versions \cup {Broken} /\ remain' \in 0 .. MaxChunks
      BY <1>1 DEF Request
    <3>2. numWaits' \in 0 .. Tries - 1
      BY <1>1 DEF Request, Tries
    <3> QED BY <1>1, <3>1, <3>2 DEF Request
  <2> QED BY <1>1, <2>1 DEF Request
<1>2. CASE Begin
  BY <1>2 DEF Begin, MayBegin, ReqGoes
<1>3. CASE Refused
  BY <1>3 DEF Refused, ReqGoes
<1>4. CASE TryAgain
  BY <1>4 DEF TryAgain, MarkValid, ReqGoes
<1>5. CASE Receive
  <2>1. remain' \in 0 .. MaxChunks /\ numWaits' \in 0 .. Tries - 1
    BY <1>5 DEF Receive, Tries
  <2>2. image' \in [Partitions -> Versions \cup {Broken}] /\ upload' \in Versions \cup {Broken}
    BY <1>5 DEF Receive
  <2>3. state[running] # "pending" /\ state[running] # "invalid"
    BY <1>5 DEF Receive
  <2> QED BY <1>5, <2>1, <2>2, <2>3 DEF Receive
<1>6. CASE RecvTimeout
  BY <1>6 DEF RecvTimeout, LastWait, Tries
<1>7. CASE NoMoreWaits
  BY <1>7 DEF NoMoreWaits, GiveUp, ReqGoes
<1>8. CASE RecvError
  BY <1>8 DEF RecvError, ReqGoes
<1>9. CASE End
  BY <1>9 DEF End, EndOk, ReqGoes
<1>10. CASE SetBootPartition
  BY <1>10 DEF SetBootPartition, SetBoot, ReqGoes
<1>11. CASE Respond
  BY <1>11 DEF Respond, RebootLater
<1>12. CASE Close
  BY <1>12 DEF Close
<1>13. CASE RebootTimer
  BY <1>13, ZenonT(60) DEF RebootTimer, handler
<1>14. CASE CheckPending
  BY <1>14 DEF CheckPending, AppGoes, handler
<1>15. CASE Press
  BY <1>15 DEF Press, AppGoes, handler
<1>16. CASE Confirm
  BY <1>16 DEF Confirm, MarkValid, AppGoes, handler
<1>17. CASE Release
  BY <1>17 DEF Release, AppGoes, handler
<1>18. CASE RollBack
  BY <1>18 DEF RollBack, CanRollBack, AppGoes, handler
<1>19. CASE DoNotRollBack
  BY <1>19 DEF DoNotRollBack, CanRollBack, AppGoes, handler
<1>20. CASE SwitchBoot
  BY <1>20, ZenonT(60) DEF SwitchBoot, SetBoot, AppGoes, handler
<1>21. CASE PowerLoss \/ RestartDone
  BY <1>21, RestartIInv DEF PowerLoss, RestartDone
<1>22. CASE UNCHANGED vars
  BY <1>22 DEF vars, memory, handler
<1> QED
  BY <1>1, <1>2, <1>3, <1>4, <1>5, <1>6, <1>7, <1>8, <1>9, <1>10, <1>11, <1>12, <1>13, <1>14, <1>15, <1>16, <1>17, <1>18, <1>19, <1>20, <1>21, <1>22 DEF Next, HandlerStep, AppStep

\* The invariant holds in every state.
THEOREM Invariance == Spec => []IInv
<1>1. Init => IInv
  BY InitIInv
<1>2. IInv /\ [Next]_vars => IInv'
  BY NextIInv
<1> QED BY <1>1, <1>2, PTL DEF Spec

\* Every variable has its type; at most three time-outs are counted.
THEOREM TypeCorrect == Spec => []TypeOK
  BY Invariance, PTL DEF IInv

\* Whenever the power is lost or the program restarts, a whole firmware is booted.
THEOREM AlwaysBootsHolds == Spec => []AlwaysBoots
<1>1. IInv => AlwaysBoots
  BY LoadedWhole DEF IInv, AlwaysBoots
<1> QED BY <1>1, Invariance, PTL

\* A firmware that was not confirmed always leaves one to go back to.
THEOREM FallbackKeptHolds == Spec => []FallbackKept
<1>1. IInv => FallbackKept
  BY DEF IInv, Unconfirmed, FallbackKept
<1> QED BY <1>1, Invariance, PTL
-----------------------------------------------------------------------------
\* A step of the composition is a step of each part, or leaves it alone.
LEMMA StepOfEach ==
  ASSUME [MCNext]_allVars
  PROVE  /\ [Web!Next]_webVars /\ [Logger!Next]_logVars /\ [Client!Next]_clientVars
         /\ [File!FileNext]_fileVars /\ [Params!NvsNext]_nvsVars
<1>1. CASE UNCHANGED allVars
  BY <1>1 DEF allVars, webVars, logVars, clientVars, fileVars, nvsVars
<1>2. CASE MCNext
  BY <1>2 DEF MCNext, OtaStep, WebStep, LogStep, ClientStep, FileStep, ParamsStep
<1> QED BY <1>1, <1>2
-----------------------------------------------------------------------------
(* HttpServer. *)

\* The connections are sockets, and while a broadcast goes on, those that it has
\* come past have the message or are gone.
WebInv ==
    /\ wsConns \in Seq(Fds)
    /\ got \in [Fds -> Msgs \cup {Web!NoMsg}]
    /\ sending \in [msg : Msgs \cup {Web!NoMsg}, i : Nat, there : SUBSET Fds]
    /\ sending # Web!Idle =>
        \A k \in DOMAIN wsConns : k < sending.i => got[wsConns[k]] = sending.msg \/ wsConns[k] \in gone

\* A set of natural numbers that is not empty has a least one.
LEMMA Least ==
  ASSUME NEW S \in SUBSET Nat, S # {}
  PROVE  \E n \in S : \A m \in S : n <= m
<1> DEFINE R == {ss \in Nat \X Nat : ss[1] < ss[2]}
<1>1. IsWellFoundedOn(R, Nat)
  BY NatLessThanWellFounded DEF OpToRel
<1>2. PICK n \in S : \A m \in S : ~(<<m, n>> \in R)
  BY <1>1, WFMin
<1>3. n \in Nat /\ \A m \in S : m \in Nat /\ ~(m < n)
  BY <1>2
<1> QED BY <1>3

\* Where one is found in the list, and what is left of the list without it.
LEMMA WebRemoveType ==
  ASSUME NEW S, NEW s \in Seq(S), NEW e PROVE Web!RemoveFirst(s, e) \in Seq(S)
<1>1. CASE \E i \in 1 .. Len(s) : s[i] = e
  <2> DEFINE I == {i \in 1 .. Len(s) : s[i] = e}
  <2>1. I \in SUBSET Nat /\ I # {}
    BY <1>1
  <2>2. \E n \in I : \A m \in I : n <= m
    BY <2>1, Least
  <2>3. Web!Min(I) \in I
    BY <2>2 DEF Web!Min
  <2>4. Web!SelectInSeq(s, LAMBDA v : v = e) = Web!Min(I)
    BY <2>1 DEF Web!SelectInSeq
  <2>5. PICK i \in 1 .. Len(s) : Web!RemoveFirst(s, e) = Web!RemoveAt(s, i)
    BY <1>1, <2>3, <2>4 DEF Web!RemoveFirst
  <2> QED BY <2>5 DEF Web!RemoveAt
<1>2. CASE ~ \E i \in 1 .. Len(s) : s[i] = e
  BY <1>2 DEF Web!RemoveFirst
<1> QED BY <1>1, <1>2

\* While nobody broadcasts the list may change, and a broadcast may begin.
LEMMA WebFreeKeeps ==
  ASSUME WebInv,
         \/ Web!Start \/ Web!Stop \/ Web!RunWork
         \/ \E fd \in Fds : Web!Connect(fd) \/ Web!PeerGoes(fd) \/ Web!CloseSession(fd)
         \/ \E msg \in Msgs : Web!wsAsyncBroadcast(msg) \/ \E fd \in Fds : Web!Frame(fd, msg)
  PROVE  WebInv'
<1>1. CASE Web!Start \/ \E msg \in Msgs : Web!wsAsyncBroadcast(msg)
  BY <1>1 DEF Web!Start, Web!wsAsyncBroadcast, WebInv
<1>2. ASSUME NEW fd \in Fds, Web!PeerGoes(fd) PROVE WebInv'
  <2>1. gone \subseteq gone' /\ UNCHANGED <<wsConns, sending, got>>
    BY <1>2 DEF Web!PeerGoes
  <2> QED BY <2>1 DEF WebInv
<1>3. CASE Web!Stop
  BY <1>3 DEF Web!Stop, Web!TaskIsFree, WebInv
<1>4. ASSUME NEW fd \in Fds, Web!Connect(fd) PROVE WebInv'
  <2>1. sending = Web!Idle /\ sending' = sending
        /\ wsConns' = Append(wsConns, fd) /\ got' = [got EXCEPT ![fd] = Web!NoMsg]
    BY <1>4 DEF Web!Connect, Web!TaskIsFree
  <2> QED BY <2>1 DEF WebInv
<1>5. ASSUME NEW fd, Web!TaskIsFree, Web!Delete(fd), UNCHANGED <<sending, got>> PROVE WebInv'
  <2>1. wsConns' \in Seq(Fds)
    BY <1>5, WebRemoveType DEF WebInv, Web!Delete
  <2> QED BY <1>5, <2>1 DEF WebInv, Web!TaskIsFree
<1>6. ASSUME NEW msg \in Msgs, Web!wsSyncBroadcast(msg), UNCHANGED <<wsConns, gone, got>> PROVE WebInv'
  <2>1. sending'.i = 1 /\ \A k \in DOMAIN wsConns : ~(k < 1)
    BY <1>6 DEF Web!wsSyncBroadcast, WebInv
  <2>2. sending' \in [msg : Msgs \cup {Web!NoMsg}, i : Nat, there : SUBSET Fds]
    BY <1>6 DEF Web!wsSyncBroadcast, Web!ToSet, WebInv
  <2> QED BY <1>6, <2>1, <2>2 DEF WebInv
<1>7. ASSUME NEW fd \in Fds, Web!CloseSession(fd) PROVE WebInv'
  BY <1>5, <1>7 DEF Web!CloseSession
<1>8. ASSUME NEW msg \in Msgs, NEW fd \in Fds, Web!Frame(fd, msg) PROVE WebInv'
  BY <1>6, <1>8 DEF Web!Frame
<1>9. CASE Web!RunWork
  BY <1>5, <1>6, <1>9 DEF Web!RunWork
<1> QED BY <1>1, <1>2, <1>3, <1>4, <1>7, <1>8, <1>9

\* The broadcast goes on, or ends.
LEMMA WebSendKeeps == ASSUME WebInv, Web!SendNext \/ Web!BroadcastEnds PROVE WebInv'
<1>1. CASE Web!BroadcastEnds
  <2>1. sending' = Web!Idle /\ UNCHANGED <<wsConns, got>>
    BY <1>1 DEF Web!BroadcastEnds
  <2> QED BY <2>1 DEF WebInv, Web!Idle
<1>2. CASE Web!SendNext
  <2> DEFINE fd == wsConns[sending.i]
  <2>1. /\ sending # Web!Idle /\ sending.i <= Len(wsConns)
        /\ sending' = [sending EXCEPT !.i = @ + 1] /\ UNCHANGED <<wsConns, gone>>
        /\ fd \notin gone => got' = [got EXCEPT ![fd] = sending.msg]
        /\ fd \in gone => got' = got
    BY <1>2 DEF Web!SendNext, Web!OnSendError, Web!CloseLater
  <2>2. /\ sending.msg \in Msgs \cup {Web!NoMsg} /\ sending'.msg = sending.msg
        /\ sending'.i = sending.i + 1 /\ sending.i \in Nat
        /\ sending' \in [msg : Msgs \cup {Web!NoMsg}, i : Nat, there : SUBSET Fds]
    BY <2>1 DEF WebInv
  <2>3. \A k \in DOMAIN wsConns : wsConns[k] \in Fds
    BY DEF WebInv
  <2>4. got' \in [Fds -> Msgs \cup {Web!NoMsg}]
    BY <2>1, <2>2 DEF WebInv
  <2>5. ASSUME NEW k \in DOMAIN wsConns, k < sending.i + 1
        PROVE  got'[wsConns[k]] = sending.msg \/ wsConns[k] \in gone
    BY <2>1, <2>2, <2>3, <2>5 DEF WebInv
  <2> QED BY <2>1, <2>2, <2>4, <2>5 DEF WebInv
<1> QED BY <1>1, <1>2

LEMMA WebInvHolds == MCSpec => []WebInv
<1>1. MCInit => WebInv
  BY DEF MCInit, Web!Init, WebInv, Web!Idle, Web!NoMsg
<1>2. WebInv /\ [MCNext]_allVars => WebInv'
  <2> SUFFICES ASSUME WebInv, [Web!Next]_webVars PROVE WebInv'
    BY StepOfEach
  <2>1. CASE UNCHANGED webVars
    BY <2>1 DEF webVars, WebInv
  <2> QED BY <2>1, WebFreeKeeps, WebSendKeeps DEF Web!Next
<1> QED BY <1>1, <1>2, PTL DEF MCSpec

\* A broadcast that is over has reached everybody who was there, however many
\* connections there are and whatever failed.
THEOREM BroadcastReachesAllHolds == MCSpec => []BroadcastReachesAll
<1>1. WebInv => BroadcastReachesAll
  <2> SUFFICES ASSUME WebInv, sending # Web!Idle, sending.i > Len(wsConns),
                      NEW fd \in Web!ToSet(wsConns)
               PROVE  got[fd] = sending.msg \/ fd \in gone
    BY DEF BroadcastReachesAll, Web!BroadcastReachesAll, Web!Connected
  <2>1. PICK k \in DOMAIN wsConns : wsConns[k] = fd
    BY DEF Web!ToSet
  <2>2. k < sending.i
    BY <2>1 DEF WebInv
  <2> QED BY <2>1, <2>2 DEF WebInv
<1> QED BY <1>1, WebInvHolds, PTL
-----------------------------------------------------------------------------
(* NetLogger. *)

LogType ==
    /\ mConnections \in Seq(Fds)
    /\ logging \in [Logger!Everyone -> {"idle", "wait", "format", "list", "send"}]
    /\ next \in Nat
    /\ request \in {Logger!NoRequest} \cup ({"add", "close", "delete"} \X Fds)

\* Who sends holds the list's mutex, and so does a request that takes a connection
\* off; the server's task does not do both.
ListLocked ==
    /\ \A t \in Logger!Everyone : logging[t] = "send" => mListMutex = t
    /\ request[1] = "delete" => mListMutex = Httpd
    /\ request # Logger!NoRequest => logging[Httpd] = "idle"

\* The line was sent to those connections that the sender has come past.
SentSoFar ==
    \A t \in Logger!Everyone : logging[t] = "send" =>
        \A k \in DOMAIN mConnections : k < next => mConnections[k] \in reached

LogInv == LogType /\ ListLocked /\ SentSoFar

\* What is left of the list when one is taken off it.
LEMMA LogRemoveType ==
  ASSUME NEW S, NEW s \in Seq(S), NEW e PROVE Logger!RemoveFirst(s, e) \in Seq(S)
<1>1. CASE \E i \in 1 .. Len(s) : s[i] = e
  <2> DEFINE I == {i \in 1 .. Len(s) : s[i] = e}
  <2>1. I \in SUBSET Nat /\ I # {}
    BY <1>1
  <2>2. \E n \in I : \A m \in I : n <= m
    BY <2>1, Least
  <2>3. Logger!Min(I) \in I
    BY <2>2 DEF Logger!Min
  <2>4. Logger!SelectInSeq(s, LAMBDA v : v = e) = Logger!Min(I)
    BY <2>1 DEF Logger!SelectInSeq
  <2>5. PICK i \in 1 .. Len(s) : Logger!RemoveFirst(s, e) = Logger!RemoveAt(s, i)
    BY <1>1, <2>3, <2>4 DEF Logger!RemoveFirst
  <2> QED BY <2>5 DEF Logger!RemoveAt
<1>2. CASE ~ \E i \in 1 .. Len(s) : s[i] = e
  BY <1>2 DEF Logger!RemoveFirst
<1> QED BY <1>1, <1>2

\* A task logs, up to the list's mutex.
LEMMA LogBeginKeeps ==
  ASSUME LogInv, NEW t \in Logger!Everyone,
         Logger!Log(t) \/ Logger!vprintf(t) \/ Logger!CallSink(t)
  PROVE  LogInv'
<1>1. PICK to \in {"idle", "wait", "format", "list"} :
        /\ logging' = [logging EXCEPT ![t] = to] /\ UNCHANGED <<mListMutex, mConnections, next, reached, request>>
        /\ t = Httpd => logging[t] # "idle" \/ request = Logger!NoRequest
  BY DEF Logger!Log, Logger!vprintf, Logger!CallSink, Logger!Goes
<1>2. logging' \in [Logger!Everyone -> {"idle", "wait", "format", "list", "send"}] /\ Httpd \in Logger!Everyone
  BY <1>1 DEF LogInv, LogType, Logger!Everyone
<1>3. \A u \in Logger!Everyone : logging'[u] = "send" => logging[u] = "send"
  BY <1>1 DEF LogInv, LogType
<1>4. request # Logger!NoRequest => logging'[Httpd] = "idle"
  BY <1>1, <1>2 DEF LogInv, LogType, ListLocked
<1> QED BY <1>1, <1>2, <1>3, <1>4 DEF LogInv, LogType, ListLocked, SentSoFar

\* It goes through the list.
LEMMA LogSendKeeps ==
  ASSUME LogInv, NEW t \in Logger!Everyone,
         Logger!logSink(t) \/ Logger!SendChunk(t) \/ Logger!SinkReturns(t)
  PROVE  LogInv'
<1> USE NetworkAssumption
<1>1. Httpd \in Logger!Everyone /\ NoOne \notin Logger!Everyone
  BY DEF Logger!Everyone
<1>2. logging[t] # "idle" /\ (t = Httpd => request = Logger!NoRequest)
  BY <1>1 DEF Logger!logSink, Logger!SendChunk, Logger!SinkReturns, LogInv, ListLocked
<1>3. CASE Logger!logSink(t)
  <2>1. /\ mListMutex = NoOne /\ mListMutex' = t /\ next' = 1 /\ logging' = [logging EXCEPT ![t] = "send"]
        /\ UNCHANGED <<mConnections, request>>
    BY <1>3 DEF Logger!logSink, Logger!Goes
  <2>2. \A u \in Logger!Everyone : logging'[u] = "send" => u = t
    BY <1>1, <2>1 DEF LogInv, LogType, ListLocked
  <2>3. LogType' /\ \A k \in DOMAIN mConnections : ~(k < 1)
    BY <2>1 DEF LogInv, LogType
  <2>4. request[1] # "delete" /\ (request # Logger!NoRequest => logging'[Httpd] = "idle")
    BY <1>1, <1>2, <2>1 DEF LogInv, LogType, ListLocked
  <2> QED BY <2>1, <2>2, <2>3, <2>4 DEF LogInv, ListLocked, SentSoFar
<1>4. CASE Logger!SendChunk(t)
  <2>1. /\ logging[t] = "send" /\ next <= Len(mConnections) /\ reached' = reached \cup {mConnections[next]}
        /\ next' = next + 1 /\ UNCHANGED <<mListMutex, mConnections, logging, request>>
    BY <1>4 DEF Logger!SendChunk
  <2>2. \A k \in DOMAIN mConnections : k < next + 1 => mConnections[k] \in reached'
    BY <2>1 DEF LogInv, LogType, SentSoFar
  <2> QED BY <2>1, <2>2 DEF LogInv, LogType, ListLocked, SentSoFar
<1>5. CASE Logger!SinkReturns(t)
  <2>1. /\ logging[t] = "send" /\ mListMutex' = NoOne /\ logging' = [logging EXCEPT ![t] = "idle"]
        /\ UNCHANGED <<mConnections, next, reached, request>>
    BY <1>5 DEF Logger!SinkReturns, Logger!Goes
  <2>2. LogType' /\ \A u \in Logger!Everyone : logging'[u] # "send"
    BY <2>1 DEF LogInv, LogType, ListLocked
  <2>3. mListMutex = t /\ request[1] # "delete" /\ (request # Logger!NoRequest => logging'[Httpd] = "idle")
    BY <1>1, <1>2, <2>1 DEF LogInv, LogType, ListLocked, Logger!NoRequest
  <2> QED BY <2>1, <2>2, <2>3 DEF LogInv, ListLocked, SentSoFar
<1> QED BY <1>3, <1>4, <1>5

\* The server's task adds a connection, or takes one off.
LEMMA LogRequestKeeps ==
  ASSUME LogInv,
         Logger!HttpdStep \/ \E fd \in Fds : Logger!Request(fd) \/ Logger!Close(fd)
  PROVE  LogInv'
<1> USE NetworkAssumption
<1>1. Httpd \in Logger!Everyone /\ NoOne \notin Logger!Everyone
  BY DEF Logger!Everyone
<1>2. ASSUME NEW fd \in Fds, Logger!Request(fd) \/ Logger!Close(fd) PROVE LogInv'
  <2>1. PICK r \in {"add", "close"} :
            /\ request = Logger!NoRequest /\ logging[Httpd] = "idle" /\ request' = <<r, fd>>
            /\ UNCHANGED <<mListMutex, mConnections, logging, next, reached>>
    BY <1>2 DEF Logger!Request, Logger!Close
  <2>2. request'[1] # "delete" /\ LogType'
    BY <2>1 DEF LogInv, LogType
  <2> QED BY <2>1, <2>2 DEF LogInv, ListLocked, SentSoFar
<1>3. CASE Logger!AddConnection
  <2>1. /\ request[1] = "add" /\ mListMutex = NoOne /\ mConnections' = Append(mConnections, request[2])
        /\ request' = Logger!NoRequest /\ UNCHANGED <<mListMutex, logging, next, reached>>
    BY <1>3 DEF Logger!AddConnection
  <2>2. request[2] \in Fds /\ request'[1] # "delete"
    BY <2>1 DEF LogInv, LogType, Logger!NoRequest
  <2>3. \A u \in Logger!Everyone : logging[u] # "send"
    BY <1>1, <2>1 DEF LogInv, ListLocked
  <2> QED BY <2>1, <2>2, <2>3 DEF LogInv, LogType, ListLocked, SentSoFar
<1>4. CASE Logger!connCloseFunc
  <2>1. /\ request[1] = "close" /\ mListMutex = NoOne /\ mListMutex' = Httpd /\ request' = <<"delete", request[2]>>
        /\ UNCHANGED <<mConnections, logging, next, reached>>
    BY <1>4 DEF Logger!connCloseFunc, Logger!Locks, Logger!LocksList
  <2>2. request[2] \in Fds /\ request # Logger!NoRequest
    BY <2>1 DEF LogInv, LogType, Logger!NoRequest
  <2>3. \A u \in Logger!Everyone : logging[u] # "send"
    BY <1>1, <2>1 DEF LogInv, ListLocked
  <2> QED BY <2>1, <2>2, <2>3 DEF LogInv, LogType, ListLocked, SentSoFar
<1>5. CASE Logger!DeleteConn
  <2>1. /\ request[1] = "delete" /\ mConnections' = Logger!RemoveFirst(mConnections, request[2])
        /\ request' = Logger!NoRequest /\ UNCHANGED <<logging, next, reached>>
    BY <1>5 DEF Logger!DeleteConn
  <2>2. mConnections' \in Seq(Fds)
    BY <2>1, LogRemoveType DEF LogInv, LogType
  <2>3. \A u \in Logger!Everyone : logging[u] # "send"
    BY <1>1, <2>1 DEF LogInv, ListLocked, Logger!NoRequest
  <2>4. request'[1] # "delete"
    BY <2>1 DEF Logger!NoRequest
  <2> QED BY <2>1, <2>2, <2>3, <2>4 DEF LogInv, LogType, ListLocked, SentSoFar
<1> QED BY <1>2, <1>3, <1>4, <1>5 DEF Logger!HttpdStep

LEMMA LogInvHolds == MCSpec => []LogInv
<1>1. MCInit => LogInv
  BY DEF MCInit, Logger!Init, LogInv, LogType, ListLocked, SentSoFar, Logger!Everyone, Logger!NoRequest
<1>2. LogInv /\ [MCNext]_allVars => LogInv'
  <2> SUFFICES ASSUME LogInv, [Logger!Next]_logVars PROVE LogInv'
    BY StepOfEach
  <2>1. CASE UNCHANGED logVars \/ \E set \in BOOLEAN : Logger!setSinkFunc(set)
    <3>1. UNCHANGED <<mListMutex, mConnections, logging, next, reached, request>>
      BY <2>1 DEF logVars, Logger!setSinkFunc
    <3> QED BY <3>1 DEF LogInv, LogType, ListLocked, SentSoFar
  <2> QED BY <2>1, LogBeginKeeps, LogSendKeeps, LogRequestKeeps DEF Logger!Next, Logger!LogStep
<1> QED BY <1>1, <1>2, PTL DEF MCSpec

\* A line that was logged has been sent to every connection in the list when
\* logSink returns, however many tasks log and however connections come and go.
THEOREM LineReachesAllHolds == MCSpec => []LineReachesAll
<1>1. LogInv => LineReachesAll
  <2> SUFFICES ASSUME LogInv, NEW t \in Logger!Everyone, logging[t] = "send", next > Len(mConnections),
                      NEW fd \in Logger!ToSet(mConnections)
               PROVE  fd \in reached
    BY DEF LineReachesAll, Logger!LineReachesAll
  <2>1. PICK k \in DOMAIN mConnections : mConnections[k] = fd
    BY DEF Logger!ToSet
  <2>2. k < next
    BY <2>1 DEF LogInv, LogType
  <2> QED BY <2>1, <2>2 DEF LogInv, SentSoFar
<1> QED BY <1>1, LogInvHolds, PTL
-----------------------------------------------------------------------------
(* HttpClient. *)

Buffer == [bufSize : Nat, data : Seq(Nat)]
Larger(a, b) == IF a <= b THEN b ELSE a
Smaller(a, b) == IF a <= b THEN a ELSE b

\* Of two numbers, the larger and the smaller one.
LEMMA MaxMinOfTwo ==
  ASSUME NEW a \in Int, NEW b \in Int
  PROVE  /\ Client!Max({a, b}) = Larger(a, b) /\ Client!B!Max({a, b}) = Larger(a, b)
         /\ Client!Min({a, b}) = Smaller(a, b)
<1>1. Client!Max({a, b}) = Larger(a, b)
  BY DEF Client!Max, Larger
<1>2. Client!B!Max({a, b}) = Larger(a, b)
  BY DEF Client!B!Max, Larger
<1>3. Client!Min({a, b}) = Smaller(a, b)
  BY DEF Client!Min, Smaller
<1> QED BY <1>1, <1>2, <1>3

\* DynBuffer::reserve makes room if there is too little.
LEMMA ReserveIs ==
  ASSUME NEW buf \in Buffer, NEW size \in Nat
  PROVE  Client!B!reserve(buf, size) = [bufSize |-> Larger(buf.bufSize, size), data |-> buf.data]
<1>1. Client!B!Max({buf.bufSize, size}) = Larger(buf.bufSize, size)
  <2>1. buf.bufSize \in Int /\ size \in Int
    BY DEF Buffer
  <2> QED BY <2>1, MaxMinOfTwo
<1>2. buf = [bufSize |-> buf.bufSize, data |-> buf.data]
  BY DEF Buffer
<1>3. Client!B!reserve(buf, size) = [buf EXCEPT !.bufSize = Larger(buf.bufSize, size)]
  BY <1>1 DEF Client!B!reserve
<1> QED BY <1>2, <1>3

\* DynBuffer::resize makes room if there is too little, and keeps what there was.
LEMMA ResizeIs ==
  ASSUME NEW buf \in Buffer, NEW size \in Nat
  PROVE  Client!B!resize(buf, size) =
            [bufSize |-> Larger(buf.bufSize, size),
             data |-> [i \in 1 .. size |-> IF i \in DOMAIN buf.data THEN buf.data[i] ELSE 0]]
<1> DEFINE r == Client!B!reserve(buf, size)
           d == [i \in 1 .. size |-> IF i \in DOMAIN buf.data THEN buf.data[i] ELSE 0]
<1>1. r = [bufSize |-> Larger(buf.bufSize, size), data |-> buf.data]
  BY ReserveIs
<1>2. Client!B!resize(buf, size) = [r EXCEPT !.data = d]
  BY <1>1 DEF Client!B!resize
<1> HIDE DEF r, d
<1>3. Client!B!resize(buf, size) = [bufSize |-> Larger(buf.bufSize, size), data |-> d]
  BY <1>1, <1>2
<1> QED BY <1>3 DEF d

\* A buffer whose first n bytes are 1, 2 ... n, cut there and ended: it is the
\* whole text of a response.
LEMMA ReturnedIs ==
  ASSUME NEW buf \in Buffer, NEW n \in Nat, n <= Len(buf.data), \A i \in 1 .. n : buf.data[i] = i
  PROVE  /\ Client!Returned(buf, n) \in Buffer /\ buf.bufSize <= Client!Returned(buf, n).bufSize
         /\ Client!Returned(buf, n).data = [i \in 1 .. n + 1 |-> IF i <= n THEN i ELSE 0]
<1> DEFINE cut == [bufSize |-> Larger(buf.bufSize, n), data |-> [i \in 1 .. n |-> i]]
           text == [i \in 1 .. n + 1 |-> IF i <= n THEN i ELSE 0]
<1>1. Client!B!resize(buf, n) = cut
  <2>1. [i \in 1 .. n |-> IF i \in DOMAIN buf.data THEN buf.data[i] ELSE 0] = [i \in 1 .. n |-> i]
    BY DEF Buffer
  <2> QED BY <2>1, ResizeIs
<1>2. cut \in Buffer /\ Len(cut.data) = n /\ \A i \in 1 .. n : cut.data[i] = i
  BY DEF Buffer, Larger
<1>3. ~Client!B!Ended(cut)
  <2>1. n # 0 => Client!B!Last(cut.data) = n
    BY <1>2 DEF Client!B!Last
  <2>2. n = 0 => cut.data = <<>>
    OBVIOUS
  <2> QED BY <2>1, <2>2 DEF Client!B!Ended
<1>4. Client!Returned(buf, n) = Client!B!append(cut, <<0>>)
  BY <1>1, <1>3 DEF Client!Returned, Client!B!nullTerminate
<1>5. Client!B!append(cut, <<0>>) = [bufSize |-> Larger(cut.bufSize, n + 1), data |-> cut.data \o <<0>>]
  <2>1. Len(cut.data) + Len(<<0>>) = n + 1 /\ cut.bufSize \in Nat
    BY <1>2 DEF Buffer
  <2>2. Client!B!ensureFreeSpace(cut, Len(<<0>>)) = [bufSize |-> Larger(cut.bufSize, n + 1), data |-> cut.data]
    BY <1>2, <2>1, ReserveIs DEF Client!B!ensureFreeSpace
  <2> DEFINE e == Client!B!ensureFreeSpace(cut, Len(<<0>>))
             d == cut.data \o <<0>>
  <2>3. Client!B!append(cut, <<0>>) = [e EXCEPT !.data = e.data \o <<0>>]
    BY DEF Client!B!append
  <2>4. e = [bufSize |-> Larger(cut.bufSize, n + 1), data |-> cut.data]
    BY <2>2
  <2> HIDE DEF e, cut
  <2> QED BY <2>3, <2>4
<1>6. cut.data \o <<0>> = text
  <2>0. cut.data \in Seq(Nat) /\ Len(cut.data) = n
    BY <1>2 DEF Buffer
  <2>1. text \in Seq(Nat) /\ Len(text) = n + 1
    OBVIOUS
  <2>2. cut.data \o <<0>> \in Seq(Nat) /\ Len(cut.data \o <<0>>) = n + 1
    <3> HIDE DEF cut, text
    <3> QED BY <2>0
  <2>3. \A i \in 1 .. n + 1 : (cut.data \o <<0>>)[i] = text[i]
    BY <1>2 DEF Buffer
  <2> QED BY <2>1, <2>2, <2>3, SeqEqual
<1>7. text \in Seq(Nat)
  OBVIOUS
<1>8. Client!Returned(buf, n) = [bufSize |-> Larger(Larger(buf.bufSize, n), n + 1), data |-> text]
  BY <1>4, <1>5, <1>6
<1>9. buf.bufSize \in Nat
  BY DEF Buffer
<1> HIDE DEF text
<1> QED BY <1>7, <1>8, <1>9 DEF Buffer, Larger, text

\* Before the body nothing was received. While it is, the buffer begins with what
\* has come, and is all in use but for the place of the 0 that ends a body of
\* known length; what is returned is whole.
ClientInv ==
    /\ server \in [size : Nat, declared : BOOLEAN, redirects : Nat, postLen : Nat]
    /\ resp \in Buffer /\ recvd \in Nat /\ recvd <= resp.bufSize
    /\ pc \in {"open", "write", "headers", "connected"} => recvd = 0 /\ resp = Client!B!Empty
    /\ pc = "read" =>
        /\ recvd <= server.size /\ recvd <= Len(resp.data) /\ \A i \in 1 .. recvd : resp.data[i] = i
        /\ Client!clen > 0 => Len(resp.data) = Client!clen /\ resp.bufSize = Client!clen + 1
        /\ Client!clen <= 0 => resp.bufSize = Len(resp.data)
    /\ pc = "done" => resp.data = [i \in 1 .. server.size + 1 |-> IF i <= server.size THEN i ELSE 0]

\* What neither receives nor returns a body.
LEMMA ClientQuietKeeps ==
  ASSUME ClientInv,
         \/ Client!Open \/ Client!OpenFails \/ Client!Write \/ Client!WriteFails \/ Client!Written
         \/ Client!Redirect \/ Client!Headers \/ Client!HeadersFail \/ Client!Abort \/ Client!TooLong
         \/ Client!CannotGrow \/ Client!Terminate \/ Client!close
         \/ Client!CheckTerminate("headers") \/ Client!CheckTerminate("read") \/ Client!Throw("read")
  PROVE  ClientInv'
<1>1. CASE Client!Redirect
  <2>1. /\ server' = [server EXCEPT !.redirects = @ - 1] /\ server.redirects > 0
        /\ pc = "headers" /\ pc' = "open" /\ UNCHANGED <<resp, recvd>>
    BY <1>1 DEF Client!Redirect, Client!Goes
  <2>2. server' \in [size : Nat, declared : BOOLEAN, redirects : Nat, postLen : Nat]
    BY <2>1 DEF ClientInv
  <2> QED BY <2>1, <2>2 DEF ClientInv
<1>2. CASE Client!Terminate
  <2>1. UNCHANGED <<pc, server, resp, recvd>>
    BY <1>2 DEF Client!Terminate
  <2> QED BY <2>1 DEF ClientInv, Client!clen
<1>3. CASE ~Client!Redirect /\ ~Client!Terminate
  <2>1. /\ UNCHANGED <<server, resp, recvd>>
        /\ pc' \in {"idle", "open", "write", "headers", "connected", "thrown", "aborted"}
        /\ pc' \in {"open", "write", "headers", "connected"} => pc \in {"open", "write", "headers", "connected"}
    BY <1>3 DEF Client!Open, Client!OpenFails, Client!Write, Client!WriteFails, Client!Written,
                Client!Headers, Client!HeadersFail, Client!Abort, Client!TooLong, Client!CannotGrow,
                Client!close, Client!CheckTerminate, Client!Throw, Client!Goes
  <2> QED BY <2>1 DEF ClientInv
<1> QED BY <1>1, <1>2, <1>3

LEMMA EmptyIsBuffer == Client!B!Empty \in Buffer /\ Client!B!Empty.bufSize = 0 /\ Client!B!Empty.data = <<>>
  BY DEF Client!B!Empty, Buffer

\* The buffer is made, for a body of known length with a place for the 0.
LEMMA MakeBufferKeeps == ASSUME ClientInv, Client!MakeBuffer PROVE ClientInv'
<1> USE NetworkAssumption
<1>1. /\ pc' = "read" /\ UNCHANGED <<server, recvd>> /\ recvd = 0
      /\ resp' = IF Client!clen > 0
                 THEN Client!B!resize(Client!B!reserve(Client!B!Empty, Client!clen + 1), Client!clen)
                 ELSE Client!B!resize(Client!B!Empty, FirstSize)
  BY DEF Client!MakeBuffer, ClientInv
<1>2. Client!clen' = Client!clen /\ Client!clen \in Int
  BY <1>1 DEF Client!clen, ClientInv
<1>3. CASE Client!clen > 0
  <2> DEFINE r == Client!B!reserve(Client!B!Empty, Client!clen + 1)
  <2>1. r = [bufSize |-> Client!clen + 1, data |-> <<>>]
    BY <1>2, <1>3, EmptyIsBuffer, ReserveIs DEF Larger
  <2>2. r \in Buffer
    <3>1. <<>> \in Seq(Nat) /\ Client!clen + 1 \in Nat
      BY <1>2, <1>3
    <3> HIDE DEF r
    <3>2. r.bufSize = Client!clen + 1 /\ r.data = <<>>
      BY <2>1
    <3> QED BY <2>1, <3>1, <3>2 DEF Buffer
  <2>3. resp' = Client!B!resize(r, Client!clen)
    BY <1>1, <1>3
  <2> HIDE DEF r
  <2>4. resp' = [bufSize |-> Larger(r.bufSize, Client!clen),
                 data |-> [i \in 1 .. Client!clen |-> IF i \in DOMAIN r.data THEN r.data[i] ELSE 0]]
    BY <1>2, <1>3, <2>2, <2>3, ResizeIs
  <2>5. /\ resp' \in Buffer /\ resp'.bufSize = Client!clen + 1 /\ Len(resp'.data) = Client!clen
    BY <1>2, <1>3, <2>1, <2>2, <2>4 DEF Buffer, Larger
  <2> QED BY <1>1, <1>2, <1>3, <2>5 DEF ClientInv
<1>4. CASE ~(Client!clen > 0)
  <2> DEFINE e == Client!B!Empty
  <2>1. e \in Buffer /\ e.bufSize = 0 /\ resp' = Client!B!resize(e, FirstSize)
    BY <1>1, <1>4, EmptyIsBuffer
  <2> HIDE DEF e
  <2>2. resp' = [bufSize |-> Larger(e.bufSize, FirstSize),
                 data |-> [i \in 1 .. FirstSize |-> IF i \in DOMAIN e.data THEN e.data[i] ELSE 0]]
    BY <2>1, ResizeIs
  <2>3. resp' \in Buffer /\ resp'.bufSize = FirstSize /\ Len(resp'.data) = FirstSize
    BY <2>1, <2>2 DEF Buffer, Larger
  <2> QED BY <1>1, <1>2, <1>4, <2>3 DEF ClientInv
<1> QED BY <1>3, <1>4

\* The buffer that the next bytes are read into: what it grows by is what there
\* is room for.
LEMMA GrownIs ==
  ASSUME ClientInv, pc = "read", Client!toRead > 0, Client!IsFull => Client!clen <= 0
  PROVE  /\ Client!Grown \in Buffer /\ Client!toRead \in Nat
         /\ recvd + Client!toRead = Client!Grown.bufSize
         /\ recvd <= Len(Client!Grown.data) /\ \A i \in 1 .. recvd : Client!Grown.data[i] = i
         /\ Client!clen > 0 => Len(Client!Grown.data) = Client!clen /\ Client!Grown.bufSize = Client!clen + 1
         /\ Client!clen <= 0 => Client!Grown.bufSize = Len(Client!Grown.data)
<1> USE NetworkAssumption
<1>1. resp \in Buffer /\ resp.bufSize \in Nat /\ recvd \in Nat /\ Client!clen \in Int
  BY DEF ClientInv, Buffer, Client!clen
<1>2. CASE ~Client!IsFull
  <2>1. Client!Grown = resp /\ Client!toRead = resp.bufSize - recvd
    BY <1>2 DEF Client!Grown, Client!toRead
  <2>2. recvd + Client!toRead = resp.bufSize /\ Client!toRead \in Nat
    BY <1>1, <2>1
  <2> QED BY <1>1, <2>1, <2>2 DEF ClientInv
<1>3. CASE Client!IsFull
  <2>1. recvd = resp.bufSize /\ Len(resp.data) = resp.bufSize /\ Client!clen <= 0
    <3>1. resp.bufSize <= recvd /\ Client!clen <= 0
      BY <1>1, <1>3 DEF Client!IsFull
    <3>2. recvd <= resp.bufSize /\ resp.bufSize = Len(resp.data)
      BY <3>1 DEF ClientInv
    <3> QED BY <1>1, <3>1, <3>2
  <2> DEFINE n == Client!NewSize
  <2>2. (resp.bufSize * 3) \div 2 \in Int
    BY <1>1
  <2>3. n \in Int
    <3> DEFINE half == (resp.bufSize * 3) \div 2
    <3>1. half \in Int /\ kMaxMemResponseLen \in Int /\ Client!NewSize = Client!Min({half, kMaxMemResponseLen})
      BY <2>2 DEF Client!NewSize
    <3> HIDE DEF half
    <3>2. Client!Min({half, kMaxMemResponseLen}) = Smaller(half, kMaxMemResponseLen)
      BY <3>1, MaxMinOfTwo
    <3> QED BY <3>1, <3>2 DEF Smaller
  <2>4. Client!toRead = n - resp.bufSize /\ Client!Grown = Client!B!resize(resp, n)
    BY <1>3 DEF Client!toRead, Client!ReadAfterGrowth, Client!GrowsBy, Client!Grown
  <2> HIDE DEF n
  <2>5. n > resp.bufSize /\ n \in Nat
    BY <1>1, <2>3, <2>4
  <2>6. Client!Grown = [bufSize |-> Larger(resp.bufSize, n),
                        data |-> [i \in 1 .. n |-> IF i \in DOMAIN resp.data THEN resp.data[i] ELSE 0]]
    BY <1>1, <2>4, <2>5, ResizeIs
  <2>7. Client!Grown \in Buffer /\ Client!Grown.bufSize = n /\ Len(Client!Grown.data) = n
    BY <1>1, <2>5, <2>6 DEF Buffer, Larger
  <2>8. \A i \in 1 .. recvd : Client!Grown.data[i] = i
    <3>1. \A i \in 1 .. recvd : resp.data[i] = i /\ i \in DOMAIN resp.data /\ i \in 1 .. n
      BY <1>1, <2>1, <2>5 DEF ClientInv, Buffer
    <3>2. \A i \in 1 .. n : i \in DOMAIN resp.data => Client!Grown.data[i] = resp.data[i]
      BY <2>6
    <3> QED BY <3>1, <3>2
  <2> QED BY <1>1, <2>1, <2>3, <2>4, <2>5, <2>7, <2>8
<1> QED BY <1>2, <1>3

\* Some bytes arrive, which may be the last ones.
LEMMA ReadKeeps == ASSUME ClientInv, Client!Read PROVE ClientInv'
<1> DEFINE g == Client!Grown
<1>1. /\ pc = "read" /\ Client!toRead > 0 /\ (Client!IsFull => Client!clen <= 0)
      /\ UNCHANGED server /\ server.size \in Nat /\ recvd \in Nat /\ Client!clen \in Int
      /\ Client!clen' = Client!clen
  BY DEF Client!Read, ClientInv, Client!clen
<1>2. /\ g \in Buffer /\ Client!toRead \in Nat /\ recvd + Client!toRead = g.bufSize
      /\ recvd <= Len(g.data) /\ \A i \in 1 .. recvd : g.data[i] = i
      /\ Client!clen > 0 => Len(g.data) = Client!clen /\ g.bufSize = Client!clen + 1
      /\ Client!clen <= 0 => g.bufSize = Len(g.data)
  BY <1>1, GrownIs
<1>3. PICK n \in 1 .. Client!Min({Client!toRead, server.size - recvd}) :
        LET cells == [i \in 1 .. Client!Max({Len(g.data), recvd + n}) |->
                       IF i \in recvd + 1 .. recvd + n THEN i ELSE g.data[i]]
            buf == [g EXCEPT !.data = cells]
        IN  /\ recvd' = recvd + n
            /\ IF recvd + n = Client!clen THEN resp' = Client!Returned(buf, Client!clen) /\ pc' = "done"
               ELSE resp' = buf /\ pc' = "read"
  BY DEF Client!Read
<1> HIDE DEF g
<1>4. n \in Nat /\ n > 0 /\ n <= Client!toRead /\ n <= server.size - recvd
  <2>1. Client!toRead \in Int /\ server.size - recvd \in Int
    BY <1>1, <1>2
  <2>2. Client!Min({Client!toRead, server.size - recvd}) = Smaller(Client!toRead, server.size - recvd)
    BY <2>1, MaxMinOfTwo
  <2> QED BY <1>3, <2>1, <2>2 DEF Smaller
<1>5. Len(g.data) \in Nat /\ recvd + n <= Len(g.data)
  <2>1. Client!clen > 0 => Client!clen = server.size
    BY DEF Client!clen
  <2>2. Len(g.data) \in Nat /\ g.bufSize \in Nat
    BY <1>2 DEF Buffer
  <2>3. CASE Client!clen > 0
    BY <1>1, <1>2, <1>4, <2>1, <2>2, <2>3
  <2>4. CASE ~(Client!clen > 0)
    <3>1. g.bufSize = Len(g.data)
      BY <1>1, <1>2, <2>4
    <3> QED BY <1>1, <1>2, <1>4, <2>2, <3>1
  <2> QED BY <2>3, <2>4
<1>6. Client!Max({Len(g.data), recvd + n}) = Len(g.data)
  <2>1. Len(g.data) \in Int /\ recvd + n \in Int
    BY <1>1, <1>4, <1>5
  <2>2. Client!Max({Len(g.data), recvd + n}) = Larger(Len(g.data), recvd + n)
    BY <2>1, MaxMinOfTwo
  <2> QED BY <1>5, <2>1, <2>2 DEF Larger
<1> DEFINE cells == [i \in 1 .. Len(g.data) |-> IF i \in recvd + 1 .. recvd + n THEN i ELSE g.data[i]]
           buf == [bufSize |-> g.bufSize, data |-> cells]
<1>7. [g EXCEPT !.data = cells] = buf
  <2>1. g = [bufSize |-> g.bufSize, data |-> g.data]
    BY <1>2 DEF Buffer
  <2> HIDE DEF cells
  <2> QED BY <2>1
<1>8. /\ recvd' = recvd + n
      /\ IF recvd + n = Client!clen THEN resp' = Client!Returned(buf, Client!clen) /\ pc' = "done"
         ELSE resp' = buf /\ pc' = "read"
  BY <1>3, <1>6, <1>7
<1>9. /\ buf \in Buffer /\ Len(buf.data) = Len(g.data) /\ buf.bufSize = g.bufSize
      /\ \A i \in 1 .. recvd + n : buf.data[i] = i
  <2>1. cells \in [1 .. Len(g.data) -> Nat]
    BY <1>2, <1>5 DEF Buffer
  <2>2. \A i \in 1 .. recvd + n : cells[i] = i
    BY <1>1, <1>2, <1>4, <1>5
  <2>3. g.bufSize \in Nat
    BY <1>2 DEF Buffer
  <2> HIDE DEF cells
  <2>4. cells \in Seq(Nat) /\ Len(cells) = Len(g.data)
    BY <1>5, <2>1
  <2> QED BY <2>2, <2>3, <2>4 DEF Buffer
<1> HIDE DEF buf
<1>10. CASE recvd + n = Client!clen
  <2>1. Client!clen = server.size /\ resp' = Client!Returned(buf, Client!clen) /\ pc' = "done" /\ Client!clen \in Nat
    BY <1>1, <1>4, <1>8, <1>10 DEF Client!clen
  <2>2. /\ resp' \in Buffer /\ buf.bufSize <= resp'.bufSize
        /\ resp'.data = [i \in 1 .. server.size + 1 |-> IF i <= server.size THEN i ELSE 0]
    BY <1>5, <1>9, <1>10, <2>1, ReturnedIs
  <2>3. recvd' \in Nat /\ recvd' <= resp'.bufSize
    <3>1. recvd' \in Nat /\ recvd' <= g.bufSize /\ g.bufSize \in Nat
      BY <1>1, <1>2, <1>4, <1>8 DEF Buffer
    <3>2. g.bufSize <= resp'.bufSize /\ resp'.bufSize \in Nat
      BY <1>9, <2>2 DEF Buffer
    <3> QED BY <3>1, <3>2
  <2> QED BY <1>1, <2>1, <2>2, <2>3 DEF ClientInv
<1>11. CASE recvd + n # Client!clen
  <2>1. resp' = buf /\ pc' = "read"
    BY <1>8, <1>11
  <2>2. recvd' \in Nat /\ recvd' <= resp'.bufSize /\ recvd' <= server.size
    BY <1>1, <1>2, <1>4, <1>8, <1>9, <2>1 DEF Buffer
  <2> QED BY <1>1, <1>2, <1>5, <1>8, <1>9, <2>1, <2>2 DEF ClientInv
<1> QED BY <1>10, <1>11

\* The body of unknown length is at its end.
LEMMA ReadEndKeeps == ASSUME ClientInv, Client!ReadEnd PROVE ClientInv'
<1>1. /\ pc = "read" /\ Client!toRead > 0 /\ (server.declared \/ recvd = server.size)
      /\ UNCHANGED <<server, recvd>> /\ server.size \in Nat /\ recvd \in Nat /\ recvd <= server.size
  BY DEF Client!ReadEnd, ClientInv
<1>2. CASE Client!clen > 0
  <2>1. pc' = "thrown" /\ resp' = resp
    BY <1>2 DEF Client!ReadEnd
  <2> QED BY <1>1, <2>1 DEF ClientInv
<1>3. CASE ~(Client!clen > 0)
  <2>1. pc' = "done" /\ resp' = Client!Returned(Client!Grown, recvd)
    BY <1>3 DEF Client!ReadEnd
  <2>2. server.size = recvd /\ Client!clen <= 0
    BY <1>1, <1>3 DEF Client!clen, ClientInv
  <2>3. /\ Client!Grown \in Buffer /\ recvd <= Len(Client!Grown.data)
        /\ \A i \in 1 .. recvd : Client!Grown.data[i] = i
        /\ recvd + Client!toRead = Client!Grown.bufSize /\ Client!toRead \in Nat
    BY <1>1, <2>2, GrownIs
  <2>4. /\ resp' \in Buffer /\ Client!Grown.bufSize <= resp'.bufSize
        /\ resp'.data = [i \in 1 .. server.size + 1 |-> IF i <= server.size THEN i ELSE 0]
    BY <1>1, <2>1, <2>2, <2>3, ReturnedIs
  <2>5. recvd <= resp'.bufSize
    BY <1>1, <2>3, <2>4 DEF Buffer
  <2> QED BY <1>1, <2>1, <2>4, <2>5 DEF ClientInv
<1> QED BY <1>2, <1>3

LEMMA ClientInvHolds == MCSpec => []ClientInv
<1> USE NetworkAssumption
<1>1. MCInit => ClientInv
  BY EmptyIsBuffer DEF MCInit, Client!Init, ClientInv
<1>2. ClientInv /\ [MCNext]_allVars => ClientInv'
  <2> SUFFICES ASSUME ClientInv, [Client!Next]_clientVars PROVE ClientInv'
    BY StepOfEach
  <2>1. CASE UNCHANGED clientVars
    <3>1. UNCHANGED <<pc, server, resp, recvd>>
      BY <2>1 DEF clientVars
    <3> QED BY <3>1 DEF ClientInv, Client!clen
  <2>2. ASSUME NEW size \in 0 .. MaxBody, NEW d \in BOOLEAN, NEW r \in 0 .. MaxRedirects, NEW p \in 0 .. 2,
               Client!Request(size, d, r, p)
        PROVE  ClientInv'
    BY <2>2, EmptyIsBuffer DEF Client!Request, ClientInv
  <2> QED BY <2>1, <2>2, ClientQuietKeeps, MakeBufferKeeps, ReadKeeps, ReadEndKeeps DEF Client!Next
<1> QED BY <1>1, <1>2, PTL DEF MCSpec

\* A response that is returned is whole, ends with a 0 and was never written
\* behind its buffer, whatever its length and the portions in which it came.
THEOREM ResponseIsWholeHolds == MCSpec => []ResponseIsWhole
<1>1. ClientInv => ResponseIsWhole
  BY DEF ClientInv, ResponseIsWhole, Client!ResponseIsWhole
<1> QED BY <1>1, ClientInvHolds, PTL
-----------------------------------------------------------------------------
(* HttpFile: the tree of paths. *)

\* What a set has that has d and is closed, everything below d has.
LEMMA BelowIn ==
  ASSUME NEW S \in SUBSET File!Paths, NEW d \in S, File!Closed(S), NEW p, File!Below(p, d)
  PROVE  p \in S
  BY DEF File!Below

LEMMA BelowSelf == ASSUME NEW p PROVE File!Below(p, p)
  BY DEF File!Below

LEMMA BelowTrans ==
  ASSUME NEW p, NEW q, NEW r, File!Below(p, q), File!Below(q, r)
  PROVE  File!Below(p, r)
  BY DEF File!Below

LEMMA ChildBelow ==
  ASSUME NEW p \in File!Paths \ {Root} PROVE File!Below(p, Parent[p])
  BY DEF File!Below, File!Closed

\* What is below a directory, but is not it, is in something that is below it ...
LEMMA BelowUp ==
  ASSUME NEW d \in File!Paths, NEW p \in File!Paths, File!Below(p, d), p # d
  PROVE  p # Root /\ File!Below(Parent[p], d)
<1> DEFINE S == {q \in File!Paths : q = d \/ (q # Root /\ File!Below(Parent[q], d))}
<1>1. \A q \in S : File!Below(q, d)
  BY BelowSelf, BelowTrans, ChildBelow
<1>2. File!Closed(S)
  BY <1>1 DEF File!Closed
<1> HIDE DEF S
<1>3. d \in S /\ S \in SUBSET File!Paths
  BY DEF S
<1>4. p \in S
  BY <1>2, <1>3, BelowIn
<1> QED BY <1>4 DEF S

\* ... and below one of its entries.
LEMMA BelowEntry ==
  ASSUME NEW d \in File!Paths, NEW p \in File!Paths, File!Below(p, d), p # d
  PROVE  \E e \in File!Paths \ {Root} : Parent[e] = d /\ File!Below(p, e)
<1> DEFINE S == {q \in File!Paths : q = d \/ \E e \in File!Paths \ {Root} : Parent[e] = d /\ File!Below(q, e)}
<1>1. ASSUME NEW q \in File!Paths \ {Root}, Parent[q] \in S PROVE q \in S
  <2>1. CASE Parent[q] = d
    BY <2>1, BelowSelf
  <2>2. ASSUME NEW e \in File!Paths \ {Root}, Parent[e] = d, File!Below(Parent[q], e) PROVE q \in S
    <3>1. File!Below(q, e)
      BY <2>2, ChildBelow, BelowTrans
    <3> QED BY <2>2, <3>1
  <2> QED BY <1>1, <2>1, <2>2
<1>2. File!Closed(S)
  BY <1>1 DEF File!Closed
<1> HIDE DEF S
<1>3. d \in S /\ S \in SUBSET File!Paths
  BY DEF S
<1>4. p \in S
  BY <1>2, <1>3, BelowIn
<1> QED BY <1>4 DEF S

\* The tree has no cycles.
LEMMA BelowBoth ==
  ASSUME NEW p \in File!Paths, NEW q \in File!Paths, File!Below(p, q), File!Below(q, p)
  PROVE  p = q
<1> SUFFICES ASSUME p # q PROVE FALSE
  OBVIOUS
<1> DEFINE C == {r \in File!Paths : File!Below(r, q) /\ File!Below(q, r)}
<1>1. p \in C /\ q \in C
  BY BelowSelf
<1>2. PICK m \in C : \A r \in C \ {Root} : Parent[r] # m
  BY <1>1, FileAssumption DEF File!HttpFileAssumption, File!Paths
<1>3. PICK other \in C : other # m
  BY <1>1
<1>4. File!Below(other, m)
  BY BelowTrans
<1>5. PICK e \in File!Paths \ {Root} : Parent[e] = m /\ File!Below(other, e)
  BY <1>3, <1>4, BelowEntry
<1>6. File!Below(e, q)
  BY <1>5, ChildBelow, BelowTrans
<1>7. File!Below(q, e)
  BY <1>5, BelowTrans
<1> QED BY <1>2, <1>5, <1>6, <1>7

LEMMA NotItsParent == ASSUME NEW d \in File!Paths \ {Root} PROVE Parent[d] # d
<1> DEFINE D == {d}
<1>1. D \in SUBSET File!Paths /\ D # {} /\ \A m \in D : m = d
  OBVIOUS
<1> HIDE DEF D
<1>2. PICK m \in D : \A r \in D \ {Root} : Parent[r] # m
  BY <1>1, FileAssumption DEF File!HttpFileAssumption, File!Paths
<1>3. d \in D /\ m = d
  BY <1>1, <1>2 DEF D
<1> QED BY <1>2, <1>3

\* Two entries of a directory have nothing in common.
LEMMA EntriesApart ==
  ASSUME NEW d \in File!Paths, NEW a \in File!Paths \ {Root}, NEW b \in File!Paths \ {Root},
         Parent[a] = d, Parent[b] = d, NEW p \in File!Paths, File!Below(p, a), File!Below(p, b)
  PROVE  a = b
<1> DEFINE S == {q \in File!Paths : /\ File!Below(q, a)
                                    /\ File!Below(q, b) => File!Below(a, b) \/ File!Below(b, a)}
<1>1. ASSUME NEW q \in File!Paths \ {Root}, Parent[q] \in S PROVE q \in S
  <2>1. File!Below(q, a)
    BY <1>1, ChildBelow, BelowTrans
  <2>2. ASSUME File!Below(q, b) PROVE File!Below(a, b) \/ File!Below(b, a)
    <3>1. CASE q = b
      BY <2>1, <3>1
    <3>2. CASE q # b
      BY <1>1, <2>2, <3>2, BelowUp
    <3> QED BY <3>1, <3>2
  <2> QED BY <2>1, <2>2
<1>2. File!Closed(S)
  BY <1>1 DEF File!Closed
<1>3. a \in S
  BY BelowSelf
<1> HIDE DEF S
<1>4. p \in S
  <2>1. S \in SUBSET File!Paths
    BY DEF S
  <2> QED BY <1>2, <1>3, <2>1, BelowIn
<1>5. File!Below(a, b) \/ File!Below(b, a)
  BY <1>4 DEF S
<1>6. ASSUME NEW x \in File!Paths \ {Root}, NEW y \in File!Paths \ {Root}, Parent[x] = d, Parent[y] = d,
             File!Below(x, y), x # y
      PROVE  FALSE
  <2>1. File!Below(d, y)
    BY <1>6, BelowUp
  <2>2. File!Below(y, d)
    BY <1>6, ChildBelow
  <2>3. y = d
    BY <2>1, <2>2, BelowBoth
  <2> QED BY <1>6, <2>3, NotItsParent
<1> QED BY <1>5, <1>6
-----------------------------------------------------------------------------
(* HttpFile: what a deletion does. *)

\* The paths that exist, with each the directory it is in.
Rooted(paths) == paths \in SUBSET File!Paths /\ \A p \in paths \ {Root} : Parent[p] \in paths
EntriesOf(paths, d) == {p \in paths : p # Root /\ Parent[p] = d}

\* What is between a path that exists and one that it is below of exists.
LEMMA BetweenExists ==
  ASSUME NEW paths, Rooted(paths), NEW p \in paths, NEW e \in File!Paths, File!Below(p, e)
  PROVE  e \in paths
<1> SUFFICES ASSUME e \notin paths PROVE FALSE
  OBVIOUS
<1> DEFINE S == File!Paths \ paths
<1>1. File!Closed(S) /\ e \in S /\ S \in SUBSET File!Paths
  BY DEF File!Closed, Rooted
<1> HIDE DEF S
<1>2. p \in S
  BY <1>1, BelowIn
<1> QED BY <1>2 DEF S

LEMMA UnderIs ==
  ASSUME NEW paths, Rooted(paths), NEW d \in paths
  PROVE  /\ d \in File!Under(paths, d)
         /\ \A e \in EntriesOf(paths, d) : File!Under(paths, e) \subseteq File!Under(paths, d) \ {d}
         /\ \A p \in File!Under(paths, d) \ {d} : \E e \in EntriesOf(paths, d) : p \in File!Under(paths, e)
<1>1. d \in File!Under(paths, d)
  BY BelowSelf DEF File!Under
<1>2. ASSUME NEW e \in EntriesOf(paths, d) PROVE File!Under(paths, e) \subseteq File!Under(paths, d) \ {d}
  <2>1. e \in File!Paths \ {Root} /\ File!Below(e, d)
    BY <1>2, ChildBelow DEF EntriesOf, Rooted
  <2>2. File!Under(paths, e) \subseteq File!Under(paths, d)
    BY <2>1, BelowTrans DEF File!Under
  <2>3. ASSUME d \in File!Under(paths, e) PROVE FALSE
    <3>1. d = e
      BY <2>1, <2>3, BelowBoth DEF File!Under, Rooted
    <3>2. Parent[e] = e /\ e \in File!Paths \ {Root}
      BY <2>1, <3>1 DEF EntriesOf
    <3> QED BY <3>2, NotItsParent
  <2> QED BY <2>2, <2>3
<1>3. ASSUME NEW p \in File!Under(paths, d) \ {d}
      PROVE  \E e \in EntriesOf(paths, d) : p \in File!Under(paths, e)
  <2>1. PICK e \in File!Paths \ {Root} : Parent[e] = d /\ File!Below(p, e)
    BY <1>3, BelowEntry DEF File!Under, Rooted
  <2>2. e \in paths
    BY <1>3, <2>1, BetweenExists DEF File!Under
  <2> QED BY <1>3, <2>1, <2>2 DEF EntriesOf, File!Under
<1> QED BY <1>1, <1>2, <1>3

\* In a directory that can be opened, what stands in the way in one entry does not
\* depend on the others.
LEMMA ThereOfEntry ==
  ASSUME NEW paths, Rooted(paths), NEW d \in paths, NEW stuck, NEW shut, d \notin shut,
         NEW e \in EntriesOf(paths, d), NEW p \in File!Under(paths, e)
  PROVE  p \in File!There(paths, d, stuck, shut) <=> p \in File!There(paths, e, stuck, shut)
<1>1. p \in File!Under(paths, d) /\ File!Under(paths, e) \subseteq File!Under(paths, d) \ {d}
  BY UnderIs
<1>2. ASSUME NEW x \in File!Under(paths, d) \cap shut, File!Below(p, x) PROVE x \in File!Under(paths, e)
  <2>1. x # d
    BY <1>2
  <2>2. PICK a \in EntriesOf(paths, d) : x \in File!Under(paths, a)
    BY <1>2, <2>1, UnderIs
  <2>3. File!Below(p, a)
    BY <1>2, <2>2, BelowTrans DEF File!Under
  <2>4. a = e
    BY <2>3, EntriesApart DEF EntriesOf, File!Under, Rooted
  <2> QED BY <2>2, <2>4
<1> QED BY <1>1, <1>2 DEF File!There

LEMMA ThereOfTop ==
  ASSUME NEW paths, Rooted(paths), NEW d \in paths, NEW stuck, NEW shut, d \notin shut
  PROVE  d \in File!There(paths, d, stuck, shut) <=> d \in stuck
<1>1. ASSUME NEW x \in File!Under(paths, d) \cap shut, File!Below(d, x) PROVE FALSE
  BY <1>1, BelowBoth DEF File!Under, Rooted
<1> QED BY <1>1, UnderIs DEF File!There

LEMMA KeptNothing ==
  ASSUME NEW paths, NEW d, NEW stuck, NEW shut
  PROVE  File!Kept(paths, d, stuck, shut) = {} <=> File!There(paths, d, stuck, shut) = {}
<1>1. File!There(paths, d, stuck, shut) \subseteq File!Kept(paths, d, stuck, shut)
  BY BelowSelf DEF File!Kept, File!There
<1> QED BY <1>1 DEF File!Kept

LEMMA KeptOfEntry ==
  ASSUME NEW paths, Rooted(paths), NEW d \in paths, NEW stuck, NEW shut, d \notin shut,
         NEW e \in EntriesOf(paths, d), NEW p \in File!Under(paths, e)
  PROVE  p \in File!Kept(paths, d, stuck, shut) <=> p \in File!Kept(paths, e, stuck, shut)
<1>1. ASSUME NEW q \in paths, File!Below(q, p) PROVE q \in File!Under(paths, e)
  BY <1>1, BelowTrans DEF File!Under
<1>2. p \in File!Under(paths, d)
  BY UnderIs
<1>3. File!There(paths, d, stuck, shut) \subseteq paths /\ File!There(paths, e, stuck, shut) \subseteq File!Under(paths, e)
  BY DEF File!There, File!Under
<1> QED BY <1>1, <1>2, <1>3, ThereOfEntry DEF File!Kept

\* Something stands in the way under a directory that can be opened if it is the
\* directory itself or something under an entry, and then the directory is kept.
LEMMA KeptOfTop ==
  ASSUME NEW paths, Rooted(paths), NEW d \in paths, NEW stuck, NEW shut, d \notin shut
  PROVE  /\ d \in File!Kept(paths, d, stuck, shut) <=> File!Kept(paths, d, stuck, shut) # {}
         /\ File!Kept(paths, d, stuck, shut) = {} <=>
                d \notin stuck /\ \A e \in EntriesOf(paths, d) : File!Kept(paths, e, stuck, shut) = {}
<1> DEFINE there == File!There(paths, d, stuck, shut)
<1>1. there \subseteq File!Under(paths, d)
  BY DEF File!There
<1>2. there # {} => d \in File!Kept(paths, d, stuck, shut)
  BY <1>1, UnderIs DEF File!Kept, File!Under
<1>3. ASSUME there # {}, d \notin stuck
      PROVE  \E e \in EntriesOf(paths, d) : File!There(paths, e, stuck, shut) # {}
  <2>1. PICK q \in there : TRUE
    BY <1>3
  <2>2. q # d
    BY <1>3, <2>1, ThereOfTop
  <2>3. PICK e \in EntriesOf(paths, d) : q \in File!Under(paths, e)
    BY <1>1, <2>1, <2>2, UnderIs
  <2>4. q \in File!There(paths, e, stuck, shut)
    BY <2>1, <2>3, ThereOfEntry
  <2> QED BY <2>4
<1>4. ASSUME NEW e \in EntriesOf(paths, d), File!There(paths, e, stuck, shut) # {} PROVE there # {}
  <2>1. PICK q \in File!There(paths, e, stuck, shut) : TRUE
    BY <1>4
  <2>2. q \in File!Under(paths, e)
    BY <2>1 DEF File!There
  <2> QED BY <2>1, <2>2, ThereOfEntry
<1>5. d \in stuck => there # {}
  BY ThereOfTop
<1> QED BY <1>2, <1>3, <1>4, <1>5, KeptNothing

\* A directory that cannot be opened is kept with all that is under it.
LEMMA KeptIfShut ==
  ASSUME NEW paths, Rooted(paths), NEW d \in paths, NEW stuck, NEW shut, d \in shut
  PROVE  File!Kept(paths, d, stuck, shut) = File!Under(paths, d) /\ d \in File!Under(paths, d)
<1>1. File!There(paths, d, stuck, shut) = File!Under(paths, d)
  BY UnderIs DEF File!There, File!Under
<1> QED BY <1>1, UnderIs, BelowSelf DEF File!Kept, File!Under

\* Nothing is under a file.
LEMMA KeptFile ==
  ASSUME NEW paths, Rooted(paths), NEW p \in paths \ Dirs, NEW stuck, NEW shut \in SUBSET Dirs
  PROVE  /\ File!Under(paths, p) = {p}
         /\ File!Kept(paths, p, stuck, shut) = IF p \in stuck THEN {p} ELSE {}
<1>1. EntriesOf(paths, p) = {}
  BY FileAssumption DEF EntriesOf, Rooted, File!HttpFileAssumption, File!Paths
<1>2. File!Under(paths, p) = {p}
  BY <1>1, UnderIs
<1>3. p \notin shut
  OBVIOUS
<1>4. File!Kept(paths, p, stuck, shut) \subseteq {p}
  BY <1>2 DEF File!Kept
<1> QED BY <1>1, <1>2, <1>3, <1>4, KeptOfTop

\* What the deletion of d does, and what it says.
Exactly(d, stuck, shut) ==
    [gone |-> File!Under(DOMAIN disk, d) \ File!Kept(DOMAIN disk, d, stuck, shut),
     ok |-> IF File!Kept(DOMAIN disk, d, stuck, shut) = {} THEN TRUE ELSE FALSE]
ResultsOf(f, d, stuck) == [p \in File!Entries(d) |-> IF p \in Dirs THEN f[p] ELSE File!remove(p, stuck)]
Deletes(f, stuck, shut) ==
    f = [d \in Dirs \cap DOMAIN disk |-> File!Emptied(d, ResultsOf(f, d, stuck), stuck, shut)]

LEMMA RemoveIs ==
  ASSUME Rooted(DOMAIN disk), NEW p \in DOMAIN disk \ Dirs, NEW stuck, NEW shut \in SUBSET Dirs
  PROVE  File!remove(p, stuck) = Exactly(p, stuck, shut)
<1>1. /\ File!Under(DOMAIN disk, p) = {p}
      /\ File!Kept(DOMAIN disk, p, stuck, shut) = IF p \in stuck THEN {p} ELSE {}
  BY KeptFile
<1>2. CASE p \in stuck
  <2>1. {p} \ {p} = {} /\ {p} # {}
    OBVIOUS
  <2> QED BY <1>1, <1>2, <2>1 DEF File!remove, File!Failed, Exactly
<1>3. CASE p \notin stuck
  <2>1. {p} \ {} = {p}
    OBVIOUS
  <2> QED BY <1>1, <1>3, <2>1 DEF File!remove, File!Failed, Exactly
<1> QED BY <1>2, <1>3

\* If each entry was deleted as it should be, the directory is.
LEMMA EmptiedIs ==
  ASSUME Rooted(DOMAIN disk), NEW d \in DOMAIN disk, NEW stuck, NEW shut,
         NEW results, DOMAIN results = File!Entries(d),
         \A e \in File!Entries(d) : results[e] = Exactly(e, stuck, shut)
  PROVE  File!Emptied(d, results, stuck, shut) = Exactly(d, stuck, shut)
<1> DEFINE paths == DOMAIN disk
           kept == File!Kept(paths, d, stuck, shut)
           went == UNION {results[p].gone : p \in DOMAIN results}
<1>1. File!Entries(d) = EntriesOf(paths, d)
  BY DEF File!Entries, EntriesOf
<1>2. CASE d \in shut
  <2>1. Exactly(d, stuck, shut) = File!Failed
    <3>1. /\ File!Kept(paths, d, stuck, shut) = File!Under(paths, d) /\ File!Under(paths, d) # {}
          /\ File!Under(paths, d) \ File!Under(paths, d) = {}
      BY <1>2, KeptIfShut
    <3> QED BY <3>1 DEF Exactly, File!Failed
  <2> QED BY <1>2, <2>1 DEF File!Emptied
<1>3. CASE d \notin shut
  <2>1. File!EntriesOk(results) <=> \A e \in EntriesOf(paths, d) : File!Kept(paths, e, stuck, shut) = {}
    BY <1>1 DEF File!EntriesOk, File!AllOk, Exactly
  <2>2. went = (File!Under(paths, d) \ {d}) \ kept
    <3>1. ASSUME NEW e \in EntriesOf(paths, d), NEW p \in results[e].gone
          PROVE  p \in (File!Under(paths, d) \ {d}) \ kept
      <4>1. p \in File!Under(paths, e) /\ p \notin File!Kept(paths, e, stuck, shut)
        BY <1>1, <3>1 DEF Exactly
      <4> QED BY <1>3, <4>1, KeptOfEntry, UnderIs
    <3>2. ASSUME NEW p \in (File!Under(paths, d) \ {d}) \ kept
          PROVE  \E e \in EntriesOf(paths, d) : p \in results[e].gone
      <4>1. PICK e \in EntriesOf(paths, d) : p \in File!Under(paths, e)
        BY <3>2, UnderIs
      <4>2. p \notin File!Kept(paths, e, stuck, shut)
        BY <1>3, <3>2, <4>1, KeptOfEntry
      <4> QED BY <1>1, <4>1, <4>2 DEF Exactly
    <3> QED BY <1>1, <3>1, <3>2
  <2>3. d \in File!Under(paths, d) /\ kept \subseteq File!Under(paths, d)
    BY UnderIs DEF File!Kept
  <2>4. CASE File!EntriesOk(results) /\ d \notin stuck
    <3>1. kept = {}
      BY <1>3, <2>1, <2>4, KeptOfTop
    <3> QED BY <1>3, <2>2, <2>3, <2>4, <3>1 DEF File!Emptied, File!remove, Exactly
  <2>5. CASE ~(File!EntriesOk(results) /\ d \notin stuck)
    <3>1. kept # {} /\ d \in kept
      BY <1>3, <2>1, <2>5, KeptOfTop
    <3>2. Exactly(d, stuck, shut) = [gone |-> went, ok |-> FALSE]
      BY <2>2, <2>3, <3>1 DEF Exactly
    <3> QED BY <1>3, <2>5, <3>2 DEF File!Emptied, File!remove, File!Failed
  <2> QED BY <2>4, <2>5
<1> QED BY <1>2, <1>3

\* The recursion has a solution ...
LEMMA DeletesExists ==
  ASSUME Rooted(DOMAIN disk), NEW stuck, NEW shut \in SUBSET Dirs
  PROVE  \E f : Deletes(f, stuck, shut)
<1> DEFINE f == [d \in Dirs \cap DOMAIN disk |-> Exactly(d, stuck, shut)]
<1>1. ASSUME NEW d \in Dirs \cap DOMAIN disk
      PROVE  File!Emptied(d, ResultsOf(f, d, stuck), stuck, shut) = Exactly(d, stuck, shut)
  <2>1. ASSUME NEW e \in File!Entries(d) PROVE ResultsOf(f, d, stuck)[e] = Exactly(e, stuck, shut)
    BY <2>1, RemoveIs DEF ResultsOf, File!Entries
  <2> QED BY <2>1, EmptiedIs DEF ResultsOf
<1>2. f = [d \in Dirs \cap DOMAIN disk |-> File!Emptied(d, ResultsOf(f, d, stuck), stuck, shut)]
  BY <1>1
<1> HIDE DEF f
<1> QED BY <1>2 DEF Deletes

\* ... and this is the only one.
LEMMA DeletesIs ==
  ASSUME Rooted(DOMAIN disk), NEW stuck, NEW shut \in SUBSET Dirs, NEW f, Deletes(f, stuck, shut)
  PROVE  \A d \in Dirs \cap DOMAIN disk : f[d] = Exactly(d, stuck, shut)
<1> DEFINE S == {d \in Dirs \cap DOMAIN disk : f[d] # Exactly(d, stuck, shut)}
<1> SUFFICES ASSUME S # {} PROVE FALSE
  OBVIOUS
<1>1. S \in SUBSET (Dirs \cup Files)
  BY DEF Rooted, File!Paths
<1>2. PICK d \in S : \A q \in S \ {Root} : Parent[q] # d
  BY <1>1, FileAssumption DEF File!HttpFileAssumption
<1>3. ASSUME NEW e \in File!Entries(d) PROVE ResultsOf(f, d, stuck)[e] = Exactly(e, stuck, shut)
  <2>1. e \in DOMAIN disk /\ e # Root /\ Parent[e] = d
    BY <1>3 DEF File!Entries
  <2>2. CASE e \in Dirs
    <3>1. e \notin S
      BY <1>2, <2>1
    <3> QED BY <1>3, <2>1, <2>2, <3>1 DEF ResultsOf
  <2>3. CASE e \notin Dirs
    BY <1>3, <2>1, <2>3, RemoveIs DEF ResultsOf
  <2> QED BY <2>2, <2>3
<1>4. f[d] = File!Emptied(d, ResultsOf(f, d, stuck), stuck, shut)
  BY DEF Deletes
<1>5. File!Emptied(d, ResultsOf(f, d, stuck), stuck, shut) = Exactly(d, stuck, shut)
  <2>1. DOMAIN ResultsOf(f, d, stuck) = File!Entries(d)
    BY DEF ResultsOf
  <2> HIDE DEF S
  <2>2. d \in DOMAIN disk
    BY DEF S
  <2> QED BY <1>3, <2>1, <2>2, EmptiedIs
<1> QED BY <1>4, <1>5

LEMMA DelDirectoryIs ==
  ASSUME Rooted(DOMAIN disk), NEW stuck, NEW shut \in SUBSET Dirs, NEW d \in Dirs \cap DOMAIN disk
  PROVE  File!delDirectory(stuck, shut)[d] = Exactly(d, stuck, shut)
<1>1. Deletes(File!delDirectory(stuck, shut), stuck, shut)
  BY DeletesExists DEF File!delDirectory, Deletes, ResultsOf
<1> QED BY <1>1, DeletesIs
-----------------------------------------------------------------------------
(* HttpFile: the handlers. *)

\* Of an upload, what was received is on the disk; of a download, what was read has
\* been sent.
Uploading ==
    /\ fileRequest \in [f : {"post"}, name : Files, body : Bodies, remain : Nat, numWaits : Nat]
    /\ fileRequest.name \in DOMAIN disk /\ fileRequest.remain <= Len(fileRequest.body)
    /\ disk[fileRequest.name] = SubSeq(fileRequest.body, 1, Len(fileRequest.body) - fileRequest.remain)
Downloading ==
    /\ fileRequest \in [f : {"get"}, name : Files, at : Nat, body : Seq(File!Bytes)]
    /\ fileRequest.name \in DOMAIN disk /\ fileRequest.at <= Len(disk[fileRequest.name])
    /\ fileRequest.body = SubSeq(disk[fileRequest.name], 1, fileRequest.at)
Handling == fileRequest = File!None \/ Uploading \/ Downloading

FileInv ==
    /\ Rooted(DOMAIN disk) /\ Root \in DOMAIN disk
    /\ disk \in [DOMAIN disk -> Seq(File!Bytes)]
    /\ Handling
    /\ fileRequest # File!None => outcome = File!None
    /\ AnswersAreTrue

LEMMA SoFarAndMore ==
  ASSUME NEW S, NEW s \in Seq(S), NEW k \in 0 .. Len(s), NEW n \in 0 .. Len(s) - k
  PROVE  SubSeq(s, 1, k) \o SubSeq(s, k + 1, k + n) = SubSeq(s, 1, k + n)
<1>1. 1 \in 1 .. Len(s) + 1 /\ k \in 1 - 1 .. Len(s) /\ k + n \in k .. Len(s)
  OBVIOUS
<1> QED BY <1>1, ConcatAdjacentSubSeq

LEMMA NoneIs == File!None.f = "none"
  BY DEF File!None

\* Nobody told anything about the files that could have become wrong.
LEMMA QuietIsTrue == (outcome = File!None)' => AnswersAreTrue'
  BY DEF AnswersAreTrue, File!AnswersAreTrue, File!UploadIsWhole, File!DownloadIsWhole, File!DeleteIsExact,
         File!ListIsComplete, File!None

LEMMA RefusalIsTrue ==
  ASSUME NEW f \in {"post", "get", "ls"}, NEW name,
         outcome' = [f |-> f, name |-> name, ok |-> FALSE, with |-> File!None]
  PROVE  AnswersAreTrue'
<1>1. outcome'.f = f /\ outcome'.ok = FALSE
  OBVIOUS
<1> QED BY <1>1 DEF AnswersAreTrue, File!AnswersAreTrue, File!UploadIsWhole, File!DownloadIsWhole,
        File!DeleteIsExact, File!ListIsComplete

LEMMA RefuseKeeps ==
  ASSUME FileInv, \/ \E name \in File!Paths : \E f \in {"post", "get", "ls"} : File!Refuse(f, name)
                  \/ \E name \in File!Paths \ DOMAIN disk : File!Refuse("del", name)
  PROVE  FileInv'
<1>1. fileRequest = File!None /\ UNCHANGED <<disk, fileRequest>>
  BY DEF File!Refuse
<1>2. CASE \E name \in File!Paths : \E f \in {"post", "get", "ls"} : File!Refuse(f, name)
  <2>1. AnswersAreTrue'
    BY <1>2, RefusalIsTrue DEF File!Refuse
  <2> QED BY <1>1, <2>1 DEF FileInv, Handling
<1>3. ASSUME NEW name, File!Refuse("del", name) PROVE AnswersAreTrue'
  <2>1. outcome' = [f |-> "del", name |-> name, ok |-> FALSE, with |-> File!None]
    BY <1>3 DEF File!Refuse
  <2>2. outcome'.f = "del" /\ outcome'.ok = FALSE /\ outcome'.with = File!None
    BY <2>1
  <2> QED BY <2>2 DEF AnswersAreTrue, File!AnswersAreTrue, File!UploadIsWhole, File!DownloadIsWhole,
          File!DeleteIsExact, File!ListIsComplete
<1> QED BY <1>1, <1>2, <1>3 DEF FileInv, Handling

\* A path is put where its directory exists.
LEMMA PutKeeps ==
  ASSUME FileInv, NEW name \in File!Paths, name # Root => Parent[name] \in DOMAIN disk,
         NEW content \in Seq(File!Bytes), disk' = File!Put(name, content)
  PROVE  /\ Rooted(DOMAIN disk)' /\ (Root \in DOMAIN disk)' /\ (disk \in [DOMAIN disk -> Seq(File!Bytes)])'
         /\ name \in DOMAIN disk' /\ disk'[name] = content
<1>1. DOMAIN disk' = DOMAIN disk \cup {name}
  BY DEF File!Put
<1>2. \A p \in DOMAIN disk' : disk'[p] = IF p = name THEN content ELSE disk[p]
  BY <1>1 DEF File!Put
<1>3. disk' \in [DOMAIN disk' -> Seq(File!Bytes)]
  BY <1>1 DEF File!Put, FileInv
<1> QED BY <1>1, <1>2, <1>3 DEF FileInv, Rooted

LEMMA BeginKeeps ==
  ASSUME FileInv,
         \/ \E name \in Files, body \in Bodies : Parent[name] \in DOMAIN disk /\ File!Post(name, body)
         \/ \E name \in Files : File!Get(name)
         \/ \E d \in Dirs \ {Root} : File!MakeDir(d)
  PROVE  FileInv'
<1>0. <<>> \in Seq(File!Bytes) /\ \A s : SubSeq(s, 1, 0) = <<>>
  BY SubSeqEmpty
<1>1. ASSUME NEW name \in Files, NEW body \in Bodies, Parent[name] \in DOMAIN disk, File!Post(name, body)
      PROVE  FileInv'
  <2>1. /\ disk' = File!Put(name, <<>>) /\ outcome' = File!None
        /\ fileRequest' = [f |-> "post", name |-> name, body |-> body, remain |-> Len(body), numWaits |-> 0]
    BY <1>1 DEF File!Post
  <2>2. Len(body) \in Nat
    BY FileAssumption DEF File!HttpFileAssumption
  <2>3. /\ Rooted(DOMAIN disk)' /\ (Root \in DOMAIN disk)' /\ (disk \in [DOMAIN disk -> Seq(File!Bytes)])'
        /\ name \in DOMAIN disk' /\ disk'[name] = <<>>
    BY <1>0, <1>1, <2>1, PutKeeps DEF File!Paths
  <2>4. Uploading'
    BY <1>0, <2>1, <2>2, <2>3 DEF Uploading
  <2> QED BY <2>1, <2>3, <2>4, QuietIsTrue DEF FileInv, Handling
<1>2. ASSUME NEW name \in Files, File!Get(name) PROVE FileInv'
  <2>1. /\ fileRequest' = [f |-> "get", name |-> name, at |-> 0, body |-> <<>>]
        /\ outcome' = File!None /\ disk' = disk /\ name \in DOMAIN disk
    BY <1>2 DEF File!Get
  <2>2. Len(disk[name]) \in Nat
    BY <2>1 DEF FileInv
  <2>3. Downloading'
    BY <1>0, <2>1, <2>2 DEF Downloading
  <2> QED BY <2>1, <2>3, QuietIsTrue DEF FileInv, Handling
<1>3. ASSUME NEW d \in Dirs \ {Root}, File!MakeDir(d) PROVE FileInv'
  <2>1. /\ disk' = File!Put(d, <<>>) /\ Parent[d] \in DOMAIN disk
        /\ outcome' = File!None /\ fileRequest' = File!None
    BY <1>3 DEF File!MakeDir
  <2>2. Rooted(DOMAIN disk)' /\ (Root \in DOMAIN disk)' /\ (disk \in [DOMAIN disk -> Seq(File!Bytes)])'
    BY <1>0, <2>1, PutKeeps DEF File!Paths
  <2> QED BY <2>1, <2>2, QuietIsTrue DEF FileInv, Handling
<1> QED BY <1>1, <1>2, <1>3

\* The handler is told that it failed, or goes on waiting.
LEMMA FailKeeps ==
  ASSUME FileInv, File!RecvTimeout \/ File!RecvFails \/ File!SendFails
  PROVE  FileInv'
<1>1. disk' = disk
  BY DEF File!RecvTimeout, File!RecvFails, File!SendFails
<1>2. fileRequest.f \in {"post", "get"} /\ fileRequest # File!None
  <2>1. fileRequest.f \in {"post", "get"}
    BY DEF File!RecvTimeout, File!RecvFails, File!SendFails
  <2> QED BY <2>1, NoneIs
<1>3. CASE File!Answer(FALSE, File!None)
  <2>1. AnswersAreTrue' /\ fileRequest' = File!None
    BY <1>2, <1>3, RefusalIsTrue DEF File!Answer
  <2> QED BY <1>1, <2>1 DEF FileInv, Handling
<1>4. CASE fileRequest' = [fileRequest EXCEPT !.numWaits = @ + 1] /\ UNCHANGED outcome /\ fileRequest.f = "post"
  <2>1. Uploading
    BY <1>2, <1>4 DEF FileInv, Handling, Downloading
  <2>2. Uploading'
    BY <1>1, <1>4, <2>1 DEF Uploading
  <2>3. outcome' = File!None
    BY <1>2, <1>4 DEF FileInv
  <2> QED BY <1>1, <2>2, <2>3, QuietIsTrue DEF FileInv, Handling
<1> QED BY <1>3, <1>4 DEF File!RecvTimeout, File!RecvFails, File!SendFails

LEMMA RecvBlockKeeps ==
  ASSUME FileInv, NEW recvLen \in Int, NEW written \in Int, File!RecvBlock(recvLen, written)
  PROVE  FileInv'
<1> DEFINE name == fileRequest.name
           body == fileRequest.body
           at == Len(body) - fileRequest.remain
           block == File!Received(recvLen)
<1>1. /\ fileRequest.f = "post" /\ fileRequest.remain > 0 /\ fileRequest # File!None
      /\ recvLen >= 1 /\ recvLen <= fileRequest.remain /\ written \in 0 .. recvLen
      /\ disk' = [disk EXCEPT ![name] = @ \o SubSeq(block, 1, written)]
  <2>1. fileRequest.f = "post" /\ fileRequest.remain > 0 /\ written \in 0 .. recvLen
        /\ recvLen \in 1 .. File!Smaller(fileRequest.remain, kFileIoBufSize)
        /\ disk' = [disk EXCEPT ![name] = @ \o SubSeq(block, 1, written)]
    BY DEF File!RecvBlock
  <2>2. fileRequest # File!None
    BY <2>1, NoneIs
  <2>3. fileRequest.remain \in Nat
    BY <2>1, <2>2 DEF FileInv, Handling, Uploading, Downloading
  <2> QED BY <2>1, <2>2, <2>3, FileAssumption DEF File!Smaller, File!HttpFileAssumption
<1>2. /\ fileRequest \in [f : {"post"}, name : Files, body : Bodies, remain : Nat, numWaits : Nat]
      /\ name \in DOMAIN disk /\ fileRequest.remain <= Len(body) /\ disk[name] = SubSeq(body, 1, at)
  BY <1>1 DEF FileInv, Handling, Uploading, Downloading
<1>3. body \in Seq(File!Bytes) /\ Len(body) \in Nat /\ at \in 0 .. Len(body) /\ recvLen \in 0 .. Len(body) - at
      /\ recvLen \in Nat
  BY <1>1, <1>2, FileAssumption DEF File!HttpFileAssumption
<1>4. /\ block \in Seq(File!Bytes) /\ Len(block) = recvLen /\ SubSeq(block, 1, recvLen) = block
      /\ block = SubSeq(body, at + 1, at + recvLen)
      /\ SubSeq(block, 1, written) \in Seq(File!Bytes)
  <2>1. block = SubSeq(body, at + 1, at + recvLen)
    BY DEF File!Received
  <2>2. block \in Seq(File!Bytes) /\ Len(block) = recvLen
    <3>1. \A i \in at + 1 .. at + recvLen : body[i] \in File!Bytes
      BY <1>3
    <3>2. /\ SubSeq(body, at + 1, at + recvLen) \in Seq(File!Bytes)
          /\ Len(SubSeq(body, at + 1, at + recvLen)) =
                IF at + 1 <= at + recvLen THEN (at + recvLen) - (at + 1) + 1 ELSE 0
      BY <1>3, <3>1, SubSeqProperties
    <3>3. at + 1 <= at + recvLen /\ (at + recvLen) - (at + 1) + 1 = recvLen
      BY <1>1, <1>3
    <3> QED BY <2>1, <3>2, <3>3
  <2> HIDE DEF block
  <2>3. SubSeq(block, 1, written) \in Seq(File!Bytes)
    <3>1. \A i \in 1 .. written : block[i] \in File!Bytes
      BY <1>1, <2>2
    <3> QED BY <1>1, <3>1, SubSeqProperties
  <2> QED BY <2>1, <2>2, <2>3, SubSeqFull
<1>5. Rooted(DOMAIN disk)' /\ (Root \in DOMAIN disk)' /\ (disk \in [DOMAIN disk -> Seq(File!Bytes)])'
  <2>1. disk[name] \in Seq(File!Bytes)
    BY <1>2 DEF FileInv
  <2>2. disk[name] \o SubSeq(block, 1, written) \in Seq(File!Bytes)
    BY <1>4, <2>1, ConcatProperties
  <2>3. DOMAIN disk' = DOMAIN disk /\ disk' \in [DOMAIN disk -> Seq(File!Bytes)]
    BY <1>1, <2>2 DEF FileInv
  <2> QED BY <2>3 DEF FileInv, Rooted
<1>6. CASE written = recvLen
  <2>1. fileRequest' = [fileRequest EXCEPT !.remain = @ - recvLen, !.numWaits = 0] /\ outcome' = outcome
    BY <1>6 DEF File!RecvBlock
  <2>2. disk'[name] = SubSeq(body, 1, at + recvLen)
    <3>1. disk'[name] = SubSeq(body, 1, at) \o block
      BY <1>1, <1>2, <1>4, <1>6 DEF FileInv
    <3>2. SubSeq(body, 1, at) \o SubSeq(body, at + 1, at + recvLen) = SubSeq(body, 1, at + recvLen)
      BY <1>3, SoFarAndMore
    <3> QED BY <1>4, <3>1, <3>2
  <2>3. /\ fileRequest' \in [f : {"post"}, name : Files, body : Bodies, remain : Nat, numWaits : Nat]
        /\ fileRequest'.name = name /\ fileRequest'.body = body /\ fileRequest'.remain = fileRequest.remain - recvLen
    <3>1. PICK less : less = [fileRequest EXCEPT !.remain = @ - recvLen]
      OBVIOUS
    <3>2. fileRequest' = [less EXCEPT !.numWaits = 0]
      BY <2>1, <3>1, Zenon
    <3>3. /\ less \in [f : {"post"}, name : Files, body : Bodies, remain : Nat, numWaits : Nat]
          /\ less.name = name /\ less.body = body /\ less.remain = fileRequest.remain - recvLen
      <4>1. fileRequest.remain - recvLen \in Nat
        BY <1>1, <1>2, <1>3
      <4> QED BY <1>2, <3>1, <4>1
    <3> QED BY <3>2, <3>3
  <2>4. at + recvLen = Len(body) - (fileRequest.remain - recvLen) /\ fileRequest.remain - recvLen <= Len(body)
    BY <1>2, <1>3
  <2>5. name \in DOMAIN disk'
    BY <1>1, <1>2
  <2>6. Uploading'
    BY <2>2, <2>3, <2>4, <2>5 DEF Uploading
  <2>7. outcome' = File!None
    BY <1>1, <2>1 DEF FileInv
  <2> QED BY <1>5, <2>6, <2>7, QuietIsTrue DEF FileInv, Handling
<1>7. CASE written # recvLen
  <2>1. File!Answer(FALSE, File!None)
    BY <1>7 DEF File!RecvBlock
  <2>2. AnswersAreTrue' /\ fileRequest' = File!None
    BY <1>1, <2>1, RefusalIsTrue DEF File!Answer
  <2> QED BY <1>5, <2>2 DEF FileInv, Handling
<1> QED BY <1>6, <1>7

\* All was received: what is closed without a loss is the body that was sent.
LEMMA PostEndsKeeps ==
  ASSUME FileInv, NEW lost \in Int, File!PostEnds(lost) PROVE FileInv'
<1> DEFINE name == fileRequest.name
           body == fileRequest.body
<1>1. /\ fileRequest.f = "post" /\ fileRequest.remain = 0 /\ fileRequest # File!None
      /\ lost \in 0 .. Len(disk[name])
      /\ disk' = [disk EXCEPT ![name] = SubSeq(@, 1, Len(@) - lost)]
      /\ outcome' = [f |-> fileRequest.f, name |-> name, ok |-> TRUE, with |-> [body |-> body, closed |-> (lost = 0)]]
      /\ fileRequest' = File!None
  BY NoneIs DEF File!PostEnds, File!Answer
<1>2. /\ fileRequest \in [f : {"post"}, name : Files, body : Bodies, remain : Nat, numWaits : Nat]
      /\ name \in DOMAIN disk /\ disk[name] = SubSeq(body, 1, Len(body) - 0)
  BY <1>1 DEF FileInv, Handling, Uploading, Downloading
<1>3. disk[name] = body /\ body \in Seq(File!Bytes) /\ Len(body) \in Nat
  <2>1. body \in Seq(File!Bytes) /\ Len(body) \in Nat /\ Len(body) - 0 = Len(body)
    BY <1>2, FileAssumption DEF File!HttpFileAssumption
  <2> QED BY <1>2, <2>1, SubSeqFull
<1>4. SubSeq(body, 1, Len(body) - lost) \in Seq(File!Bytes)
  <2>1. \A i \in 1 .. Len(body) - lost : body[i] \in File!Bytes
    BY <1>1, <1>3
  <2> QED BY <1>1, <1>3, <2>1, SubSeqProperties
<1>5. Rooted(DOMAIN disk)' /\ (Root \in DOMAIN disk)' /\ (disk \in [DOMAIN disk -> Seq(File!Bytes)])'
  <2>1. DOMAIN disk' = DOMAIN disk /\ disk' \in [DOMAIN disk -> Seq(File!Bytes)]
    BY <1>1, <1>3, <1>4 DEF FileInv
  <2> QED BY <2>1 DEF FileInv, Rooted
<1>6. AnswersAreTrue'
  <2>1. outcome'.f = "post" /\ outcome'.name = name /\ outcome'.with.body = body /\ outcome'.with.closed = (lost = 0)
    BY <1>1
  <2>2. lost = 0 => disk'[name] = body
    <3>1. Len(body) - 0 = Len(body)
      BY <1>3
    <3> QED BY <1>1, <1>2, <1>3, <3>1, SubSeqFull DEF FileInv
  <2> QED BY <2>1, <2>2 DEF AnswersAreTrue, File!AnswersAreTrue, File!UploadIsWhole, File!DownloadIsWhole,
          File!DeleteIsExact, File!ListIsComplete
<1> QED BY <1>1, <1>5, <1>6 DEF FileInv, Handling

\* A block that is not full is the last of the file.
LEMMA SendBlockKeeps == ASSUME FileInv, NEW readLen, File!SendBlock(readLen) PROVE FileInv'
<1> DEFINE name == fileRequest.name
           at == fileRequest.at
           file == disk[name]
           n == readLen
           body == fileRequest.body \o SubSeq(file, at + 1, at + n)
           failed == n < File!ReadLen
<1>1. fileRequest.f = "get" /\ fileRequest # File!None /\ disk' = disk /\ n \in 0 .. File!ReadLen
  BY NoneIs DEF File!SendBlock
<1>2. /\ fileRequest \in [f : {"get"}, name : Files, at : Nat, body : Seq(File!Bytes)]
      /\ name \in DOMAIN disk /\ at <= Len(file) /\ fileRequest.body = SubSeq(file, 1, at)
  BY <1>1 DEF FileInv, Handling, Uploading, Downloading
<1>3. file \in Seq(File!Bytes) /\ Len(file) \in Nat
  BY <1>2 DEF FileInv
<1>4. n \in 0 .. Len(file) - at /\ (n # kFileIoBufSize /\ ~failed => at + n = Len(file))
  BY <1>1, <1>2, <1>3, FileAssumption DEF File!ReadLen, File!Smaller, File!HttpFileAssumption
<1>5. body = SubSeq(file, 1, at + n)
  <2>1. at \in 0 .. Len(file) /\ n \in 0 .. Len(file) - at
    BY <1>2, <1>3, <1>4
  <2> HIDE DEF n, file
  <2>2. SubSeq(file, 1, at) \o SubSeq(file, at + 1, at + n) = SubSeq(file, 1, at + n)
    BY <1>3, <2>1, SoFarAndMore
  <2> QED BY <1>2, <2>2
<1>6. CASE File!BlockIsLast(n)
  <2>1. /\ outcome' = [f |-> fileRequest.f, name |-> name, ok |-> TRUE,
                     with |-> [body |-> body, readError |-> failed]]
        /\ fileRequest' = File!None
    BY <1>6 DEF File!SendBlock, File!Answer
  <2>2. /\ ~failed => body = file
        /\ Len(body) <= Len(file) /\ body = SubSeq(file, 1, Len(body))
    <3> HIDE DEF failed, file, n, body
    <3>1. ~failed => body = file
      BY <1>3, <1>4, <1>5, <1>6, SubSeqFull DEF File!BlockIsLast
    <3>2. at + n \in 0 .. Len(file)
      BY <1>2, <1>3, <1>4
    <3>3. Len(body) = at + n
      BY <1>3, <1>5, <3>2
    <3>4. body = SubSeq(file, 1, Len(body))
      BY <1>5, <3>3, Zenon
    <3> QED BY <3>1, <3>2, <3>3, <3>4
  <2>3. /\ outcome'.f = "get" /\ outcome'.name = name
        /\ outcome'.with.body = body /\ outcome'.with.readError = failed
    BY <1>1, <2>1
  <2>4. AnswersAreTrue'
    <3> HIDE DEF failed, body
    <3> QED BY <1>1, <2>2, <2>3 DEF AnswersAreTrue, File!AnswersAreTrue, File!UploadIsWhole,
            File!DownloadIsWhole, File!DeleteIsExact, File!ListIsComplete
  <2> QED BY <1>1, <2>1, <2>4 DEF FileInv, Handling
<1>7. CASE ~File!BlockIsLast(n)
  <2>1. fileRequest' = [fileRequest EXCEPT !.at = @ + n, !.body = body] /\ outcome' = outcome
    BY <1>7 DEF File!SendBlock
  <2>2. SubSeq(file, 1, at + n) \in Seq(File!Bytes)
    <3>1. \A i \in 1 .. at + n : file[i] \in File!Bytes
      BY <1>2, <1>3, <1>4
    <3> QED BY <1>2, <1>3, <1>4, <3>1, SubSeqProperties
  <2> HIDE DEF body, n
  <2>3. /\ fileRequest' \in [f : {"get"}, name : Files, at : Nat, body : Seq(File!Bytes)]
        /\ fileRequest'.name = name /\ fileRequest'.at = at + n /\ fileRequest'.body = body
    <3> DEFINE total == at + n
    <3>0. total \in Nat
      BY <1>2, <1>3, <1>4
    <3>1. PICK sent : sent = [fileRequest EXCEPT !.at = total]
      OBVIOUS
    <3>2. fileRequest' = [sent EXCEPT !.body = body]
      BY <2>1, <3>1, Zenon
    <3> HIDE DEF total
    <3>3. /\ sent \in [f : {"get"}, name : Files, at : Nat, body : Seq(File!Bytes)]
          /\ sent.name = name /\ sent.at = total
      BY <1>2, <3>0, <3>1
    <3>4. body \in Seq(File!Bytes)
      BY <1>5, <2>2, Zenon
    <3> HIDE DEF at, name
    <3>6. /\ fileRequest' \in [f : {"get"}, name : Files, at : Nat, body : Seq(File!Bytes)]
          /\ fileRequest'.name = name /\ fileRequest'.at = total /\ fileRequest'.body = body
      BY <3>2, <3>3, <3>4
    <3> QED BY <3>6 DEF total
  <2>4. at + n <= Len(file)
    BY <1>2, <1>3, <1>4
  <2>5. Downloading'
    BY <1>1, <1>2, <1>5, <2>3, <2>4 DEF Downloading
  <2>6. outcome' = File!None
    BY <1>1, <2>1 DEF FileInv
  <2> QED BY <1>1, <2>5, <2>6, QuietIsTrue DEF FileInv, Handling
<1> QED BY <1>6, <1>7

LEMMA ListKeeps == ASSUME FileInv, NEW d \in Dirs, File!List(d) PROVE FileInv'
<1>1. /\ fileRequest = File!None /\ UNCHANGED <<disk, fileRequest>>
      /\ outcome' = [f |-> "ls", name |-> d, ok |-> TRUE, with |-> [p \in File!Entries(d) |-> File!Describe(p)]]
  BY DEF File!List
<1>2. outcome'.f = "ls" /\ outcome'.name = d /\ DOMAIN outcome'.with = File!Entries(d)
  BY <1>1
<1>3. File!Entries(d)' = File!Entries(d)
  BY <1>1 DEF File!Entries
<1>4. AnswersAreTrue'
  BY <1>2, <1>3 DEF AnswersAreTrue, File!AnswersAreTrue, File!UploadIsWhole, File!DownloadIsWhole,
     File!DeleteIsExact, File!ListIsComplete, File!Entries
<1> QED BY <1>1, <1>4 DEF FileInv, Handling

\* What is kept has its directory kept too.
LEMMA KeptIsRooted ==
  ASSUME NEW paths, Rooted(paths), NEW d \in paths, d # Root, Root \in paths, NEW stuck, NEW shut
  PROVE  /\ Rooted((paths \ File!Under(paths, d)) \cup File!Kept(paths, d, stuck, shut))
         /\ Root \notin File!Under(paths, d)
<1> DEFINE under == File!Under(paths, d)
           kept == File!Kept(paths, d, stuck, shut)
<1>1. Root \notin under
  BY BelowUp DEF File!Under, Rooted
<1>2. ASSUME NEW p \in paths \ {Root}, p \notin under PROVE Parent[p] \in paths \ under
  <2>1. Parent[p] \in paths
    BY <1>2 DEF Rooted
  <2>2. File!Below(p, Parent[p])
    BY <1>2, ChildBelow DEF Rooted
  <2> QED BY <1>2, <2>1, <2>2, BelowTrans DEF File!Under
<1>3. ASSUME NEW p \in kept, p # Root, p # d PROVE Parent[p] \in kept
  <2>1. p \in paths /\ File!Below(p, d)
    BY <1>3 DEF File!Kept, File!Under
  <2>2. Parent[p] \in paths /\ File!Below(Parent[p], d)
    BY <1>3, <2>1, BelowUp DEF Rooted
  <2>3. File!Below(p, Parent[p])
    BY <1>3, <2>1, ChildBelow DEF Rooted
  <2> QED BY <1>3, <2>2, <2>3, BelowTrans DEF File!Kept, File!Under
<1>4. Parent[d] \in paths \ under
  <2>1. Parent[d] \in paths /\ File!Below(d, Parent[d])
    BY ChildBelow DEF Rooted
  <2>2. Parent[d] # d
    BY NotItsParent DEF Rooted
  <2>3. ~File!Below(Parent[d], d)
    BY <2>1, <2>2, BelowBoth DEF Rooted
  <2> QED BY <2>1, <2>3 DEF File!Under
<1>5. kept \subseteq paths
  BY DEF File!Kept, File!Under
<1> QED BY <1>1, <1>2, <1>3, <1>4, <1>5 DEF Rooted

LEMMA DeleteKeeps ==
  ASSUME FileInv, NEW name \in DOMAIN disk \ {Root}, NEW stuck, NEW shut \in SUBSET Dirs,
         File!Delete(name, stuck, shut)
  PROVE  FileInv'
<1> DEFINE paths == DOMAIN disk
           kept == File!Kept(paths, name, stuck, shut)
           under == File!Under(paths, name)
           rest == (paths \ under) \cup kept
<1>0. Rooted(paths) /\ Root \in paths /\ disk \in [paths -> Seq(File!Bytes)]
  BY DEF FileInv
<1>1. PICK r : r = Exactly(name, stuck, shut)
  OBVIOUS
<1>2. /\ fileRequest = File!None /\ fileRequest' = fileRequest
      /\ disk' = File!Restrict(disk, paths \ r.gone)
      /\ outcome' = [f |-> "del", name |-> name, ok |-> r.ok,
                     with |-> [before |-> paths, stuck |-> stuck, shut |-> shut]]
  <2>1. CASE name \in Dirs
    BY <1>0, <1>1, <2>1, DelDirectoryIs DEF File!Delete
  <2>2. CASE name \notin Dirs
    BY <1>0, <1>1, <2>2, RemoveIs DEF File!Delete
  <2> QED BY <2>1, <2>2
<1>3. paths \ r.gone = rest /\ (r.ok <=> kept = {})
  <2>1. r.gone = under \ kept /\ (r.ok <=> kept = {})
    BY <1>1 DEF Exactly
  <2>2. kept \subseteq under /\ under \subseteq paths
    BY DEF File!Kept, File!Under
  <2> QED BY <2>1, <2>2
<1>4. DOMAIN disk' = rest /\ disk' \in [rest -> Seq(File!Bytes)]
  <2>1. disk' = [p \in rest |-> disk[p]] /\ rest \subseteq paths
    BY <1>2, <1>3 DEF File!Restrict
  <2> QED BY <1>0, <2>1
<1>5. Rooted(rest) /\ Root \in rest
  BY <1>0, KeptIsRooted
<1>6. AnswersAreTrue'
  <2>1. /\ outcome'.f = "del" /\ outcome'.name = name /\ outcome'.ok = r.ok /\ outcome'.with.before = paths
        /\ outcome'.with.stuck = stuck /\ outcome'.with.shut = shut
    BY <1>2
  <2>2. File!DeleteIsExact'
    BY <1>3, <1>4, <2>1 DEF File!DeleteIsExact
  <2> QED BY <2>1, <2>2 DEF AnswersAreTrue, File!AnswersAreTrue, File!UploadIsWhole, File!DownloadIsWhole,
          File!ListIsComplete
<1> QED BY <1>2, <1>4, <1>5, <1>6 DEF FileInv, Handling

LEMMA FileInvHolds == MCSpec => []FileInv
<1>1. MCInit => FileInv
  <2> SUFFICES ASSUME MCInit PROVE FileInv
    OBVIOUS
  <2>1. disk = [p \in {Root} |-> <<>>] /\ fileRequest = File!None /\ outcome = File!None
    BY DEF MCInit, File!FileInit
  <2>2. Rooted(DOMAIN disk) /\ Root \in DOMAIN disk /\ disk \in [DOMAIN disk -> Seq(File!Bytes)]
    BY <2>1, FileAssumption DEF Rooted, File!HttpFileAssumption, File!Paths
  <2>3. AnswersAreTrue
    BY <2>1 DEF AnswersAreTrue, File!AnswersAreTrue, File!UploadIsWhole, File!DownloadIsWhole,
       File!DeleteIsExact, File!ListIsComplete, File!None
  <2> QED BY <2>1, <2>2, <2>3 DEF FileInv, Handling
<1>2. FileInv /\ [MCNext]_allVars => FileInv'
  <2> SUFFICES ASSUME FileInv, [File!FileNext]_fileVars PROVE FileInv'
    BY StepOfEach
  <2>1. CASE UNCHANGED fileVars
    <3>1. UNCHANGED <<disk, fileRequest, outcome>>
      BY <2>1 DEF fileVars
    <3> QED BY <3>1 DEF FileInv, Handling, Uploading, Downloading, AnswersAreTrue, File!AnswersAreTrue,
            File!UploadIsWhole, File!DownloadIsWhole, File!DeleteIsExact, File!ListIsComplete, File!Entries
  <2>2. ASSUME NEW recvLen \in 1 .. kFileIoBufSize, NEW written \in 0 .. kFileIoBufSize,
               File!RecvBlock(recvLen, written)
        PROVE  FileInv'
    BY <2>2, RecvBlockKeeps
  <2>3. ASSUME NEW lost \in 0 .. 1, File!PostEnds(lost) PROVE FileInv'
    BY <2>3, PostEndsKeeps
  <2>4. ASSUME NEW name \in DOMAIN disk \ {Root}, NEW stuck, NEW shut, shut \subseteq Dirs,
               File!Delete(name, stuck, shut)
        PROVE  FileInv'
    BY <2>4, DeleteKeeps
  <2>5. CASE \/ File!RecvTimeout \/ File!RecvFails \/ File!SendFails
              \/ \E readLen \in 0 .. kFileIoBufSize : File!SendBlock(readLen)
    BY <2>5, FailKeeps, SendBlockKeeps
  <2>6. ASSUME NEW d \in Dirs, File!List(d) PROVE FileInv'
    BY <2>6, ListKeeps
  <2>7. CASE \/ \E name \in File!Paths : \E f \in {"post", "get", "ls"} : File!Refuse(f, name)
             \/ \E name \in File!Paths \ DOMAIN disk : File!Refuse("del", name)
    BY <2>7, RefuseKeeps
  <2>8. CASE \/ \E name \in Files, body \in Bodies : Parent[name] \in DOMAIN disk /\ File!Post(name, body)
             \/ \E name \in Files : File!Get(name)
             \/ \E d \in Dirs \ {Root} : File!MakeDir(d)
    BY <2>8, BeginKeeps
  <2> QED BY <2>1, <2>2, <2>3, <2>4, <2>5, <2>6, <2>7, <2>8 DEF File!FileNext
<1> QED BY <1>1, <1>2, PTL DEF MCSpec

\* What a handler tells its client is true of the files: for every tree of paths,
\* every body, every size of the buffer, and whatever the file system and the
\* client do. A download that was completed is the file unless reading it failed:
\* that it is then a part of the file, and told to be complete, is the code's fault.
THEOREM AnswersHold == MCSpec => []AnswersAreTrue
<1>1. FileInv => AnswersAreTrue
  BY DEF FileInv
<1> QED BY <1>1, FileInvHolds, PTL
-----------------------------------------------------------------------------
(* NvsSimple. What a pair is about, by its sender's words, is found where the handler
   cuts the key, but for keys that it misreads; one more pair applied settles the entries it is about; a commit makes
   the two stores equal, and only an entry that was not answered for may differ. *)

Text == Seq(Nat)
Param == Text \X Text

NamedTwo(key, name, a, b) == key = name \o <<a, b>>

\* A name with two characters behind it.
LEMMA NameAndTwo ==
  ASSUME NEW key \in Text, NEW name \in Text, NEW a \in Nat, NEW b \in Nat
  PROVE  NamedTwo(key, name, a, b) <=>
            /\ Len(key) = Len(name) + 2 /\ key[Len(name) + 1] = a /\ key[Len(name) + 2] = b
            /\ \A i \in 1 .. Len(name) : key[i] = name[i]
<1> DEFINE w == name \o <<a, b>>
<1>1. /\ w \in Text /\ Len(w) = Len(name) + 2 /\ w[Len(name) + 1] = a /\ w[Len(name) + 2] = b
      /\ \A i \in 1 .. Len(name) : w[i] = name[i]
  BY DEF Text
<1> HIDE DEF w
<1>2. ASSUME Len(key) = Len(w), \A i \in 1 .. Len(key) : key[i] = w[i]
      PROVE  key = w
  BY <1>1, <1>2, SeqEqual DEF Text
<1>3. ASSUME Len(key) = Len(name) + 2, key[Len(name) + 1] = a, key[Len(name) + 2] = b,
             \A i \in 1 .. Len(name) : key[i] = name[i], NEW i \in 1 .. Len(key)
      PROVE  key[i] = w[i]
  <2>1. i \in 1 .. Len(name) \/ i = Len(name) + 1 \/ i = Len(name) + 2
    BY <1>3 DEF Text
  <2> QED BY <1>1, <1>3, <2>1
<1>4. (key = w) <=> /\ Len(key) = Len(name) + 2 /\ key[Len(name) + 1] = a /\ key[Len(name) + 2] = b
                    /\ \A i \in 1 .. Len(name) : key[i] = name[i]
  BY <1>1, <1>2, <1>3
<1> QED BY <1>4 DEF w, NamedTwo

LEMMA PrefixIs ==
  ASSUME NEW key \in Text, NEW l \in 0 .. Len(key)
  PROVE  /\ SubSeq(key, 1, l) \in Params!Prefixes(key) /\ SubSeq(key, 1, l) \in Text
         /\ Len(SubSeq(key, 1, l)) = l /\ \A i \in 1 .. l : SubSeq(key, 1, l)[i] = key[i]
<1>1. SubSeq(key, 1, l) \in Params!Prefixes(key)
  BY DEF Params!Prefixes
<1>2. SubSeq(key, 1, l) \in Text /\ Len(SubSeq(key, 1, l)) = l /\ \A i \in 1 .. l : SubSeq(key, 1, l)[i] = key[i]
  BY SubSeqProperties DEF Text
<1> QED BY <1>1, <1>2

\* A prefix is known by its length.
LEMMA APrefix ==
  ASSUME NEW key \in Text, NEW name \in Params!Prefixes(key)
  PROVE  name \in Text /\ Len(name) \in 0 .. Len(key) /\ name = SubSeq(key, 1, Len(name))
<1>1. PICK l \in 0 .. Len(key) : name = SubSeq(key, 1, l)
  BY DEF Params!Prefixes
<1> QED BY <1>1, PrefixIs

\* The name, before the colon and a letter.
LEMMA TypedIs ==
  ASSUME NEW key \in Text, NEW name \in Params!Prefixes(key), NEW type \in Nat
  PROVE  NamedTwo(key, name, Params!Colon, type) <=>
            /\ Len(key) >= 2 /\ name = Params!NameOf(key)
            /\ key[Len(key) - 1] = Params!Colon /\ key[Len(key)] = type
<1> DEFINE colon == Params!Colon
           named == NamedTwo(key, name, colon, type)
<1>0. colon \in Nat /\ Len(key) \in Nat
  BY DEF Params!Colon, Text
<1>1. name \in Text /\ Len(name) \in 0 .. Len(key) /\ name = SubSeq(key, 1, Len(name))
  BY APrefix
<1> HIDE DEF colon
<1>2. named <=> /\ Len(key) = Len(name) + 2 /\ key[Len(name) + 1] = colon /\ key[Len(name) + 2] = type
                /\ \A i \in 1 .. Len(name) : key[i] = name[i]
  BY <1>0, <1>1, NameAndTwo
<1> HIDE DEF named
<1>3. ASSUME named
      PROVE  Len(key) >= 2 /\ name = Params!NameOf(key) /\ key[Len(key) - 1] = colon /\ key[Len(key)] = type
  <2>1. Len(key) = Len(name) + 2 /\ Len(key) - 2 = Len(name) /\ Len(key) - 1 = Len(name) + 1
    BY <1>0, <1>1, <1>2, <1>3
  <2> QED BY <1>1, <1>2, <1>3, <2>1 DEF Params!NameOf
<1>4. ASSUME Len(key) >= 2, name = Params!NameOf(key), key[Len(key) - 1] = colon, key[Len(key)] = type
      PROVE  named
  <2> DEFINE l == Len(key) - 2
  <2>1. l \in 0 .. Len(key) /\ l + 1 = Len(key) - 1 /\ l + 2 = Len(key)
    BY <1>0, <1>4
  <2> HIDE DEF l
  <2>2. Len(SubSeq(key, 1, l)) = l /\ \A i \in 1 .. l : SubSeq(key, 1, l)[i] = key[i]
    BY <2>1, PrefixIs
  <2>3. name = SubSeq(key, 1, l)
    BY <1>4 DEF l, Params!NameOf
  <2>4. Len(name) = l /\ \A i \in 1 .. l : name[i] = key[i]
    BY <2>2, <2>3
  <2> QED BY <1>2, <1>4, <2>1, <2>4
<1> QED BY <1>3, <1>4 DEF named, colon

\* The handler touches what the pair is about, unless it misreads the key; if it does
\* both are among the names that the key may be read as.
LEMMA TouchesIs ==
  ASSUME NEW pair \in Param
  PROVE  /\ ~Params!Misread(pair) => Params!Touches(pair) = Params!About(pair)
         /\ Params!Misread(pair) => /\ Params!About(pair) \subseteq Params!Readings(pair[1])
                                    /\ Params!Touches(pair) \subseteq Params!Readings(pair[1])
<1> DEFINE key == pair[1]
           n == Len(key)
<1>1. key \in Text /\ n \in Nat /\ \A i \in 1 .. n : key[i] \in Nat
  BY DEF Param, Text
<1>2. CASE ~Params!Deletes(pair)
  BY <1>2 DEF Params!Misread, Params!Touches
<1>3. CASE Params!Deletes(pair)
  <2>1. Params!About(pair) = IF Params!Suffixed(key) = {} THEN {key} ELSE Params!Suffixed(key)
    BY <1>3 DEF Params!About
  <2>2. Params!Suffixed(key) = {name \in Params!Prefixes(key) \ {<<>>} :
            \E m \in 1 .. n : NamedTwo(key, name, Params!Colon, key[m])}
    BY DEF Params!Suffixed, NamedTwo
  <2>3. ASSUME NEW name \in Params!Suffixed(key)
        PROVE  name = SubSeq(key, 1, n - 2) /\ Params!ColonAt(key, 1)
    <3>1. name \in Params!Prefixes(key) /\ name # <<>>
      BY <2>2
    <3>2. PICK m \in 1 .. n : NamedTwo(key, name, Params!Colon, key[m])
      BY <2>2
    <3>3. n >= 2 /\ name = SubSeq(key, 1, n - 2) /\ key[n - 1] = Params!Colon
      BY <1>1, <3>1, <3>2, TypedIs DEF Params!NameOf
    <3>4. name \in Text /\ Len(name) > 0
      <4>1. name \in Text
        BY <1>1, <3>1, APrefix
      <4> QED BY <3>1, <4>1, EmptySeq DEF Text
    <3>5. n - 2 \in 0 .. n
      BY <1>1, <3>3
    <3>6. Len(name) = n - 2
      BY <1>1, <3>3, <3>5, PrefixIs
    <3> QED BY <1>1, <3>3, <3>4, <3>6 DEF Params!ColonAt
  <2>4. Params!Touches(pair) = {IF Params!ColonAt(key, 2) THEN SubSeq(key, 1, n - 3) ELSE key}
    BY <1>1, <1>3 DEF Params!Touches, Params!DeletedKey, Params!ColonAt
  <2>5. Params!Readings(key) = {key, SubSeq(key, 1, n - 2), SubSeq(key, 1, n - 3)}
    BY DEF Params!Readings
  <2>6. Params!Misread(pair) <=> Params!ColonAt(key, 1) \/ Params!ColonAt(key, 2)
    BY <1>3 DEF Params!Misread
  <2> HIDE DEF key, n
  <2>7. /\ ~Params!Misread(pair) => Params!Touches(pair) = Params!About(pair)
        /\ Params!Misread(pair) => /\ Params!About(pair) \subseteq Params!Readings(key)
                                   /\ Params!Touches(pair) \subseteq Params!Readings(key)
    BY <2>1, <2>3, <2>4, <2>5, <2>6
  <2> QED BY <2>7 DEF key
<1> QED BY <1>2, <1>3

Typed2(key) == Len(key) >= 2 /\ key[Len(key) - 1] = Params!Colon

LEMMA AboutStored ==
  ASSUME NEW pair \in Param, ~Params!Deletes(pair)
  PROVE  Params!About(pair) = IF Typed2(pair[1]) /\ Params!TypeOf(pair[1]) \in {115, 105}
                              THEN {Params!NameOf(pair[1])} ELSE {}
<1> DEFINE key == pair[1]
           named == Typed2(key) /\ Params!TypeOf(key) \in {115, 105}
<1>1. key \in Text /\ Len(key) \in Nat
  BY DEF Param, Text
<1>2. Params!About(pair)
        = {name \in Params!Prefixes(key) : \E type \in {115, 105} : NamedTwo(key, name, Params!Colon, type)}
  BY DEF Params!About, NamedTwo
<1>3. ASSUME NEW name \in Params!Prefixes(key), NEW type \in {115, 105}
      PROVE  NamedTwo(key, name, Params!Colon, type) <=>
                Typed2(key) /\ Params!TypeOf(key) = type /\ name = Params!NameOf(key)
  <2>1. type \in Nat
    OBVIOUS
  <2> QED BY <1>1, <2>1, TypedIs DEF Typed2, Params!TypeOf
<1>4. Typed2(key) => Params!NameOf(key) \in Params!Prefixes(key)
  <2> SUFFICES ASSUME Typed2(key) PROVE Params!NameOf(key) \in Params!Prefixes(key)
    OBVIOUS
  <2>1. Len(key) - 2 \in 0 .. Len(key)
    BY <1>1 DEF Typed2
  <2> QED BY <1>1, <2>1, PrefixIs DEF Params!NameOf
<1> HIDE DEF key
<1>5. Params!About(pair) = IF named THEN {Params!NameOf(key)} ELSE {}
  BY <1>2, <1>3, <1>4
<1> QED BY <1>5 DEF key

LEMMA WrongIs ==
  ASSUME NEW pair \in Param, ~Params!Deletes(pair)
  PROVE  Params!Wrong(pair) <=>
            \/ ~Params!HasType(pair[1])
            \/ Params!TypeOf(pair[1]) = 105 /\ ~Params!IsNumber(Params!CString(pair[2]))
<1> DEFINE key == pair[1]
           n == Len(key)
           number == Params!IsNumber(Params!CString(pair[2]))
           some == \E name \in Params!Prefixes(key), m \in 1 .. n :
                        Len(name) > 1 /\ NamedTwo(key, name, Params!Colon, key[m])
           int == \E name \in Params!About(pair) : NamedTwo(key, name, Params!Colon, 105)
<1>1. key \in Text /\ n \in Nat /\ \A i \in 1 .. n : key[i] \in Nat
  BY DEF Param, Text
<1>2. Params!Wrong(pair) <=> ~some \/ (int /\ ~number)
  BY DEF Params!Wrong, NamedTwo
<1>3. ASSUME some PROVE Params!HasType(key)
  <2>1. PICK name \in Params!Prefixes(key), m \in 1 .. n :
            Len(name) > 1 /\ NamedTwo(key, name, Params!Colon, key[m])
    BY <1>3
  <2>2. n >= 2 /\ name = Params!NameOf(key) /\ key[n - 1] = Params!Colon
    BY <1>1, <2>1, TypedIs
  <2>3. n - 2 \in 0 .. n
    BY <1>1, <2>2
  <2>4. Len(name) = n - 2
    BY <1>1, <2>2, <2>3, PrefixIs DEF Params!NameOf
  <2> QED BY <1>1, <2>1, <2>2, <2>4 DEF Params!HasType
<1>4. ASSUME Params!HasType(key) PROVE some
  <2>1. n >= 4 /\ key[n - 1] = Params!Colon /\ n - 2 \in 0 .. n /\ n \in 1 .. n /\ n >= 2 /\ n - 2 > 1
    BY <1>1, <1>4 DEF Params!HasType
  <2>2. Params!NameOf(key) \in Params!Prefixes(key) /\ Len(Params!NameOf(key)) = n - 2
    BY <1>1, <2>1, PrefixIs DEF Params!NameOf
  <2>3. NamedTwo(key, Params!NameOf(key), Params!Colon, key[n])
    BY <1>1, <2>1, <2>2, TypedIs
  <2> QED BY <2>1, <2>2, <2>3
<1>5. Params!HasType(key) => (int <=> Params!TypeOf(key) = 105)
  <2> SUFFICES ASSUME Params!HasType(key) PROVE int <=> Params!TypeOf(key) = 105
    OBVIOUS
  <2>1. n >= 2 /\ key[n - 1] = Params!Colon /\ n - 2 \in 0 .. n /\ Typed2(key)
    BY <1>1 DEF Params!HasType, Typed2
  <2>2. Params!NameOf(key) \in Params!Prefixes(key)
    BY <1>1, <2>1, PrefixIs DEF Params!NameOf
  <2>3. ASSUME NEW name \in Params!Prefixes(key)
        PROVE  NamedTwo(key, name, Params!Colon, 105) <=> name = Params!NameOf(key) /\ Params!TypeOf(key) = 105
    <3> DEFINE t == 105
    <3>1. t \in Nat
      OBVIOUS
    <3> HIDE DEF t
    <3>2. NamedTwo(key, name, Params!Colon, t) <=> name = Params!NameOf(key) /\ Params!TypeOf(key) = t
      BY <1>1, <2>1, <3>1, TypedIs DEF Params!TypeOf
    <3> QED BY <3>2 DEF t
  <2>4. Params!About(pair) = IF Params!TypeOf(key) \in {115, 105} THEN {Params!NameOf(key)} ELSE {}
    BY <2>1, AboutStored
  <2> QED BY <2>2, <2>3, <2>4
<1> HIDE DEF some, int, number, key
<1>6. Params!Wrong(pair) <=> ~Params!HasType(key) \/ (Params!TypeOf(key) = 105 /\ ~number)
  BY <1>2, <1>3, <1>4, <1>5
<1> QED BY <1>6 DEF key, number

-----------------------------------------------------------------------------
\* A store is seen entry by entry.
Store(s) == s = [k \in DOMAIN s |-> s[k]]

LEMMA PutIs ==
  ASSUME NEW s, NEW k, NEW v
  PROVE  /\ Store(Params!Put(s, k, v)) /\ DOMAIN Params!Put(s, k, v) = DOMAIN s \cup {k}
         /\ Params!Entry(Params!Put(s, k, v), k) = {v}
         /\ \A n : n # k => Params!Entry(Params!Put(s, k, v), n) = Params!Entry(s, n)
  BY DEF Store, Params!Put, Params!Entry

LEMMA DropIs ==
  ASSUME NEW s, NEW k
  PROVE  /\ Store(Params!Drop(s, k)) /\ DOMAIN Params!Drop(s, k) = DOMAIN s \ {k}
         /\ Params!Entry(Params!Drop(s, k), k) = {}
         /\ \A n : n # k => Params!Entry(Params!Drop(s, k), n) = Params!Entry(s, n)
  BY DEF Store, Params!Drop, Params!Entry

\* One pair: what it touches becomes what it says, and nothing else changes, unless
\* it is wrong or there is no room.
LEMMA ApplyIs ==
  ASSUME NEW s, Store(s), NEW pair \in Param
  PROVE  LET done == Params!Apply(s, pair)
         IN  /\ done.ok \in BOOLEAN /\ Store(done.store)
             /\ done.ok => /\ ~Params!Wrong(pair)
                           /\ \A n \in Params!Touches(pair) : Params!Entry(done.store, n) = Params!Said(pair)
                           /\ \A n : n \notin Params!Touches(pair) => Params!Entry(done.store, n) = Params!Entry(s, n)
             /\ ~done.ok => \/ Params!Wrong(pair)
                            \/ \E n \in Params!About(pair) : ~Params!Fits(s, n)
<1> DEFINE done == Params!Apply(s, pair)
           key == pair[1]
           val == Params!CString(pair[2])
<1>1. CASE Params!Deletes(pair)
  <2>1. done = Params!DeletePair(s, key)
    BY <1>1 DEF Params!Apply, Params!Deletes
  <2>2. Params!Wrong(pair) <=> Len(key) < 2
    BY <1>1 DEF Params!Wrong
  <2>3. Params!Touches(pair) = {Params!DeletedKey(key)} /\ Params!Said(pair) = {}
    BY <1>1 DEF Params!Said, Params!Touches
  <2> DEFINE k == Params!DeletedKey(key)
  <2>4. done = IF Len(key) < 2 THEN [store |-> s, ok |-> FALSE] ELSE [store |-> Params!Drop(s, k), ok |-> TRUE]
    BY <2>1 DEF Params!DeletePair
  <2> DEFINE w == Params!Drop(s, k)
             without == [store |-> w, ok |-> TRUE]
             refused == [store |-> s, ok |-> FALSE]
  <2>5. done = IF Len(key) < 2 THEN refused ELSE without
    BY <2>4
  <2>6. without.ok = TRUE /\ without.store = w /\ refused.ok = FALSE /\ refused.store = s
    OBVIOUS
  <2> HIDE DEF k
  <2>7. /\ Store(w) /\ Params!Entry(w, k) = {}
        /\ \A n : n # k => Params!Entry(w, n) = Params!Entry(s, n)
    BY DropIs, Zenon
  <2>8. Params!Touches(pair) = {k}
    BY <2>3 DEF k
  <2> DEFINE short == Len(key) < 2
  <2> HIDE DEF done, w, without, refused, short
  <2>9. CASE short
    <3>1. done = refused /\ Params!Wrong(pair)
      BY <2>2, <2>5, <2>9 DEF short
    <3> QED BY <2>6, <3>1 DEF done
  <2>10. CASE ~short
    <3>1. done = without /\ ~Params!Wrong(pair)
      BY <2>2, <2>5, <2>10 DEF short
    <3> QED BY <2>3, <2>6, <2>7, <2>8, <3>1 DEF done
  <2> QED BY <2>9, <2>10
<1>2. CASE ~Params!Deletes(pair)
  <2> DEFINE k == Params!NameOf(key)
             type == Params!TypeOf(key)
             number == Params!IsNumber(val)
             typed == Params!HasType(key)
             v == IF type = 105 THEN <<105, Params!strtol(val)[1]>> ELSE <<115, val>>
             put == IF Params!Fits(s, k) THEN [store |-> Params!Put(s, k, v), ok |-> TRUE]
                    ELSE [store |-> s, ok |-> FALSE]
             refused == [store |-> s, ok |-> FALSE]
             ignored == [store |-> s, ok |-> TRUE]
  <2>1. done = Params!SetPair(s, key, val)
    BY <1>2 DEF Params!Apply, Params!Deletes
  <2>2. Params!Wrong(pair) <=> ~typed \/ (type = 105 /\ ~number)
    BY <1>2, WrongIs
  <2>3. typed => Params!About(pair) = IF type \in {115, 105} THEN {k} ELSE {}
    <3>1. typed => Typed2(key)
      BY DEF Params!HasType, Typed2, Param, Text
    <3> QED BY <1>2, <3>1, AboutStored
  <2>4. Params!Said(pair) = {v} /\ Params!Touches(pair) = Params!About(pair)
    BY <1>2 DEF Params!Said, Params!Touches
  <2>6. /\ ~typed => done = refused
        /\ typed /\ type = 105 /\ ~number => done = refused
        /\ typed /\ type = 105 /\ number => done = put
        /\ typed /\ type = 115 => done = put
        /\ typed /\ type \notin {115, 105} => done = ignored
    <3> DEFINE tv == <<115, val>>
               iv == <<105, Params!strtol(val)[1]>>
    <3>1. done = IF ~typed THEN refused
                 ELSE IF type = 115 THEN Params!PutPair(s, k, tv)
                 ELSE IF type = 105 /\ ~number THEN refused
                 ELSE IF type = 105 THEN Params!PutPair(s, k, iv)
                 ELSE ignored
      BY <2>1 DEF Params!SetPair
    <3>2. /\ type = 115 => v = tv
          /\ type = 105 => v = iv
      OBVIOUS
    <3>3. put = Params!PutPair(s, k, v)
      BY DEF Params!PutPair
    <3> HIDE DEF done, k, type, number, typed, v, put, refused, ignored, tv, iv
    <3>4. CASE ~typed \/ (type = 105 /\ ~number)
      <4>1. CASE ~typed
        BY <3>1, <4>1
      <4>2. CASE typed /\ type = 105 /\ ~number
        BY <3>1, <4>2
      <4> QED BY <3>4, <4>1, <4>2
    <3>5. CASE typed /\ type = 105 /\ number
      BY <3>1, <3>2, <3>3, <3>5
    <3>6. CASE typed /\ type = 115
      BY <3>1, <3>2, <3>3, <3>6
    <3>7. CASE typed /\ type \notin {115, 105}
      BY <3>1, <3>7
    <3> QED BY <3>4, <3>5, <3>6, <3>7
  <2>7. CASE Params!Fits(s, k)
    <3> DEFINE w == Params!Put(s, k, v)
    <3>1. put = [store |-> w, ok |-> TRUE]
      BY <2>7
    <3> HIDE DEF k, v
    <3>2. /\ Store(w) /\ Params!Entry(w, k) = {v}
          /\ \A n : n # k => Params!Entry(w, n) = Params!Entry(s, n)
      <4>1. Store(w)
        BY DEF Params!Put, Params!Entry, Store
      <4>2. Params!Entry(w, k) = {v}
        BY DEF Params!Put, Params!Entry, Store
      <4>3. ASSUME NEW n, n # k PROVE Params!Entry(w, n) = Params!Entry(s, n)
        BY <4>3 DEF Params!Put, Params!Entry
      <4> QED BY <4>1, <4>2, <4>3
    <3> HIDE DEF w, put
    <3>3. put.ok = TRUE /\ put.store = w
      BY <3>1
    <3>4. CASE typed /\ (type = 115 \/ (type = 105 /\ number))
      <4>1. done = put
        <5> HIDE DEF done, type, number, typed, refused, ignored
        <5> QED BY <2>6, <3>4
      <4>2. Params!About(pair) = {k} /\ ~Params!Wrong(pair)
        <5> HIDE DEF done, type, number, typed, refused, ignored
        <5> QED BY <2>2, <2>3, <3>4
      <4> HIDE DEF done
      <4> QED BY <2>4, <3>2, <3>3, <4>1, <4>2 DEF done
    <3>5. CASE ~(typed /\ (type = 115 \/ (type = 105 /\ number)))
      <4>1. \/ done = refused /\ Params!Wrong(pair)
            \/ done = ignored /\ ~Params!Wrong(pair) /\ Params!About(pair) = {}
        <5> HIDE DEF done, type, number, typed, refused, ignored
        <5> QED BY <2>2, <2>3, <2>6, <3>5
      <4>2. refused.ok = FALSE /\ refused.store = s /\ ignored.ok = TRUE /\ ignored.store = s
        OBVIOUS
      <4> HIDE DEF done, refused, ignored
      <4> QED BY <2>4, <4>1, <4>2 DEF done
    <3> QED BY <3>4, <3>5
  <2>8. CASE ~Params!Fits(s, k)
    <3>1. put = refused
      BY <2>8
    <3>2. \/ done = refused /\ (Params!Wrong(pair) \/ Params!About(pair) = {k})
          \/ done = ignored /\ ~Params!Wrong(pair) /\ Params!About(pair) = {}
      <4> HIDE DEF done, type, number, typed, refused, ignored, k, put
      <4> QED BY <2>2, <2>3, <2>6, <3>1
    <3>3. refused.ok = FALSE /\ refused.store = s /\ ignored.ok = TRUE /\ ignored.store = s
      OBVIOUS
    <3> HIDE DEF done, refused, ignored, k
    <3> QED BY <2>4, <2>8, <3>2, <3>3 DEF done
  <2> QED BY <2>7, <2>8
<1> QED BY <1>1, <1>2

-----------------------------------------------------------------------------
\* Where a call stands: the pairs before query.at are applied, or the entry is
\* dropped.
Handlers == [f : {"set", "del"}, pairs : Requests, at : Nat, answer : {"none", "failed", "ok"}]

\* The key is misread, and may stand for this name.
Doubtful(pair, name) == Params!Misread(pair) /\ name \in Params!Readings(pair[1])

Settled(s, old, pairs, at) ==
    /\ \A i \in 1 .. at : ~Params!Wrong(pairs[i])
    /\ \A name : \/ \E i \in 1 .. at : Doubtful(pairs[i], name)
                 \/ /\ \A i \in 1 .. at : name \notin Params!About(pairs[i])
                    /\ Params!Entry(s, name) = Params!Entry(old, name)
                 \/ \E i \in 1 .. at : /\ name \in Params!About(pairs[i])
                                       /\ \A j \in 1 .. at : name \in Params!About(pairs[j]) => j <= i
                                       /\ Params!Entry(s, name) = Params!Said(pairs[i])
NotTaken(s, pair) == Params!Wrong(pair) \/ \E name \in Params!About(pair) : ~Params!Fits(s, name)
SetSoFar ==
    /\ query.at <= Len(query.pairs)
    /\ Settled(entries, before, query.pairs, query.at)
    /\ query.answer = "ok" => query.at = Len(query.pairs)
    /\ query.answer = "failed" => NotTaken(entries, query.pairs[query.at + 1])

Named(pairs, i, name) ==
    /\ name = Params!CString(pairs[i][2])
    /\ {j \in 1 .. i : Params!CString(pairs[j][1]) = <<107, 101, 121>>} = {i}
DelSoFar ==
    /\ query.at = 0 => entries = before
    /\ query.at # 0 => \E i \in DOMAIN query.pairs, name \in DOMAIN before :
                           Named(query.pairs, i, name) /\ entries = Params!Drop(before, name)
    /\ query.answer = "ok" => query.at # 0
    /\ query.answer = "failed" =>
          query.at = 0 /\ \A i \in DOMAIN query.pairs, name \in DOMAIN entries : ~Named(query.pairs, i, name)

Stores == Store(entries) /\ Store(onFlash) /\ Store(before)
AnswerSaved == query.f \in {"set", "del"} /\ query.answer = "ok" => onFlash = entries
OthersSaved == \A name : name \notin unsaved => Params!Entry(onFlash, name) = Params!Entry(entries, name)
Calls ==
    /\ query.f \in {"none", "init", "set", "del"}
    /\ query.f \in {"set", "del"} => query \in Handlers
    /\ query.f = "set" => SetSoFar
    /\ query.f = "del" => DelSoFar
    /\ query.f = "init" => Params!Opened
ParamsInv == Stores /\ AnswerSaved /\ OthersSaved /\ Calls

\* One more pair applied.
LEMMA OneMore ==
  ASSUME NEW s, NEW new, NEW old, NEW pairs \in Seq(Param), NEW at \in Nat, at < Len(pairs),
         Settled(s, old, pairs, at), ~Params!Wrong(pairs[at + 1]),
         \A n \in Params!Touches(pairs[at + 1]) : Params!Entry(new, n) = Params!Said(pairs[at + 1]),
         \A n : n \notin Params!Touches(pairs[at + 1]) => Params!Entry(new, n) = Params!Entry(s, n)
  PROVE  Settled(new, old, pairs, at + 1)
<1> DEFINE next1 == at + 1
<1>1. next1 \in 1 .. next1 /\ next1 \notin 1 .. at /\ \A i : i \in 1 .. next1 <=> i \in 1 .. at \/ i = next1
  OBVIOUS
<1>2. \A i \in 1 .. next1 : i <= next1
  OBVIOUS
<1>0. pairs[next1] \in Param
  OBVIOUS
<1> HIDE DEF next1
<1>3. \A i \in 1 .. next1 : ~Params!Wrong(pairs[i])
  BY <1>1 DEF Settled, next1
<1>4. ASSUME NEW name
      PROVE  \/ \E i \in 1 .. next1 : Doubtful(pairs[i], name)
             \/ /\ \A i \in 1 .. next1 : name \notin Params!About(pairs[i])
                /\ Params!Entry(new, name) = Params!Entry(old, name)
             \/ \E i \in 1 .. next1 : /\ name \in Params!About(pairs[i])
                                      /\ \A j \in 1 .. next1 : name \in Params!About(pairs[j]) => j <= i
                                      /\ Params!Entry(new, name) = Params!Said(pairs[i])
  <2>0. CASE \E i \in 1 .. next1 : Doubtful(pairs[i], name)
    BY <2>0
  <2> SUFFICES ASSUME \A i \in 1 .. next1 : ~Doubtful(pairs[i], name)
               PROVE  \/ /\ \A i \in 1 .. next1 : name \notin Params!About(pairs[i])
                         /\ Params!Entry(new, name) = Params!Entry(old, name)
                      \/ \E i \in 1 .. next1 : /\ name \in Params!About(pairs[i])
                                               /\ \A j \in 1 .. next1 : name \in Params!About(pairs[j]) => j <= i
                                               /\ Params!Entry(new, name) = Params!Said(pairs[i])
    BY <2>0
  <2>3. name \in Params!About(pairs[next1]) <=> name \in Params!Touches(pairs[next1])
    <3> DEFINE last == pairs[next1]
    <3>1. last \in Param /\ ~Doubtful(last, name)
      BY <1>0, <1>1
    <3> HIDE DEF last
    <3>2. name \in Params!About(last) <=> name \in Params!Touches(last)
      BY <3>1, TouchesIs DEF Doubtful
    <3> QED BY <3>2 DEF last
  <2>1. CASE name \in Params!About(pairs[next1])
    <3>1. Params!Entry(new, name) = Params!Said(pairs[next1])
      BY <2>1, <2>3 DEF next1
    <3> QED BY <1>1, <1>2, <2>1, <3>1
  <2>2. CASE name \notin Params!About(pairs[next1])
    <3>1. Params!Entry(new, name) = Params!Entry(s, name)
      BY <2>2, <2>3 DEF next1
    <3>2. CASE /\ \A i \in 1 .. at : name \notin Params!About(pairs[i])
               /\ Params!Entry(s, name) = Params!Entry(old, name)
      BY <1>1, <2>2, <3>1, <3>2
    <3>3. ASSUME NEW i \in 1 .. at, name \in Params!About(pairs[i]),
                 \A j \in 1 .. at : name \in Params!About(pairs[j]) => j <= i,
                 Params!Entry(s, name) = Params!Said(pairs[i])
          PROVE  \E k \in 1 .. next1 : /\ name \in Params!About(pairs[k])
                                       /\ \A j \in 1 .. next1 : name \in Params!About(pairs[j]) => j <= k
                                       /\ Params!Entry(new, name) = Params!Said(pairs[k])
      <4>1. i \in 1 .. next1
        BY <1>1
      <4>2. \A j \in 1 .. next1 : name \in Params!About(pairs[j]) => j <= i
        BY <1>1, <2>2, <3>3
      <4> QED BY <3>1, <3>3, <4>1, <4>2
    <3>4. \A i \in 1 .. at : ~Doubtful(pairs[i], name)
      BY <1>1
    <3> QED BY <3>2, <3>3, <3>4 DEF Settled
  <2> QED BY <2>1, <2>2
<1> QED BY <1>3, <1>4 DEF Settled, next1

\* A request is a list of pairs of texts.
LEMMA RequestIs == \A pairs \in Requests : pairs \in Seq(Param)
BY ParamsAssumption DEF Params!NvsSimpleAssumption, Param, Text

LEMMA CallIs ==
  ASSUME ParamsInv, query.f \in {"set", "del"}
  PROVE  /\ query \in Handlers /\ query.pairs \in Seq(Param) /\ query.at \in Nat
         /\ query.answer \in {"none", "failed", "ok"}
<1>1. query \in Handlers
  BY DEF ParamsInv, Calls
<1>2. query.pairs \in Requests /\ query.at \in Nat /\ query.answer \in {"none", "failed", "ok"}
  BY <1>1 DEF Handlers
<1> QED BY <1>1, <1>2, RequestIs

LEMMA OpenKeeps ==
  ASSUME ParamsInv, Params!Open
  PROVE  ParamsInv'
<1>1. PICK flashErr \in {"ESP_OK", "ESP_ERR_NOT_FOUND", "ESP_ERR_NVS_NO_FREE_PAGES"}, eraseOnError \in BOOLEAN,
           first \in {"ESP_OK", "ESP_ERR_NVS_NOT_INITIALIZED"}, second \in {"ESP_OK", "ESP_ERR_NVS_NOT_INITIALIZED"} :
         LET r == Params!init(flashErr, <<first, second>>, eraseOnError)
         IN  /\ mHandle' = r.mHandle
             /\ IF r.erased THEN onFlash' = Params!NoEntries /\ entries' = Params!NoEntries /\ unsaved' = {}
                ELSE UNCHANGED <<onFlash, entries, unsaved>>
             /\ before' = entries
             /\ query' = [f |-> "init", flashErr |-> flashErr, first |-> first, eraseOnError |-> eraseOnError]
  BY DEF Params!Open
<1> DEFINE r == Params!init(flashErr, <<first, second>>, eraseOnError)
<1>2. query'.f = "init" /\ query'.flashErr = flashErr /\ query'.first = first /\ query'.eraseOnError = eraseOnError
  BY <1>1
<1>3. r.erased \in BOOLEAN /\ (r.erased => eraseOnError /\ flashErr # "ESP_ERR_NOT_FOUND")
  BY DEF Params!init, Params!CanBeErased
<1>4. eraseOnError /\ flashErr = "ESP_ERR_NVS_NO_FREE_PAGES" /\ first = "ESP_OK" => r.mHandle = 1
  BY DEF Params!init, Params!CanBeErased
<1>5. /\ mHandle' = r.mHandle /\ before' = entries
      /\ r.erased => onFlash' = Params!NoEntries /\ entries' = Params!NoEntries /\ unsaved' = {}
      /\ ~r.erased => UNCHANGED <<onFlash, entries, unsaved>>
  BY <1>1
<1> HIDE DEF r
<1>6. Store(Params!NoEntries)
  BY DEF Store, Params!NoEntries
<1>7. Stores'
  BY <1>3, <1>5, <1>6 DEF ParamsInv, Stores
<1>8. OthersSaved'
  BY <1>3, <1>5 DEF ParamsInv, OthersSaved
<1>9. Params!Opened'
  BY <1>2, <1>3, <1>4, <1>5 DEF Params!Opened
<1> QED BY <1>2, <1>7, <1>8, <1>9 DEF ParamsInv, AnswerSaved, Calls

LEMMA CloseKeeps ==
  ASSUME ParamsInv, Params!Close
  PROVE  ParamsInv'
<1>1. query'.f = "none" /\ UNCHANGED <<entries, onFlash, before, unsaved>>
  BY DEF Params!Close, Params!NoQuery
<1> QED BY <1>1 DEF ParamsInv, Stores, OthersSaved, AnswerSaved, Calls

LEMMA BeginKeepsParams ==
  ASSUME ParamsInv, NEW f \in {"set", "del"}, NEW pairs \in Requests, Params!Begin(f, pairs)
  PROVE  ParamsInv'
<1>1. /\ query' = [f |-> f, pairs |-> pairs, at |-> 0, answer |-> "none"] /\ before' = entries
      /\ UNCHANGED <<entries, onFlash, unsaved>>
  BY DEF Params!Begin
<1>2. query'.f = f /\ query'.pairs = pairs /\ query'.at = 0 /\ query'.answer = "none" /\ query' \in Handlers
  BY <1>1 DEF Handlers
<1>3. pairs \in Seq(Param)
  BY RequestIs
<1>4. Settled(entries, entries, pairs, 0)
  BY DEF Settled
<1>5. SetSoFar'
  BY <1>1, <1>2, <1>3, <1>4 DEF SetSoFar
<1>6. DelSoFar'
  BY <1>1, <1>2 DEF DelSoFar
<1> QED BY <1>1, <1>2, <1>5, <1>6 DEF ParamsInv, Stores, OthersSaved, AnswerSaved, Calls

LEMMA SetNextKeeps ==
  ASSUME ParamsInv, Params!SetNext
  PROVE  ParamsInv'
<1> DEFINE pair == query.pairs[query.at + 1]
           done == Params!Apply(entries, pair)
<1>1. /\ query.f = "set" /\ query.answer = "none" /\ query.at < Len(query.pairs)
      /\ IF done.ok THEN Params!Changes(done.store, Params!Touches(pair)) ELSE Params!Fail
      /\ UNCHANGED <<onFlash, before>>
  BY DEF Params!SetNext, Params!InProgress
<1>2. query \in Handlers /\ query.pairs \in Seq(Param) /\ query.at \in Nat
  BY <1>1, CallIs
<1>3. pair \in Param
  BY <1>1, <1>2
<1>4. Store(entries) /\ Store(onFlash) /\ Store(before) /\ OthersSaved /\ SetSoFar
  BY <1>1 DEF ParamsInv, Stores, Calls
<1>5. /\ done.ok \in BOOLEAN /\ Store(done.store)
      /\ done.ok => /\ ~Params!Wrong(pair)
                    /\ \A n \in Params!Touches(pair) : Params!Entry(done.store, n) = Params!Said(pair)
                    /\ \A n : n \notin Params!Touches(pair) => Params!Entry(done.store, n) = Params!Entry(entries, n)
      /\ ~done.ok => NotTaken(entries, pair)
  <2> HIDE DEF pair
  <2> QED BY <1>3, <1>4, ApplyIs DEF NotTaken
<1> DEFINE store == done.store
<1>6. CASE done.ok
  <2>1. /\ entries' = store /\ query' = [query EXCEPT !.at = query.at + 1]
        /\ unsaved' = unsaved \cup Params!Touches(pair)
    BY <1>1, <1>6 DEF Params!Changes
  <2>2. /\ query' \in Handlers /\ query'.f = "set" /\ query'.pairs = query.pairs
        /\ query'.at = query.at + 1 /\ query'.answer = "none"
    BY <1>1, <1>2, <2>1 DEF Handlers
  <2>3. /\ Store(store) /\ ~Params!Wrong(pair)
        /\ \A n \in Params!Touches(pair) : Params!Entry(store, n) = Params!Said(pair)
        /\ \A n : n \notin Params!Touches(pair) => Params!Entry(store, n) = Params!Entry(entries, n)
    BY <1>5, <1>6
  <2> HIDE DEF store, done
  <2>4. Settled(store, before, query.pairs, query.at + 1)
    BY <1>1, <1>2, <1>4, <2>3, OneMore DEF SetSoFar
  <2> HIDE DEF pair
  <2>5. SetSoFar'
    BY <1>1, <1>2, <2>1, <2>2, <2>4 DEF SetSoFar
  <2>6. OthersSaved'
    BY <1>1, <1>4, <2>1, <2>3 DEF OthersSaved
  <2> QED BY <1>1, <1>4, <2>1, <2>2, <2>3, <2>5, <2>6 DEF ParamsInv, Stores, AnswerSaved, Calls
<1>7. CASE ~done.ok
  <2>1. query' = [query EXCEPT !.answer = "failed"] /\ UNCHANGED <<entries, unsaved>>
    BY <1>1, <1>7 DEF Params!Fail
  <2>2. /\ query' \in Handlers /\ query'.f = "set" /\ query'.pairs = query.pairs
        /\ query'.at = query.at /\ query'.answer = "failed"
    BY <1>1, <1>2, <2>1 DEF Handlers
  <2>3. NotTaken(entries, query.pairs[query.at + 1])
    BY <1>5, <1>7
  <2> HIDE DEF done, pair
  <2>4. SetSoFar'
    BY <1>1, <1>4, <2>1, <2>2, <2>3 DEF SetSoFar
  <2> QED BY <1>1, <1>4, <2>1, <2>2, <2>4 DEF ParamsInv, Stores, OthersSaved, AnswerSaved, Calls
<1> QED BY <1>5, <1>6, <1>7

\* The first parameter with the name that the handler looks for.
LEMMA DelKeyIs ==
  ASSUME NEW pairs \in Seq(Param)
  PROVE  LET key == Params!strVal(pairs, <<107, 101, 121>>)
         IN  /\ key # <<-1>> => \E m \in DOMAIN pairs : Named(pairs, m, Params!CString(key))
             /\ \A i \in DOMAIN pairs : \A name : Named(pairs, i, name) => key # <<-1>> /\ name = Params!CString(key)
<1> DEFINE wanted == <<107, 101, 121>>
           Is(j) == Params!CString(pairs[j][1]) = wanted
           found == {j \in DOMAIN pairs : Is(j)}
           key == Params!strVal(pairs, wanted)
<1>1. key = IF found = {} THEN <<-1>> ELSE pairs[Params!Min(found)][2]
  BY DEF Params!strVal
<1>2. \A i, name : Named(pairs, i, name) <=> name = Params!CString(pairs[i][2]) /\ {j \in 1 .. i : Is(j)} = {i}
  BY DEF Named
<1>3. DOMAIN pairs = 1 .. Len(pairs) /\ Len(pairs) \in Nat
  OBVIOUS
<1> HIDE DEF Is, wanted
<1>4. found \in SUBSET Nat
  BY <1>3
<1>5. ASSUME NEW i \in DOMAIN pairs, {j \in 1 .. i : Is(j)} = {i}
      PROVE  i \in found /\ Params!Min(found) = i
  <2>1. i \in found /\ \A j \in found : i <= j
    <3>1. Is(i)
      BY <1>5
    <3>2. ASSUME NEW j \in found, j < i PROVE FALSE
      <4>1. j \in {k \in 1 .. i : Is(k)} /\ j # i
        BY <1>3, <3>2
      <4> QED BY <1>5, <4>1
    <3> QED BY <1>3, <3>1, <3>2
  <2> QED BY <1>4, <2>1 DEF Params!Min
<1>6. ASSUME found # {}
      PROVE  \E m \in DOMAIN pairs : m = Params!Min(found) /\ {j \in 1 .. m : Is(j)} = {m}
  <2>1. PICK m \in found : \A j \in found : m <= j
    BY <1>4, <1>6, Least
  <2>2. Params!Min(found) = m
    BY <1>4, <2>1 DEF Params!Min
  <2>3. m \in DOMAIN pairs /\ m \in 1 .. m /\ Is(m)
    BY <1>3, <2>1
  <2>4. \A j \in 1 .. m : Is(j) => j = m
    BY <1>3, <2>1
  <2>5. {j \in 1 .. m : Is(j)} = {m}
    BY <2>3, <2>4
  <2> QED BY <2>2, <2>3, <2>5
<1>7. \A i \in DOMAIN pairs : pairs[i][2] # <<-1>>
  <2> SUFFICES ASSUME NEW i \in DOMAIN pairs PROVE pairs[i][2] # <<-1>>
    OBVIOUS
  <2> DEFINE t == pairs[i][2]
             odd == <<-1>>
  <2>1. t \in Seq(Nat)
    BY DEF Param, Text
  <2>2. odd \notin Seq(Nat)
    <3>1. 1 \in DOMAIN odd /\ odd[1] = -1 /\ -1 \notin Nat
      OBVIOUS
    <3> HIDE DEF odd
    <3> QED BY <3>1
  <2> QED BY <2>1, <2>2
<1> HIDE DEF found, key
<1>8. ASSUME key # <<-1>> PROVE \E m \in DOMAIN pairs : Named(pairs, m, Params!CString(key))
  BY <1>1, <1>2, <1>6, <1>8
<1>9. ASSUME NEW i \in DOMAIN pairs, NEW name, Named(pairs, i, name)
      PROVE  key # <<-1>> /\ name = Params!CString(key)
  <2>1. name = Params!CString(pairs[i][2]) /\ found # {} /\ Params!Min(found) = i
    BY <1>2, <1>5, <1>9
  <2> QED BY <1>1, <1>7, <2>1
<1> QED BY <1>8, <1>9 DEF key, wanted

LEMMA DelNextKeeps ==
  ASSUME ParamsInv, Params!DelNext
  PROVE  ParamsInv'
<1> DEFINE key == Params!DelKey
           name == Params!CString(key)
           store == Params!Drop(entries, name)
           there == key # <<-1>> /\ name \in DOMAIN entries
<1>1. /\ query.f = "del" /\ query.answer = "none" /\ query.at = 0
      /\ there => Params!Changes(store, {name})
      /\ ~there => Params!Fail
      /\ UNCHANGED <<onFlash, before>>
  BY DEF Params!DelNext, Params!InProgress
<1>2. query \in Handlers /\ query.pairs \in Seq(Param)
  BY <1>1, CallIs
<1>3. Store(entries) /\ Store(onFlash) /\ Store(before) /\ OthersSaved /\ entries = before
  BY <1>1 DEF ParamsInv, Stores, Calls, DelSoFar
<1>4. /\ key # <<-1>> => \E m \in DOMAIN query.pairs : Named(query.pairs, m, name)
      /\ \A i \in DOMAIN query.pairs : \A n : Named(query.pairs, i, n) => key # <<-1>> /\ n = name
  BY <1>2, DelKeyIs DEF Params!DelKey
<1>5. /\ Store(store) /\ \A n : n # name => Params!Entry(store, n) = Params!Entry(entries, n)
  BY DropIs, Zenon
<1>6. CASE there
  <2>1. entries' = store /\ query' = [query EXCEPT !.at = query.at + 1] /\ unsaved' = unsaved \cup {name}
    BY <1>1, <1>6 DEF Params!Changes
  <2>2. /\ query' \in Handlers /\ query'.f = "del" /\ query'.pairs = query.pairs
        /\ query'.at = 1 /\ query'.answer = "none"
    BY <1>1, <1>2, <2>1 DEF Handlers
  <2>3. \E i \in DOMAIN query.pairs, n \in DOMAIN before : Named(query.pairs, i, n) /\ store = Params!Drop(before, n)
    BY <1>3, <1>4, <1>6
  <2> HIDE DEF store, name
  <2>4. DelSoFar'
    BY <1>1, <2>1, <2>2, <2>3 DEF DelSoFar
  <2>5. OthersSaved'
    BY <1>1, <1>3, <1>5, <2>1 DEF OthersSaved
  <2> QED BY <1>1, <1>3, <1>5, <2>1, <2>2, <2>4, <2>5 DEF ParamsInv, Stores, AnswerSaved, Calls
<1>7. CASE ~there
  <2>1. query' = [query EXCEPT !.answer = "failed"] /\ UNCHANGED <<entries, unsaved>>
    BY <1>1, <1>7 DEF Params!Fail
  <2>2. /\ query' \in Handlers /\ query'.f = "del" /\ query'.pairs = query.pairs
        /\ query'.at = 0 /\ query'.answer = "failed"
    BY <1>1, <1>2, <2>1 DEF Handlers
  <2>3. \A i \in DOMAIN query.pairs, n \in DOMAIN entries : ~Named(query.pairs, i, n)
    BY <1>4, <1>7
  <2>4. DelSoFar'
    BY <1>1, <1>3, <2>1, <2>2, <2>3 DEF DelSoFar
  <2> QED BY <1>1, <1>3, <2>1, <2>2, <2>4 DEF ParamsInv, Stores, OthersSaved, AnswerSaved, Calls
<1> QED BY <1>6, <1>7

LEMMA CommitKeeps ==
  ASSUME ParamsInv, Params!Commit
  PROVE  ParamsInv'
<1>1. /\ query.f \in {"set", "del"} /\ query.answer = "none"
      /\ query.f = "set" => query.at = Len(query.pairs)
      /\ query.f = "del" => query.at = 1
      /\ onFlash' = entries /\ query' = [query EXCEPT !.answer = "ok"] /\ unsaved' = {}
      /\ UNCHANGED <<entries, before>>
  BY DEF Params!Commit, Params!InProgress, Params!CommitStore
<1>2. query \in Handlers
  BY <1>1, CallIs
<1>3. /\ query' \in Handlers /\ query'.f = query.f /\ query'.pairs = query.pairs
      /\ query'.at = query.at /\ query'.answer = "ok"
  BY <1>1, <1>2 DEF Handlers
<1>4. query.f = "set" => SetSoFar'
  BY <1>1, <1>3 DEF ParamsInv, Calls, SetSoFar
<1>5. query.f = "del" => DelSoFar'
  BY <1>1, <1>3 DEF ParamsInv, Calls, DelSoFar
<1> QED BY <1>1, <1>3, <1>4, <1>5 DEF ParamsInv, Stores, OthersSaved, AnswerSaved, Calls

\* An entry that the flash has already changes nothing when it is written again.
LEMMA PersistKeeps ==
  ASSUME ParamsInv, Params!Persist
  PROVE  ParamsInv'
<1>1. PICK k \in DOMAIN entries \cup DOMAIN onFlash :
         /\ onFlash' = IF k \in DOMAIN entries THEN Params!Put(onFlash, k, entries[k]) ELSE Params!Drop(onFlash, k)
         /\ UNCHANGED <<mHandle, entries, query, before, unsaved>>
  BY DEF Params!Persist
<1>2. /\ Store(onFlash') /\ Params!Entry(onFlash', k) = Params!Entry(entries, k)
      /\ \A n : n # k => Params!Entry(onFlash', n) = Params!Entry(onFlash, n)
  <2>1. CASE k \in DOMAIN entries
    <3> DEFINE v == entries[k]
    <3>1. onFlash' = Params!Put(onFlash, k, v)
      BY <1>1, <2>1
    <3>2. Params!Entry(entries, k) = {v}
      BY <2>1 DEF Params!Entry
    <3> HIDE DEF v
    <3> QED BY <3>1, <3>2 DEF Params!Put, Params!Entry, Store
  <2>2. CASE k \notin DOMAIN entries
    <3>1. onFlash' = Params!Drop(onFlash, k)
      BY <1>1, <2>2
    <3>2. Params!Entry(entries, k) = {}
      BY <2>2 DEF Params!Entry
    <3> QED BY <3>1, <3>2 DEF Params!Drop, Params!Entry, Store
  <2> QED BY <2>1, <2>2
<1>3. OthersSaved'
  BY <1>1, <1>2 DEF ParamsInv, OthersSaved
<1>4. onFlash = entries => onFlash' = entries
  <2> SUFFICES ASSUME onFlash = entries PROVE onFlash' = entries
    OBVIOUS
  <2>1. k \in DOMAIN onFlash /\ Store(onFlash)
    BY <1>1 DEF ParamsInv, Stores
  <2>2. onFlash' = Params!Put(onFlash, k, onFlash[k])
    BY <1>1
  <2> QED BY <2>1, <2>2 DEF Params!Put, Store
<1>5. SetSoFar <=> SetSoFar'
  BY <1>1 DEF SetSoFar
<1>6. DelSoFar <=> DelSoFar'
  BY <1>1 DEF DelSoFar
<1>7. Params!Opened <=> Params!Opened'
  BY <1>1 DEF Params!Opened
<1> QED BY <1>1, <1>2, <1>3, <1>4, <1>5, <1>6, <1>7 DEF ParamsInv, Stores, AnswerSaved, Calls

LEMMA RestartKeeps ==
  ASSUME ParamsInv, Params!Restart
  PROVE  ParamsInv'
<1>1. entries' = onFlash /\ onFlash' = onFlash /\ query'.f = "none" /\ before' = onFlash /\ unsaved' = {}
  BY DEF Params!Restart, Params!NoQuery
<1> QED BY <1>1 DEF ParamsInv, Stores, OthersSaved, AnswerSaved, Calls

LEMMA ParamsInvHolds == MCSpec => []ParamsInv
<1>1. MCInit => ParamsInv
  <2> SUFFICES ASSUME MCInit PROVE ParamsInv
    OBVIOUS
  <2>1. /\ entries = Params!NoEntries /\ onFlash = Params!NoEntries /\ before = Params!NoEntries
        /\ query.f = "none" /\ unsaved = {}
    BY DEF MCInit, Params!NvsInit, Params!NoQuery
  <2>2. Store(Params!NoEntries)
    BY DEF Store, Params!NoEntries
  <2> QED BY <2>1, <2>2 DEF ParamsInv, Stores, OthersSaved, AnswerSaved, Calls
<1>2. ParamsInv /\ [MCNext]_allVars => ParamsInv'
  <2> SUFFICES ASSUME ParamsInv, [Params!NvsNext]_nvsVars PROVE ParamsInv'
    BY StepOfEach
  <2>1. CASE UNCHANGED nvsVars
    BY <2>1 DEF nvsVars, ParamsInv, Stores, OthersSaved, AnswerSaved, Calls, SetSoFar, DelSoFar, Params!Opened
  <2>2. ASSUME NEW f \in {"set", "del"}, NEW pairs \in Requests, Params!Begin(f, pairs) PROVE ParamsInv'
    BY <2>2, BeginKeepsParams
  <2> QED BY <2>1, <2>2, OpenKeeps, CloseKeeps, SetNextKeeps, DelNextKeeps, CommitKeeps, PersistKeeps, RestartKeeps
          DEF Params!NvsNext
<1> QED BY <1>1, <1>2, PTL DEF MCSpec

\* After every call of the handlers that set and delete entries, and after every
\* restart, the store is what the parameters of the requests say it is, an answer is
\* true and what was answered with OK is saved: for every list of parameters, every
\* text, and every size of the partition (nvsSimple.cpp). The entries that a key to
\* delete may mean, if it has a ":type" that the handler looks for at a wrong place
\* (nvsSimple.cpp:137-141), are left out; all others are as the request says.
THEOREM SetParamsAppliedHolds == MCSpec => []SetParamsApplied
<1>1. ParamsInv => SetParamsApplied
  <2> SUFFICES ASSUME ParamsInv PROVE SetParamsApplied
    OBVIOUS
  <2>1. ASSUME query.f = "set" PROVE Params!SetApplied
    <3>1. query.pairs \in Seq(Param) /\ query.at \in Nat /\ SetSoFar
      BY <2>1, CallIs DEF ParamsInv, Calls
    <3> DEFINE Touching(name) == {i \in 1 .. query.at : name \in Params!About(query.pairs[i])}
    <3>2. \A i \in 1 .. query.at : ~Params!Wrong(query.pairs[i])
      BY <3>1 DEF SetSoFar, Settled
    <3> DEFINE Unclear(name) == \E i \in 1 .. query.at : /\ Params!Misread(query.pairs[i])
                                                        /\ name \in Params!Readings(query.pairs[i][1])
    <3>3. ASSUME NEW name, ~Unclear(name)
          PROVE  \/ Touching(name) = {} /\ Params!Entry(entries, name) = Params!Entry(before, name)
                 \/ \E i \in Touching(name) : /\ \A j \in Touching(name) : j <= i
                                              /\ Params!Entry(entries, name) = Params!Said(query.pairs[i])
      BY <3>1, <3>3 DEF SetSoFar, Settled, Doubtful
    <3>4. /\ query.answer = "ok" => query.at = Len(query.pairs)
          /\ query.answer = "failed" =>
                \/ Params!Wrong(query.pairs[query.at + 1])
                \/ \E name \in Params!About(query.pairs[query.at + 1]) : ~Params!Fits(entries, name)
      BY <3>1 DEF SetSoFar, NotTaken
    <3> QED BY <3>2, <3>3, <3>4 DEF Params!SetApplied
  <2>2. ASSUME query.f = "del" PROVE Params!DelApplied
    <3>1. DelSoFar
      BY <2>2 DEF ParamsInv, Calls
    <3>2. \A i, name : Params!Names(i, name) <=> Named(query.pairs, i, name)
      BY DEF Params!Names, Named
    <3> QED BY <3>1, <3>2 DEF DelSoFar, Params!DelApplied
  <2>3. Params!Saved
    BY DEF ParamsInv, OthersSaved, AnswerSaved, Params!Saved
  <2>4. query.f = "init" => Params!Opened
    BY DEF ParamsInv, Calls
  <2> QED BY <2>1, <2>2, <2>3, <2>4 DEF SetParamsApplied, Params!ParamsApplied
<1> QED BY <1>1, ParamsInvHolds, PTL
=============================================================================
