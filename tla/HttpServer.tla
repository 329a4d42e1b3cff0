----------------------------- MODULE HttpServer -----------------------------
(***************************************************************************)
(* The web sockets of http::Server (httpLib/httpServer). One task of the   *)
(* HTTP library serves the requests and the frames of all connections, and *)
(* runs the functions that other tasks queue; the library is external. A   *)
(* handler's own broadcast is sent at once, that of another task is queued *)
(* (wsBroadcast). wsOn() comes before the first broadcast. wsSendAsync,    *)
(* which does not compile, is not modelled.                                *)
(***************************************************************************)
EXTENDS Naturals, Sequences, SequencesExt

CONSTANTS Fds, Msgs,
          MaxWork       \* bound: functions in the queue; the library has its own

VARIABLES
    mServer,        \* started
    wsConns,        \* the connections, in the order of their coming
    gone,           \* those whose peer is away: sending to them fails
    work,           \* the queue of the server's task
    sending,        \* in wsSyncBroadcast: the message, the index, and who was there
    got             \* the last message each connection received

serverVars == <<mServer, wsConns, gone, work, sending, got>>

NoMsg == "none"
Idle == [msg |-> NoMsg, i |-> 0, there |-> {}]

Init ==
    /\ mServer = FALSE
    /\ wsConns = <<>> /\ gone = {} /\ work = <<>>
    /\ sending = Idle /\ got = [fd \in Fds |-> NoMsg]

Connected(fd) == fd \in ToSet(wsConns)
TaskIsFree == mServer /\ sending = Idle

\* start() may fail, and leaves everything as it was.
Start ==
    /\ ~mServer
    /\ mServer' = TRUE
    /\ UNCHANGED <<wsConns, gone, work, sending, got>>

\* stop() waits for the task, which runs what was queued before and closes all
\* sessions.
Stop ==
    /\ TaskIsFree /\ work = <<>>
    /\ mServer' = FALSE /\ wsConns' = <<>> /\ gone' = {}
    /\ UNCHANGED <<work, sending, got>>
-----------------------------------------------------------------------------
\* wsConnHandler, for a new connection ...
Connect(fd) ==
    /\ TaskIsFree /\ ~Connected(fd)
    /\ wsConns' = Append(wsConns, fd)
    /\ got' = [got EXCEPT ![fd] = NoMsg]
    /\ UNCHANGED <<mServer, gone, work, sending>>

wsSyncBroadcast(msg) == sending' = [msg |-> msg, i |-> 1, there |-> ToSet(wsConns)]

\* ... and for a frame, on which the application's handler answers all.
Frame(fd, msg) ==
    /\ TaskIsFree /\ Connected(fd) /\ fd \notin gone
    /\ wsSyncBroadcast(msg)
    /\ UNCHANGED <<mServer, wsConns, gone, work, got>>

\* ~wsConnection, when the library closes the session.
Delete(fd) ==
    /\ wsConns' = RemoveFirst(wsConns, fd)
    /\ gone' = gone \ {fd}

\* The peer goes away, and at some time the library notices.
PeerGoes(fd) ==
    /\ mServer /\ Connected(fd)
    /\ gone' = gone \cup {fd}
    /\ UNCHANGED <<mServer, wsConns, work, sending, got>>

CloseSession(fd) ==
    /\ TaskIsFree /\ fd \in gone
    /\ Delete(fd)
    /\ UNCHANGED <<mServer, work, sending, got>>
-----------------------------------------------------------------------------
\* wsAsyncBroadcast, by any task
wsAsyncBroadcast(msg) ==
    /\ mServer /\ Len(work) < MaxWork
    /\ work' = Append(work, msg)
    /\ UNCHANGED <<mServer, wsConns, gone, sending, got>>

\* The task runs what was queued: a broadcast, or the closing of a session.
RunWork ==
    /\ TaskIsFree /\ work # <<>>
    /\ work' = Tail(work)
    /\ IF Head(work) \in Msgs
       THEN wsSyncBroadcast(Head(work)) /\ UNCHANGED <<wsConns, gone>>
       ELSE Delete(Head(work)) /\ UNCHANGED sending
    /\ UNCHANGED <<mServer, got>>

\* wsSendFrame: after an error the session is not closed at once. The queueing
\* may fail, too.
CloseLater(fd) ==
    /\ work' \in {work, IF Len(work) < MaxWork THEN Append(work, fd) ELSE work}
    /\ UNCHANGED <<wsConns, gone>>
CloseAtOnce(fd) == Delete(fd) /\ UNCHANGED work
OnSendError(fd) == CloseLater(fd)

SendNext ==
    /\ sending # Idle /\ sending.i <= Len(wsConns)
    /\ LET fd == wsConns[sending.i]
       IN  IF fd \in gone THEN OnSendError(fd) /\ UNCHANGED got
           ELSE got' = [got EXCEPT ![fd] = sending.msg] /\ UNCHANGED <<work, wsConns, gone>>
    /\ sending' = [sending EXCEPT !.i = @ + 1]
    /\ UNCHANGED mServer

BroadcastEnds ==
    /\ sending # Idle /\ sending.i > Len(wsConns)
    /\ sending' = Idle
    /\ UNCHANGED <<mServer, wsConns, gone, work, got>>

Next ==
    \/ Start \/ Stop \/ RunWork \/ SendNext \/ BroadcastEnds
    \/ \E fd \in Fds : Connect(fd) \/ PeerGoes(fd) \/ CloseSession(fd)
    \/ \E msg \in Msgs : wsAsyncBroadcast(msg) \/ \E fd \in Fds : Frame(fd, msg)
-----------------------------------------------------------------------------
\* A broadcast that is over has been sent to every connection that was there when
\* it began, unless its peer had gone, also if sending to others failed
\* (httpServer.hpp:168-173, httpServer.cpp:64-76).
BroadcastReachesAll ==
    sending # Idle /\ sending.i > Len(wsConns) =>
        \A fd \in sending.there : got[fd] = sending.msg \/ fd \in gone \/ ~Connected(fd)
=============================================================================
