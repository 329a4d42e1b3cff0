------------------------------ MODULE NetLogger ------------------------------
(***************************************************************************)
(* httpLib/netLogger.cpp: what any task logs is sent to the connections    *)
(* that have asked for it, under two mutexes; the HTTP library's task adds *)
(* and closes connections. The library is external; mHttpServer is never   *)
(* assigned, so that trigger_close, after a send that failed, does nothing.*)
(* The sends themselves do not log (if the library logs an error of send,  *)
(* logSink is entered again, for as long as sending fails).                *)
(***************************************************************************)
EXTENDS Naturals, Sequences, SequencesExt

CONSTANTS Loggers, Fds, Httpd, NoOne    \* tasks that log; sockets; the server's task

VARIABLES
    mMutex, mListMutex,     \* who holds them, or NoOne
    mSinkFunc,              \* logSink is set
    mConnections,           \* sockets, in the order of their coming
    allocated,              \* LogConn objects that were not deleted
    logging,                \* per task: "idle", "wait", "format", "list", "send"
    next,                   \* in logSink: the index of the next connection
    reached,                \* and the connections the line was sent to
    request                 \* in the server's task: what it does and for which socket

loggerVars == <<mMutex, mListMutex, mSinkFunc, mConnections, allocated, logging, next, reached, request>>

NoRequest == <<"none", 0>>
Everyone == Loggers \cup {Httpd}

Init ==
    /\ mMutex = NoOne /\ mListMutex = NoOne /\ mSinkFunc = FALSE
    /\ mConnections = <<>> /\ allocated = {}
    /\ logging = [t \in Everyone |-> "idle"] /\ next = 1 /\ reached = {}
    /\ request = NoRequest

Goes(t, where) == logging' = [logging EXCEPT ![t] = where]
-----------------------------------------------------------------------------
\* vprintf and logSink, step by step.

Log(t) ==
    /\ logging[t] = "idle" /\ (t = Httpd => request = NoRequest)
    /\ Goes(t, "wait")
    /\ UNCHANGED <<mMutex, mListMutex, mSinkFunc, mConnections, allocated, next, reached, request>>

vprintf(t) ==
    /\ logging[t] = "wait" /\ mMutex = NoOne
    /\ mMutex' = t
    /\ Goes(t, "format")
    /\ UNCHANGED <<mListMutex, mSinkFunc, mConnections, allocated, next, reached, request>>

CallSink(t) ==
    /\ logging[t] = "format"
    /\ IF mSinkFunc THEN Goes(t, "list") /\ UNCHANGED mMutex ELSE Goes(t, "idle") /\ mMutex' = NoOne
    /\ UNCHANGED <<mListMutex, mSinkFunc, mConnections, allocated, next, reached, request>>

logSink(t) ==
    /\ logging[t] = "list" /\ mListMutex = NoOne
    /\ mListMutex' = t
    /\ next' = 1 /\ reached' = {}
    /\ Goes(t, "send")
    /\ UNCHANGED <<mMutex, mSinkFunc, mConnections, allocated, request>>

\* httpSendChunk; whether it fails makes no difference.
SendChunk(t) ==
    /\ logging[t] = "send" /\ next <= Len(mConnections)
    /\ reached' = reached \cup {mConnections[next]}
    /\ next' = next + 1
    /\ UNCHANGED <<mMutex, mListMutex, mSinkFunc, mConnections, allocated, logging, request>>

SinkReturns(t) ==
    /\ logging[t] = "send" /\ next > Len(mConnections)
    /\ mMutex' = NoOne /\ mListMutex' = NoOne
    /\ Goes(t, "idle")
    /\ UNCHANGED <<mSinkFunc, mConnections, allocated, next, reached, request>>

\* registerWithHttpServer and unregisterWithHttpServer, which also wait for mMutex
setSinkFunc(set) ==
    /\ mMutex = NoOne /\ mSinkFunc # set
    /\ mSinkFunc' = set
    /\ UNCHANGED <<mMutex, mListMutex, mConnections, allocated, logging, next, reached, request>>
-----------------------------------------------------------------------------
\* logRequestHandler: after the header is sent the connection object is made,
\* and the library is told of it, before the list's mutex is taken.
Request(fd) ==
    /\ request = NoRequest /\ logging[Httpd] = "idle" /\ fd \notin allocated
    /\ allocated' = allocated \cup {fd}
    /\ request' = <<"add", fd>>
    /\ UNCHANGED <<mMutex, mListMutex, mSinkFunc, mConnections, logging, next, reached>>

AddConnection ==
    /\ request[1] = "add" /\ mListMutex = NoOne
    /\ mConnections' = Append(mConnections, request[2])
    /\ request' = NoRequest
    /\ UNCHANGED <<mMutex, mListMutex, mSinkFunc, allocated, logging, next, reached>>

\* connCloseFunc, when a socket is closed: under the list's mutex the object is
\* taken off the list and deleted.
Close(fd) ==
    /\ request = NoRequest /\ logging[Httpd] = "idle" /\ fd \in ToSet(mConnections)
    /\ request' = <<"close", fd>>
    /\ UNCHANGED <<mMutex, mListMutex, mSinkFunc, mConnections, allocated, logging, next, reached>>

LocksList == mListMutex = NoOne /\ mListMutex' = Httpd
LocksNothing == UNCHANGED mListMutex
Locks == LocksList

connCloseFunc ==
    /\ request[1] = "close" /\ Locks
    /\ request' = <<"delete", request[2]>>
    /\ UNCHANGED <<mMutex, mSinkFunc, mConnections, allocated, logging, next, reached>>

WithoutLogging == TRUE
WithLogging == mMutex = NoOne
Deletes == WithoutLogging

DeleteConn ==
    /\ request[1] = "delete" /\ Deletes
    /\ mConnections' = RemoveFirst(mConnections, request[2])
    /\ allocated' = allocated \ {request[2]}
    /\ mListMutex' = IF mListMutex = Httpd THEN NoOne ELSE mListMutex
    /\ request' = NoRequest
    /\ UNCHANGED <<mMutex, mSinkFunc, logging, next, reached>>

HttpdStep == AddConnection \/ connCloseFunc \/ DeleteConn
LogStep(t) == vprintf(t) \/ CallSink(t) \/ logSink(t) \/ SendChunk(t) \/ SinkReturns(t)

Next ==
    \/ HttpdStep
    \/ \E t \in Everyone : Log(t) \/ LogStep(t)
    \/ \E set \in BOOLEAN : setSinkFunc(set)
    \/ \E fd \in Fds : Request(fd) \/ Close(fd)

\* A mutex is given in turn to those who wait for it; tasks that hold one run.
Fairness ==
    /\ SF_loggerVars(AddConnection) /\ SF_loggerVars(connCloseFunc) /\ SF_loggerVars(DeleteConn)
    /\ \A t \in Everyone :
        /\ SF_loggerVars(vprintf(t)) /\ SF_loggerVars(logSink(t))
        /\ WF_loggerVars(CallSink(t) \/ SendChunk(t) \/ SinkReturns(t))
-----------------------------------------------------------------------------
\* A line is sent to every connection that is in the list when logSink returns,
\* while the server's task adds and closes connections (netLogger.cpp:96-110).
LineReachesAll ==
    \A t \in Everyone :
        logging[t] = "send" /\ next > Len(mConnections) => ToSet(mConnections) \subseteq reached

\* Every call that logs returns, and no request waits for ever: the tasks never
\* wait for each other's mutexes.
LogsReturn ==
    /\ \A t \in Everyone : logging[t] = "wait" ~> logging[t] = "idle"
    /\ request # NoRequest ~> request = NoRequest
=============================================================================
