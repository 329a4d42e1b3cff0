------------------------------ MODULE MCNetwork ------------------------------
(***************************************************************************)
(* The parts of httpLib in one model: the firmware update, web sockets,    *)
(* the network log, the client, the file service and the parameters set over *)
(* HTTP. They share nothing that changes: each behaviour is about one of   *)
(* them, its subject, and the others stay as they began.                   *)
(***************************************************************************)
EXTENDS Ota, Sequences, TLC

CONSTANTS Fds, Msgs, MaxWork, Loggers, Httpd, NoOne, kMaxMemResponseLen, FirstSize, MaxBody, MaxRedirects,
    Dirs, Files, Parent, Root, Quoted, Bodies, kFileIoBufSize, MaxWaits,
    MaxEntries, Requests

\* Nobody is no task, and the sizes and bounds are numbers.
ASSUME NetworkAssumption ==
    /\ NoOne \notin Loggers \cup {Httpd}
    /\ kMaxMemResponseLen \in Nat /\ FirstSize \in Nat \ {0}
    /\ MaxBody \in Nat /\ MaxRedirects \in Nat

VARIABLES
    subject,
    mServer, wsConns, gone, work, sending, got,
    mMutex, mListMutex, mSinkFunc, mConnections, allocated, logging, next, reached, request,
    pc, mClient, mConnected, mTerminate, server, toWrite, resp, recvd,
    disk, fileRequest, outcome,
    mHandle, entries, onFlash, query, before, unsaved

Web == INSTANCE HttpServer
Logger == INSTANCE NetLogger
Client == INSTANCE HttpClient

File == INSTANCE HttpFile WITH request <- fileRequest
ASSUME FileAssumption == File!HttpFileAssumption

Params == INSTANCE NvsSimple
ASSUME ParamsAssumption == Params!NvsSimpleAssumption

\* Values for the constants: a directory in a directory, and a file in each of the
\* two.
MCParent == "root" :> "" @@ "outer" :> "root" @@ "inner" :> "outer" @@ "near" :> "outer" @@ "far" :> "inner"
MCBodies == {<<>>, <<1, 2>>, <<3, 4, 5>>}

\* Parameters: a text (115), a number (105), one that an escape hides, names to
\* delete; two that are misread, no number, an unknown type (120), a name that is too
\* short, and the name of the parameter that is to be deleted. What is parsed of
\* queries of one of them, or of one of the first kind and any other.
P == INSTANCE Parsers
AB == <<97, 98>>
AC == <<97, 99>>
Typed(name, type) == name \o <<P!Colon, type>>
Changing ==
    {<<Typed(AB, 115), <<55>>>>, <<Typed(AB, 105), <<55>>>>, <<Typed(AC, 115), <<P!Percent, 51, 55>>>>,
     <<AB, <<>>>>}
Others ==
    {<<Typed(AB, 115), <<>>>>, <<Typed(AB, 120) \o <<120>>, <<>>>>, <<Typed(AB, 105), <<97>>>>, <<Typed(AC, 120), <<55>>>>,
     <<<<97>>, <<>>>>, <<<<107, 101, 121>>, AB>>}
MCQueries ==
    LET Text(param) == param[1] \o <<P!Equals>> \o param[2]
    IN  {<<>>} \cup {Text(p) : p \in Changing \cup Others}
        \cup {Text(p) \o <<P!Amp>> \o Text(q) : p \in Changing, q \in Changing \cup Others}
MCRequests == {P!UrlParams(q) : q \in MCQueries}

webVars == <<mServer, wsConns, gone, work, sending, got>>
logVars == <<mMutex, mListMutex, mSinkFunc, mConnections, allocated, logging, next, reached, request>>
clientVars == <<pc, mClient, mConnected, mTerminate, server, toWrite, resp, recvd>>
fileVars == <<disk, fileRequest, outcome>>
nvsVars == <<mHandle, entries, onFlash, query, before, unsaved>>
allVars == <<vars, subject, webVars, logVars, clientVars, fileVars, nvsVars>>

MCInit ==
    /\ subject \in {"ota", "web", "log", "client", "file", "params"}
    /\ Init
    /\ subject # "ota" => image["ota_0"] = CHOOSE v \in Versions : TRUE
    /\ Web!Init /\ Logger!Init /\ Client!Init /\ File!FileInit /\ Params!NvsInit

OtaStep == subject = "ota" /\ Next /\ UNCHANGED <<subject, webVars, logVars, clientVars, fileVars, nvsVars>>
WebStep == subject = "web" /\ Web!Next /\ UNCHANGED <<vars, subject, logVars, clientVars, fileVars, nvsVars>>
LogStep == subject = "log" /\ Logger!Next /\ UNCHANGED <<vars, subject, webVars, clientVars, fileVars, nvsVars>>
ClientStep == subject = "client" /\ Client!Next /\ UNCHANGED <<vars, subject, webVars, logVars, fileVars, nvsVars>>
FileStep == subject = "file" /\ File!FileNext /\ UNCHANGED <<vars, subject, webVars, logVars, clientVars, nvsVars>>
ParamsStep ==
    subject = "params" /\ Params!NvsNext /\ UNCHANGED <<vars, subject, webVars, logVars, clientVars, fileVars>>

MCNext == OtaStep \/ WebStep \/ LogStep \/ ClientStep \/ FileStep \/ ParamsStep

\* Nothing that must happen can happen in a part that is not the subject.
MCSpec == MCInit /\ [][MCNext]_allVars /\ Fairness /\ Logger!Fairness

-----------------------------------------------------------------------------
\* A broadcast reaches every connection that was there when it began, whatever
\* becomes of the others meanwhile (HttpServer).
BroadcastReachesAll == Web!BroadcastReachesAll

\* A line that was logged is sent to every connection in the list (NetLogger).
LineReachesAll == Logger!LineReachesAll

\* Whoever logs, and the server's task, get on: no two tasks wait for each other
\* (NetLogger).
LogsReturn == Logger!LogsReturn

\* A response that is returned is the whole of what the server sent, and never
\* written behind its buffer (HttpClient).
ResponseIsWhole == Client!ResponseIsWhole

\* What the file service tells its client is true of the files; a download that was
\* completed is whole unless reading the file failed, which the code does not tell the
\* client (HttpFile, httpFile.cpp:165-183).
AnswersAreTrue == File!AnswersAreTrue

\* The entries that a request names are in the end what its last pair about each of
\* them says, up to the first pair that is wrong or finds no room; no other entry
\* changes; the answer tells whether there was such a pair, and what was answered
\* with OK survives a restart. Only a caller of init() that asks for it loses data
\* (nvsSimple.cpp). What a key to delete means that has a type, which the handler looks
\* for a letter too early (nvsSimple.cpp:137-138), is left open: it deletes another
\* entry, or none, and answers OK.
SetParamsApplied == Params!ParamsApplied
=============================================================================
