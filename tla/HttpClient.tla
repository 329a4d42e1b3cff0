------------------------------ MODULE HttpClient ------------------------------
(***************************************************************************)
(* httpLib/httpClient.hpp: get() and post(), which is request() and then   *)
(* getResponse() into a DynBuffer. The library that speaks to the server   *)
(* is external; the server sends a body of some size, which it may have    *)
(* declared, and may close the connection early. The bytes of the body are *)
(* 1, 2, 3 and so on. Callers close() between requests, also after an      *)
(* exception (httpGet and httpPost destroy the client).                    *)
(***************************************************************************)
EXTENDS Integers, Sequences, FiniteSetsExt

CONSTANTS
    kMaxMemResponseLen,
    FirstSize,          \* of the buffer for a response of unknown length, 128
    MaxBody,            \* bound: bytes of a body
    MaxRedirects        \* bound: the code has none

VARIABLES
    pc,                     \* where the call is
    mClient, mConnected, mTerminate,
    server,                 \* the request: the body's size, whether it is declared,
                            \* redirects left, and the length of postData
    toWrite,                \* bytes of postData that were not sent yet
    resp, recvd             \* the buffer, a DynBuffer, and the bytes in it

clientVars == <<pc, mClient, mConnected, mTerminate, server, toWrite, resp, recvd>>

B == INSTANCE Buffers WITH kChunkSize <- 1

clen == IF server.declared THEN server.size ELSE -1

Init ==
    /\ pc = "idle" /\ mClient = FALSE /\ mConnected = FALSE /\ mTerminate = FALSE
    /\ server = [size |-> 0, declared |-> FALSE, redirects |-> 0, postLen |-> 0]
    /\ toWrite = 0 /\ resp = B!Empty /\ recvd = 0

Goes(from, to) ==
    /\ pc = from /\ pc' = to
    /\ UNCHANGED <<mTerminate, toWrite, resp, recvd>>

\* An exception, with which nothing is closed.
Throw(from) == Goes(from, "thrown") /\ UNCHANGED <<mClient, mConnected, server>>
CheckTerminate(from) == mTerminate /\ Throw(from)

\* create()
Request(size, declared, redirects, postLen) ==
    /\ pc = "idle" /\ ~mClient /\ ~mConnected
    /\ pc' = "open" /\ mClient' = TRUE
    /\ server' = [size |-> size, declared |-> declared, redirects |-> redirects, postLen |-> postLen]
    /\ toWrite' = 0 /\ resp' = B!Empty /\ recvd' = 0
    /\ UNCHANGED <<mConnected, mTerminate>>

\* A post sends its data before it asks for the headers, after each redirect again.
Open ==
    /\ pc = "open" /\ pc' = "write"
    /\ toWrite' = server.postLen
    /\ UNCHANGED <<mClient, mConnected, mTerminate, server, resp, recvd>>

\* open fails: request() closes and returns. A negative value makes get() throw;
\* for ESP_FAIL, which is -1, a positive one is returned, and get() goes on.
OpenFails ==
    /\ \E ret \in {"code", "ESP_FAIL"} : Goes("open", IF ret = "code" THEN "thrown" ELSE "connected")
    /\ mClient' = FALSE /\ mConnected' = FALSE
    /\ UNCHANGED server

\* write(), some bytes, or none, each time
Write ==
    /\ pc = "write" /\ toWrite > 0
    /\ \E n \in 0 .. toWrite : toWrite' = toWrite - n
    /\ pc' = IF mTerminate THEN "thrown" ELSE "write"
    /\ UNCHANGED <<mClient, mConnected, mTerminate, server, resp, recvd>>
WriteFails == toWrite > 0 /\ Throw("write")
Written == toWrite = 0 /\ Goes("write", "headers") /\ UNCHANGED <<mClient, mConnected, server>>

Redirect ==
    /\ server.redirects > 0
    /\ Goes("headers", "open")
    /\ server' = [server EXCEPT !.redirects = @ - 1]
    /\ UNCHANGED <<mClient, mConnected>>
Headers ==
    /\ server.redirects = 0
    /\ Goes("headers", "connected")
    /\ mConnected' = TRUE
    /\ UNCHANGED <<mClient, server>>
HeadersFail ==
    /\ Goes("headers", "thrown")
    /\ mClient' = FALSE /\ mConnected' = FALSE
    /\ UNCHANGED server
-----------------------------------------------------------------------------
\* getResponse: assert(mClient && mConnected) ends the program.
Abort == ~(mClient /\ mConnected) /\ Goes("connected", "aborted") /\ UNCHANGED <<mClient, mConnected, server>>

TooLong == mConnected /\ clen > kMaxMemResponseLen /\ Throw("connected")

MakeBuffer ==
    /\ pc = "connected" /\ mClient /\ mConnected /\ clen <= kMaxMemResponseLen
    /\ pc' = "read"
    /\ resp' = IF clen > 0 THEN B!resize(B!reserve(B!Empty, clen + 1), clen) ELSE B!resize(B!Empty, FirstSize)
    /\ UNCHANGED <<mClient, mConnected, mTerminate, server, toWrite, recvd>>

\* How much to read next: when the buffer is full it grows by a half, and what it
\* grows by is read.
IsFull == resp.bufSize - recvd <= 0
NewSize == Min({(resp.bufSize * 3) \div 2, kMaxMemResponseLen})
GrowsBy(size) == size - resp.bufSize
GrowsTo(size) == size
ReadAfterGrowth(size) == GrowsBy(size)
toRead == IF IsFull THEN ReadAfterGrowth(NewSize) ELSE resp.bufSize - recvd
Grown == IF IsFull THEN B!resize(resp, NewSize) ELSE resp

CannotGrow == IsFull /\ (clen > 0 \/ GrowsBy(NewSize) <= 0) /\ Throw("read")

Returned(buf, n) == B!nullTerminate(B!resize(buf, n))

\* Some bytes arrive; a response of known length may then be complete.
Read ==
    /\ pc = "read" /\ toRead > 0 /\ (IsFull => clen <= 0)
    /\ \E n \in 1 .. Min({toRead, server.size - recvd}) :
        LET got == [i \in 1 .. Max({Len(Grown.data), recvd + n}) |->
                       IF i \in recvd + 1 .. recvd + n THEN i ELSE Grown.data[i]]
            buf == [Grown EXCEPT !.data = got]
        IN  /\ recvd' = recvd + n
            /\ IF recvd + n = clen THEN resp' = Returned(buf, clen) /\ pc' = "done"
               ELSE resp' = buf /\ pc' = "read"
    /\ UNCHANGED <<mClient, mConnected, mTerminate, server, toWrite>>

\* The connection is at its end, or was closed early.
ReadEnd ==
    /\ pc = "read" /\ toRead > 0 /\ (server.declared \/ recvd = server.size)
    /\ IF clen > 0 THEN pc' = "thrown" /\ UNCHANGED resp
       ELSE pc' = "done" /\ resp' = Returned(Grown, recvd)
    /\ UNCHANGED <<mClient, mConnected, mTerminate, server, toWrite, recvd>>

Terminate ==
    /\ ~mTerminate /\ mTerminate' = TRUE
    /\ UNCHANGED <<pc, mClient, mConnected, server, toWrite, resp, recvd>>

close ==
    /\ pc \in {"thrown", "done"}
    /\ pc' = "idle" /\ mClient' = FALSE /\ mConnected' = FALSE
    /\ UNCHANGED <<mTerminate, server, toWrite, resp, recvd>>

Next ==
    \/ \E size \in 0 .. MaxBody, d \in BOOLEAN, r \in 0 .. MaxRedirects, p \in 0 .. 2 : Request(size, d, r, p)
    \/ Open \/ OpenFails \/ Write \/ WriteFails \/ Written \/ Redirect \/ Headers \/ HeadersFail
    \/ Abort \/ TooLong \/ MakeBuffer \/ CannotGrow \/ Read \/ ReadEnd \/ Terminate \/ close
    \* timeouts after which somebody wants the call to end, and errors
    \/ CheckTerminate("headers") \/ CheckTerminate("read") \/ Throw("read")
-----------------------------------------------------------------------------
\* A response that is returned is the whole body in order and ends with a 0, and
\* no byte was written behind the buffer, however the portions in which it came
\* and the steps in which the buffer grew fell together (httpClient.hpp:180-233).
ResponseIsWhole ==
    /\ pc = "done" => resp.data = [i \in 1 .. server.size + 1 |-> IF i <= server.size THEN i ELSE 0]
    /\ recvd <= resp.bufSize
=============================================================================
