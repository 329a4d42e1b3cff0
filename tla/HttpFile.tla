------------------------------- MODULE HttpFile -------------------------------
(***************************************************************************)
(* The file service of httpLib/httpFile.cpp: upload, download, listing and *)
(* deletion of files under a fixed tree of paths. The server runs one      *)
(* handler at a time; the client may send slowly, stop or go away, and the *)
(* file system may fail to open, read, write, close, stat or remove. (Only *)
(* readdir is taken to go through a directory it opened.) disk holds what  *)
(* each existing path contains, request is the handler that runs, and      *)
(* outcome what the last one told its client.                              *)
(***************************************************************************)
EXTENDS Integers, Sequences, Functions

CONSTANTS Dirs, Files,     \* the paths: a directory holds nothing itself
          Parent,          \* the directory each path but the first is in
          Root,            \* the directory everything is in
          Quoted,          \* the paths that jsonStringEscape changes
          Bodies,          \* what clients upload
          kFileIoBufSize, MaxWaits

\* The paths are a tree, whose leaves are the files and the empty directories, and
\* a body is a sequence.
Bytes == UNION {Range(body) : body \in Bodies}
HttpFileAssumption ==
    /\ Root \in Dirs /\ Dirs \cap Files = {}
    /\ \A p \in (Dirs \cup Files) \ {Root} : Parent[p] \in Dirs
    /\ \A S \in SUBSET (Dirs \cup Files) :
        S # {} => \E p \in S : \A q \in S \ {Root} : Parent[q] # p
    /\ Bodies \subseteq Seq(Bytes)
    /\ kFileIoBufSize \in Nat \ {0} /\ MaxWaits \in Nat

VARIABLES disk, request, outcome
fileVars == <<disk, request, outcome>>

None == [f |-> "none"]
Paths == Dirs \cup Files
Entries(d) == {p \in DOMAIN disk : p # Root /\ Parent[p] = d}
\* p is in each set of paths that d is in and, with a directory, all it holds.
Closed(S) == \A q \in Paths \ {Root} : Parent[q] \in S => q \in S
Below(p, d) == \A S \in SUBSET Paths : d \in S /\ Closed(S) => p \in S
Smaller(a, b) == IF a < b THEN a ELSE b

\* The files with this one holding so much.
Put(name, content) == [p \in DOMAIN disk \cup {name} |-> IF p = name THEN content ELSE disk[p]]

FileInit ==
    /\ disk = [p \in {Root} |-> <<>>]
    /\ request = None
    /\ outcome = None

\* The handler returns: what it answered, and what that is to be compared with.
Answer(ok, with) ==
    /\ outcome' = [f |-> request.f, name |-> request.name, ok |-> ok, with |-> with]
    /\ request' = None
Refuse(f, name) ==
    /\ request = None
    /\ outcome' = [f |-> f, name |-> name, ok |-> FALSE, with |-> None]
    /\ UNCHANGED <<disk, request>>

-----------------------------------------------------------------------------
\* fsFilePostHandler: fopen truncates the file before anything is received.
Post(name, body) ==
    /\ request = None
    /\ outcome' = None
    /\ request' = [f |-> "post", name |-> name, body |-> body, remain |-> Len(body), numWaits |-> 0]
    /\ disk' = Put(name, <<>>)

\* httpd_req_recv times out; the fourth time in a row is an error.
RecvTimeout ==
    /\ request.f = "post" /\ request.remain > 0
    /\ IF request.numWaits + 1 < MaxWaits
       THEN request' = [request EXCEPT !.numWaits = @ + 1] /\ UNCHANGED outcome
       ELSE Answer(FALSE, None)
    /\ UNCHANGED disk

RecvFails ==
    /\ request.f = "post" /\ request.remain > 0
    /\ Answer(FALSE, None)
    /\ UNCHANGED disk

\* One block is received and as much of it written as the file system takes.
\* A sender that closed its end gives blocks of no bytes, which change nothing.
Received(n) == SubSeq(request.body, Len(request.body) - request.remain + 1,
                      Len(request.body) - request.remain + n)
RecvBlock(recvLen, written) ==
    /\ request.f = "post" /\ request.remain > 0
    /\ recvLen \in 1 .. Smaller(request.remain, kFileIoBufSize)
    /\ written \in 0 .. recvLen
    /\ disk' = [disk EXCEPT ![request.name] = @ \o SubSeq(Received(recvLen), 1, written)]
    /\ IF written = recvLen
       THEN /\ request' = [request EXCEPT !.remain = @ - recvLen, !.numWaits = 0]
            /\ UNCHANGED outcome
       ELSE Answer(FALSE, None)

\* "OK" is sent first; then the file is closed, which may lose the last bytes.
PostEnds(lost) ==
    /\ request.f = "post" /\ request.remain = 0
    /\ lost \in 0 .. Len(disk[request.name])
    /\ disk' = [disk EXCEPT ![request.name] = SubSeq(@, 1, Len(@) - lost)]
    /\ Answer(TRUE, [body |-> request.body, closed |-> (lost = 0)])
-----------------------------------------------------------------------------
\* httpGetHandler and respondWithFileContent: a short block is the last one, be it
\* the end of the file or that reading failed, which fread() says by a short count.
Get(name) ==
    /\ request = None /\ name \in DOMAIN disk
    /\ request' = [f |-> "get", name |-> name, at |-> 0, body |-> <<>>]
    /\ outcome' = None
    /\ UNCHANGED disk

ReadLen == Smaller(kFileIoBufSize, Len(disk[request.name]) - request.at)
BlockIsLast(readLen) == readLen # kFileIoBufSize

SendBlock(readLen) ==
    /\ request.f = "get" /\ readLen \in 0 .. ReadLen
    /\ LET body == request.body \o SubSeq(disk[request.name], request.at + 1, request.at + readLen)
       IN  IF BlockIsLast(readLen)
           THEN Answer(TRUE, [body |-> body, readError |-> readLen < ReadLen])
           ELSE /\ request' = [request EXCEPT !.at = @ + readLen, !.body = body]
                /\ UNCHANGED outcome
    /\ UNCHANGED disk

SendFails ==
    /\ request.f = "get"
    /\ Answer(FALSE, None)
    /\ UNCHANGED disk
-----------------------------------------------------------------------------
\* respondWithDirContent looks for an entry under its escaped name.
Describe(p) ==
    IF p \in Quoted THEN "e" ELSE IF p \in Dirs THEN "d" ELSE "s"

List(d) ==
    /\ request = None /\ d \in DOMAIN disk
    /\ outcome' = [f |-> "ls", name |-> d, ok |-> TRUE, with |-> [p \in Entries(d) |-> Describe(p)]]
    /\ UNCHANGED <<disk, request>>
-----------------------------------------------------------------------------
\* delDirectory: the entries that can be removed are, the directory only if all
\* of them were. stuck are the paths that remove fails for, shut the directories
\* that stat or opendir fails for.
Failed == [gone |-> {}, ok |-> FALSE]
remove(p, stuck) == IF p \in stuck THEN Failed ELSE [gone |-> {p}, ok |-> TRUE]
AllOk(results) == \A p \in DOMAIN results : results[p].ok
LastOk(results) == DOMAIN results = {} \/ results[CHOOSE p \in DOMAIN results : TRUE].ok
EntriesOk(results) == AllOk(results)
\* The directory itself is removed when all its entries were.
Emptied(d, results, stuck, shut) ==
    LET gone == UNION {results[p].gone : p \in DOMAIN results}
        last == remove(d, stuck)
    IN  IF d \in shut THEN Failed
        ELSE IF EntriesOk(results) THEN [gone |-> gone \cup last.gone, ok |-> last.ok]
        ELSE [gone |-> gone, ok |-> FALSE]
delDirectory(stuck, shut) ==
    LET del[d \in Dirs \cap DOMAIN disk] ==
            Emptied(d, [p \in Entries(d) |-> IF p \in Dirs THEN del[p] ELSE remove(p, stuck)], stuck, shut)
    IN  del

Delete(name, stuck, shut) ==
    /\ request = None /\ name \in DOMAIN disk
    /\ LET r == IF name \in Dirs THEN delDirectory(stuck, shut)[name] ELSE remove(name, stuck)
       IN  /\ disk' = Restrict(disk, DOMAIN disk \ r.gone)
           /\ outcome' = [f |-> "del", name |-> name, ok |-> r.ok,
                          with |-> [before |-> DOMAIN disk, stuck |-> stuck, shut |-> shut]]
           /\ UNCHANGED request
-----------------------------------------------------------------------------
\* Nothing makes directories but the firmware itself.
MakeDir(d) ==
    /\ request = None /\ d \notin DOMAIN disk /\ Parent[d] \in DOMAIN disk
    /\ disk' = Put(d, <<>>)
    /\ outcome' = None
    /\ UNCHANGED request

\* Any call may be refused for a path that is not there, or that the file system
\* cannot open.
FileNext ==
    \/ \E name \in Paths : \E f \in {"post", "get", "ls"} : Refuse(f, name)
    \/ \E name \in Paths \ DOMAIN disk : Refuse("del", name)
    \/ \E name \in Files, body \in Bodies : Parent[name] \in DOMAIN disk /\ Post(name, body)
    \/ RecvTimeout \/ RecvFails \/ SendFails
    \/ \E readLen \in 0 .. kFileIoBufSize : SendBlock(readLen)
    \/ \E recvLen \in 1 .. kFileIoBufSize, written \in 0 .. kFileIoBufSize : RecvBlock(recvLen, written)
    \/ \E lost \in 0 .. 1 : PostEnds(lost)
    \/ \E name \in Files : Get(name)
    \/ \E d \in Dirs : List(d)
    \/ \E name \in DOMAIN disk \ {Root} : \E stuck, shut \in SUBSET {p \in DOMAIN disk : Below(p, name)} :
        shut \subseteq Dirs /\ Delete(name, stuck, shut)
    \/ \E d \in Dirs \ {Root} : MakeDir(d)
-----------------------------------------------------------------------------
UploadIsWhole ==
    outcome.f = "post" /\ outcome.ok /\ outcome.with.closed => disk[outcome.name] = outcome.with.body
DownloadIsWhole ==
    outcome.f = "get" /\ outcome.ok =>
        LET body == outcome.with.body
        IN  /\ Len(body) <= Len(disk[outcome.name]) /\ body = SubSeq(disk[outcome.name], 1, Len(body))
            /\ ~outcome.with.readError => body = disk[outcome.name]
\* Of these paths, those under d; what of that cannot be removed, or is out of
\* reach; and what is kept because of that.
Under(paths, d) == {p \in paths : Below(p, d)}
There(paths, d, stuck, shut) ==
    {p \in Under(paths, d) : p \in stuck \/ \E x \in Under(paths, d) \cap shut : Below(p, x)}
Kept(paths, d, stuck, shut) ==
    {p \in Under(paths, d) : \E q \in There(paths, d, stuck, shut) : Below(q, p)}
DeleteIsExact ==
    outcome.f = "del" /\ outcome.with # None =>
        LET before == outcome.with.before
            kept == Kept(before, outcome.name, outcome.with.stuck, outcome.with.shut)
        IN  /\ DOMAIN disk = (before \ Under(before, outcome.name)) \cup kept
            /\ outcome.ok <=> (kept = {})
ListIsComplete ==
    outcome.f = "ls" /\ outcome.ok => DOMAIN outcome.with = Entries(outcome.name)

\* What a handler tells its client is true of the files: an upload that was
\* confirmed is on the disk as it was sent, if closing the file lost nothing; a
\* download that was completed is the file, if reading it did not fail (if it did,
\* the response is completed all the same and is a part from the start: the code
\* takes a read error for the end of the file, httpFile.cpp:165-183); a deletion
\* leaves exactly the paths that have something under them that could not be
\* removed, and says so.
AnswersAreTrue == UploadIsWhole /\ DownloadIsWhole /\ DeleteIsExact /\ ListIsComplete
=============================================================================
