------------------------------ MODULE NvsSimple ------------------------------
(***************************************************************************)
(* The small NVS handle of mySystem/nvsSimple.cpp: opening it, and the two *)
(* HTTP handlers that set and delete entries by the parameters of a URL,   *)
(* one call of the store at a time, with the power lost at any moment. The *)
(* store is a function from keys to values with their types; it is        *)
(* external and never fails but for room. Keys and texts are sequences of  *)
(* characters; no key has a 0 in it. The server handles one request at a   *)
(* time.                                                                   *)
(***************************************************************************)
EXTENDS FiniteSets, Parsers

CONSTANTS MaxEntries,    \* how many entries the partition takes
          Requests       \* the parameters of requests: sequences of key and value

NvsSimpleAssumption == Requests \subseteq Seq(Seq(Nat) \X Seq(Nat))

VARIABLES mHandle,
          entries,       \* what the store answers
          onFlash,       \* what a restart finds
          query,         \* the call of init() or of a handler, and how far it is
          before,        \* the entries when that call began
          unsaved        \* the entries that requests touched since the last commit

nvsVars == <<mHandle, entries, onFlash, query, before, unsaved>>

NoEntries == [k \in {} |-> 0]
NoQuery == [f |-> "none"]

NvsInit ==
    /\ mHandle = 0 /\ entries = NoEntries /\ onFlash = NoEntries
    /\ query = NoQuery /\ before = NoEntries /\ unsaved = {}

InProgress == query.f \in {"set", "del"} /\ query.answer = "none"

Drop(store, k) == [x \in DOMAIN store \ {k} |-> store[x]]
Put(store, k, v) == [x \in DOMAIN store \cup {k} |-> IF x = k THEN v ELSE store[x]]
Fits(store, k) == k \in DOMAIN store \/ Cardinality(DOMAIN store) < MaxEntries
-----------------------------------------------------------------------------
\* init: flashErr is what nvs_flash_init returns at first, opened what the first
\* and the second attempt to open the namespace return; erasing repairs the
\* flash. ESP_ERROR_CHECK aborts the program.
CanBeErased(err) == err \notin {"ESP_ERR_NOT_FOUND", "ESP_ERR_NO_MEM"}

init(flashErr, opened, eraseOnError) ==
    LET freshNew == flashErr # "ESP_OK"
        Return(err, erased) ==
            [err |-> err, erased |-> erased, mHandle |-> IF err = "ESP_OK" THEN 1 ELSE 0]
    IN  IF freshNew /\ ~(eraseOnError /\ CanBeErased(flashErr)) THEN Return(flashErr, FALSE)
        ELSE IF opened[1] = "ESP_OK" \/ freshNew \/ ~eraseOnError THEN Return(opened[1], freshNew)
        ELSE IF opened[2] = "ESP_OK" THEN Return("ESP_OK", TRUE)
        ELSE Return("abort", TRUE)

Open == \E flashErr \in {"ESP_OK", "ESP_ERR_NOT_FOUND", "ESP_ERR_NVS_NO_FREE_PAGES"}, eraseOnError \in BOOLEAN,
           first, second \in {"ESP_OK", "ESP_ERR_NVS_NOT_INITIALIZED"} :
    LET r == init(flashErr, <<first, second>>, eraseOnError)
    IN  /\ mHandle = 0
        /\ mHandle' = r.mHandle
        /\ IF r.erased THEN onFlash' = NoEntries /\ entries' = NoEntries /\ unsaved' = {}
           ELSE UNCHANGED <<onFlash, entries, unsaved>>
        /\ before' = entries
        /\ query' = [f |-> "init", flashErr |-> flashErr, first |-> first, eraseOnError |-> eraseOnError]

Close == mHandle # 0 /\ ~InProgress /\ mHandle' = 0 /\ query' = NoQuery /\ UNCHANGED <<entries, onFlash, before, unsaved>>
-----------------------------------------------------------------------------
\* httpSetParam, for one pair. The result says what the store is then, and
\* whether the handler goes on. A pair with an empty value deletes: if the key
\* has a colon three from its end it is cut off there.
DeletedKey(key) ==
    IF Len(key) > 3 /\ key[Len(key) - 2] = Colon THEN SubSeq(key, 1, Len(key) - 3) ELSE key

DeletePair(store, key) ==
    IF Len(key) < 2 THEN [store |-> store, ok |-> FALSE]
    ELSE [store |-> Drop(store, DeletedKey(key)), ok |-> TRUE]

NameOf(key) == SubSeq(key, 1, Len(key) - 2)
TypeOf(key) == key[Len(key)]
HasType(key) == Len(key) >= 4 /\ key[Len(key) - 1] = Colon

PutPair(store, k, v) ==
    IF Fits(store, k) THEN [store |-> Put(store, k, v), ok |-> TRUE] ELSE [store |-> store, ok |-> FALSE]

\* A long has 32 bits. A value of another type than string and integer is taken for
\* stored.
IsNumber(val) ==
    LET n == strtol(val) IN n[2] # 0 /\ n[1] <= 2147483647 /\ n[1] >= -2147483647 - 1

SetPair(store, key, val) ==
    IF ~HasType(key) THEN [store |-> store, ok |-> FALSE]
    ELSE IF TypeOf(key) = 115 THEN PutPair(store, NameOf(key), <<115, val>>)
    ELSE IF TypeOf(key) = 105 /\ ~IsNumber(val) THEN [store |-> store, ok |-> FALSE]
    ELSE IF TypeOf(key) = 105 THEN PutPair(store, NameOf(key), <<105, strtol(val)[1]>>)
    ELSE [store |-> store, ok |-> TRUE]

Apply(store, pair) ==
    IF CString(pair[2]) = <<>> THEN DeletePair(store, pair[1]) ELSE SetPair(store, pair[1], CString(pair[2]))
-----------------------------------------------------------------------------
\* What a pair is about, as its sender means it: the name before the colon and a
\* known type of one letter; or to be deleted, a name with or without a type.
Deletes(pair) == CString(pair[2]) = <<>>
Suffixed(key) == {name \in Prefixes(key) \ {<<>>} : \E m \in 1 .. Len(key) : key = name \o <<Colon, key[m]>>}
About(pair) ==
    IF Deletes(pair) THEN IF Suffixed(pair[1]) = {} THEN {pair[1]} ELSE Suffixed(pair[1])
    ELSE {name \in Prefixes(pair[1]) : \E type \in {115, 105} : pair[1] = name \o <<Colon, type>>}

\* The entry that the handler touches. It looks for the type of a key to delete one
\* letter too early (nvsSimple.cpp:138), so a key is misread that has one, or that
\* has a colon before its last two letters; what such a key may be read as.
Touches(pair) == IF Deletes(pair) THEN {DeletedKey(pair[1])} ELSE About(pair)
ColonAt(key, n) == Len(key) > n + 1 /\ key[Len(key) - n] = Colon
Misread(pair) == Deletes(pair) /\ (ColonAt(pair[1], 1) \/ ColonAt(pair[1], 2))
Readings(key) == {key, SubSeq(key, 1, Len(key) - 2), SubSeq(key, 1, Len(key) - 3)}
Wrong(pair) ==
    IF Deletes(pair) THEN Len(pair[1]) < 2
    ELSE \/ ~\E name \in Prefixes(pair[1]), m \in 1 .. Len(pair[1]) :
                Len(name) > 1 /\ pair[1] = name \o <<Colon, pair[1][m]>>
         \/ (\E name \in About(pair) : pair[1] = name \o <<Colon, 105>>) /\ ~IsNumber(CString(pair[2]))
-----------------------------------------------------------------------------
Begin(f, pairs) ==
    /\ mHandle # 0 /\ ~InProgress
    /\ query' = [f |-> f, pairs |-> pairs, at |-> 0, answer |-> "none"]
    /\ before' = entries
    /\ UNCHANGED <<mHandle, entries, onFlash, unsaved>>

\* An error ends the handler, without a commit.
Fail == query' = [query EXCEPT !.answer = "failed"] /\ UNCHANGED <<entries, unsaved>>
Changes(store, names) ==
    /\ entries' = store
    /\ query' = [query EXCEPT !.at = @ + 1]
    /\ unsaved' = unsaved \cup names

SetNext ==
    /\ InProgress /\ query.f = "set" /\ query.at < Len(query.pairs)
    /\ LET pair == query.pairs[query.at + 1]
           done == Apply(entries, pair)
       IN  IF done.ok THEN Changes(done.store, Touches(pair)) ELSE Fail
    /\ UNCHANGED <<mHandle, onFlash, before>>

\* httpDelParam.
DelKey == strVal(query.pairs, <<107, 101, 121>>)
DelNext ==
    /\ InProgress /\ query.f = "del" /\ query.at = 0
    /\ IF DelKey # <<-1>> /\ CString(DelKey) \in DOMAIN entries
       THEN Changes(Drop(entries, CString(DelKey)), {CString(DelKey)}) ELSE Fail
    /\ UNCHANGED <<mHandle, onFlash, before>>

CommitNothing == UNCHANGED onFlash
CommitStore == onFlash' = entries

Commit ==
    /\ InProgress
    /\ query.at = IF query.f = "set" THEN Len(query.pairs) ELSE 1
    /\ CommitStore
    /\ query' = [query EXCEPT !.answer = "ok"]
    /\ unsaved' = {}
    /\ UNCHANGED <<mHandle, entries, before>>

\* The store writes an entry of its own accord; the power fails.
Persist == \E k \in DOMAIN entries \cup DOMAIN onFlash :
    /\ onFlash' = IF k \in DOMAIN entries THEN Put(onFlash, k, entries[k]) ELSE Drop(onFlash, k)
    /\ UNCHANGED <<mHandle, entries, query, before, unsaved>>

Restart ==
    /\ mHandle' = 0 /\ entries' = onFlash /\ query' = NoQuery /\ before' = onFlash /\ unsaved' = {}
    /\ UNCHANGED onFlash

NvsNext ==
    \/ Open
    \/ Close
    \/ \E f \in {"set", "del"}, pairs \in Requests : Begin(f, pairs)
    \/ SetNext
    \/ DelNext
    \/ Commit
    \/ Persist
    \/ Restart
-----------------------------------------------------------------------------
Entry(store, name) == IF name \in DOMAIN store THEN {store[name]} ELSE {}
Said(pair) ==
    IF Deletes(pair) THEN {}
    ELSE IF TypeOf(pair[1]) = 105 THEN {<<105, strtol(CString(pair[2]))[1]>>} ELSE {<<115, CString(pair[2])>>}

\* An entry is what the last pair about it says, of those before the first that is
\* wrong or finds no room. Nothing is claimed of the entries that a misread key may
\* stand for: "ab:s=" is to delete the entry ab, and does not.
SetApplied ==
    LET Touching(name) == {i \in 1 .. query.at : name \in About(query.pairs[i])}
        Touched == UNION {About(query.pairs[i]) : i \in 1 .. query.at}
        Unclear(name) == \E i \in 1 .. query.at : Misread(query.pairs[i]) /\ name \in Readings(query.pairs[i][1])
    IN  /\ \A i \in 1 .. query.at : ~Wrong(query.pairs[i])
        /\ \A name \in {k \in DOMAIN before \cup DOMAIN entries \cup Touched : ~Unclear(k)} :
              \/ Touching(name) = {} /\ Entry(entries, name) = Entry(before, name)
              \/ \E i \in Touching(name) : /\ \A j \in Touching(name) : j <= i
                                          /\ Entry(entries, name) = Said(query.pairs[i])
        /\ query.answer = "ok" => query.at = Len(query.pairs)
        /\ query.answer = "failed" =>
              \/ Wrong(query.pairs[query.at + 1])
              \/ \E name \in About(query.pairs[query.at + 1]) : ~Fits(entries, name)

\* The entry whose name is the value of the first parameter "key" is gone, if there
\* was one.
Names(i, name) ==
    /\ name = CString(query.pairs[i][2])
    /\ {j \in 1 .. i : CString(query.pairs[j][1]) = <<107, 101, 121>>} = {i}
DelApplied ==
    /\ query.answer = "failed" =>
          entries = before /\ \A i \in DOMAIN query.pairs, name \in DOMAIN entries : ~Names(i, name)
    /\ query.answer = "ok" => \E i \in DOMAIN query.pairs, name \in DOMAIN before :
          Names(i, name) /\ entries = Drop(before, name)

\* What was answered with OK survives a restart, and other entries, too, but for
\* those that a request without that answer touched.
Saved ==
    /\ \A name \in DOMAIN entries \cup DOMAIN onFlash :
          name \notin unsaved => Entry(onFlash, name) = Entry(entries, name)
    /\ query.f \in {"set", "del"} /\ query.answer = "ok" => onFlash = entries

\* Only a caller that asks for it loses data, and one that asks for it gets a
\* handle when that repairs the flash.
Opened ==
    /\ (query.eraseOnError /\ query.flashErr # "ESP_ERR_NOT_FOUND") \/ entries = before
    /\ query.eraseOnError /\ query.flashErr = "ESP_ERR_NVS_NO_FREE_PAGES" /\ query.first = "ESP_OK" => mHandle # 0

ParamsApplied ==
    /\ query.f = "set" => SetApplied
    /\ query.f = "del" => DelApplied
    /\ query.f = "init" => Opened
    /\ Saved
=============================================================================
