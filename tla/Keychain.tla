------------------------------ MODULE Keychain ------------------------------
(***************************************************************************)
(* The operating system's credential store as a backend,                   *)
(* internal/storage/keychain.go.  A record that is too long for one entry  *)
(* (Windows) is cut into numbered chunks, with a header that counts them.  *)
(* Every call to the credential store is a step of its own that may fail,  *)
(* and the process may die in between, so a Put or Delete that does not    *)
(* return may leave the name without a readable record.                    *)
(***************************************************************************)
EXTENDS BackendCalls, FiniteSetsExt

CONSTANTS
    ChunksOf,   \* how many chunks the record of each value makes; 1 fits one entry
    MaxChunks,  \* at most this many chunks
    Alike       \* values whose records agree but for the value's own text

VARIABLES
    entry,      \* the entry under each name: a record, or a header
    chunk,      \* the numbered entries of each name
    faults,     \* history: what went wrong since a change of each name went through, up to 2
    work        \* what each worker's call is doing

keychainVars == <<entry, chunk, faults>>

Idle == [pc |-> "idle"]
NoEntry == [kind |-> "none", value |-> "none", n |-> 0]
Record(v) == [kind |-> "record", value |-> v, n |-> 0]
Header(k) == [kind |-> "header", value |-> "none", n |-> k]
Indexes == 0..(MaxChunks - 1)

\* The first k chunks, put together, decode: the last of them, and no other, ends
\* a record.  decodeRecord looks at no more than that the text is JSON of
\* version 1, so pieces of several records of the same layout do.
Decodes(n, k) ==
    \A i \in 0..(k - 1) : chunk[n][i] \in Alike /\ (ChunksOf[chunk[n][i]] = i + 1 <=> i = k - 1)

\* Get: the record, or the chunks the header counts put together.  A missing
\* chunk, and chunks that do not decode, are errors.
Answer(n) ==
    LET e == entry[n]
        whole == {v \in Values : e.n = ChunksOf[v] /\ \A i \in 0..(e.n - 1) : chunk[n][i] = v}
    IN CASE e.kind = "record" -> e.value
         [] e.kind = "header" /\ whole # {} -> CHOOSE v \in whole : TRUE
         [] e.kind = "header" /\ whole = {} /\ Decodes(n, e.n) -> Mixed
         [] OTHER -> Absent

Bare == [i \in Indexes |-> Absent]

\* What a Put of a value leaves behind.
EntryOf(v) ==
    IF v = Absent THEN NoEntry ELSE IF ChunksOf[v] = 1 THEN Record(v) ELSE Header(ChunksOf[v])
ChunkOf(v) ==
    [i \in Indexes |-> IF v # Absent /\ ChunksOf[v] > 1 /\ i < ChunksOf[v] THEN v ELSE Absent]

Inits ==
    \E had \in [Names -> Earlier \cup {Absent}] :
       /\ entry = [n \in Names |-> EntryOf(had[n])]
       /\ chunk = [n \in Names |-> ChunkOf(had[n])]
       /\ faults = [n \in Names |-> 0]

At(w, pc) == backend = "keychain" /\ work[w].pc = pc
Name(w) == call[w].name
Value(w) == call[w].value
Deleting(w) == call[w].value = Absent
Alone(w) == backend \in Shared \/ \A u \in Workers : work[u].pc \in {"idle", "start"}

\* Calls to the credential store that failed, and deaths of the process.
Counted(w, fault) ==
    faults' = [faults EXCEPT ![Name(w)] = IF fault /\ @ < 2 THEN @ + 1 ELSE @]

Go(w, next, fault) ==
    /\ work' = [work EXCEPT ![w] = next]
    /\ Counted(w, fault)
    /\ UNCHANGED callVars

\* The method returns: the change went through, or there was nothing to delete.
Settles(w) ==
    /\ Return(w, TRUE)
    /\ work' = [work EXCEPT ![w] = Idle]
    /\ faults' = [faults EXCEPT ![Name(w)] = 0]

\* The method returns an error.
GivesUp(w, fault) ==
    /\ Return(w, FALSE)
    /\ work' = [work EXCEPT ![w] = Idle]
    /\ Counted(w, fault)

Returns(w, heard) == IF heard THEN Settles(w) ELSE GivesUp(w, TRUE)

Start(w, n, v) ==
    /\ backend = "keychain" /\ work[w] = Idle
    /\ Enter(w, n, v, {Absent, Mixed})
    /\ work' = [work EXCEPT ![w] = [pc |-> "start"]]
    /\ UNCHANGED keychainVars

\* deleteChunks, one entry after another until the first gap or an error,
\* which its callers ignore; then the method goes on.
Clear(i, after) == [pc |-> "clear", i |-> i, after |-> after]

DeleteChunks(w) ==
    LET n == Name(w)
        i == work[w].i
        after == [pc |-> work[w].after, i |-> 0] IN
    /\ At(w, "clear")
    /\ \/ Go(w, after, chunk[n][i] # Absent) /\ UNCHANGED chunk
       \/ /\ chunk[n][i] # Absent
          /\ chunk' = [chunk EXCEPT ![n][i] = Absent]
          /\ Go(w, IF i + 1 < MaxChunks THEN Clear(i + 1, work[w].after) ELSE after, FALSE)
    /\ UNCHANGED entry

\* Mutant: the chunks of the record that is replaced are left to be overwritten.
Put_KeepsChunks(w) ==
    /\ At(w, "start") /\ ~Deleting(w) /\ Alone(w)
    /\ Go(w, [pc |-> IF ChunksOf[Value(w)] = 1 THEN "record" ELSE "chunk", i |-> 0], FALSE)
    /\ UNCHANGED <<entry, chunk>>

\* Put takes the mutex and removes the chunks of an earlier, longer record.
Put(w) ==
    /\ At(w, "start") /\ ~Deleting(w) /\ Alone(w)
    /\ Go(w, Clear(0, IF ChunksOf[Value(w)] = 1 THEN "record" ELSE "chunk"), FALSE)
    /\ UNCHANGED <<entry, chunk>>

SetRecord(w, heard) ==
    /\ At(w, "record")
    /\ entry' = [entry EXCEPT ![Name(w)] = Record(Value(w))]
    /\ Returns(w, heard)
    /\ UNCHANGED chunk

\* One chunk after another; the header comes last.
SetChunk(w, heard) ==
    LET i == work[w].i IN
    /\ At(w, "chunk")
    /\ chunk' = [chunk EXCEPT ![Name(w)][i] = Value(w)]
    /\ Go(w, CASE ~heard -> Clear(0, "failed")
               [] heard /\ i + 1 < ChunksOf[Value(w)] -> [pc |-> "chunk", i |-> i + 1]
               [] OTHER -> [pc |-> "header", i |-> 0], ~heard)
    /\ UNCHANGED entry

SetHeader(w, heard) ==
    /\ At(w, "header")
    /\ entry' = [entry EXCEPT ![Name(w)] = Header(ChunksOf[Value(w)])]
    /\ Returns(w, heard)
    /\ UNCHANGED chunk

\* Delete takes the mutex and looks at the entry; a header has chunks to go.
Delete(w) ==
    LET e == entry[Name(w)] IN
    /\ At(w, "start") /\ Deleting(w) /\ Alone(w)
    /\ CASE e.kind = "none" -> Settles(w)
         [] e.kind = "header" -> Go(w, Clear(0, "unset"), FALSE)
         [] OTHER -> Go(w, [pc |-> "unset", i |-> 0], FALSE)
    /\ UNCHANGED <<entry, chunk>>

DeleteEntry(w, heard) ==
    /\ At(w, "unset")
    /\ entry' = [entry EXCEPT ![Name(w)] = NoEntry]
    /\ Returns(w, heard)
    /\ UNCHANGED chunk

\* A call to the credential store fails, or the chunks of a failed Put are
\* removed again: the method returns an error.
Fails(w) ==
    /\ backend = "keychain" /\ work[w].pc \in {"start", "record", "header", "unset", "failed"}
    /\ GivesUp(w, work[w].pc # "failed")
    /\ UNCHANGED <<entry, chunk>>

ChunkFails(w) ==
    /\ At(w, "chunk")
    /\ Go(w, Clear(0, "failed"), TRUE)
    /\ UNCHANGED <<entry, chunk>>

\* The process dies in the middle of a call.
Crash(w) ==
    /\ backend = "keychain" /\ call[w] # NoCall
    /\ GivesUp(w, TRUE)
    /\ UNCHANGED <<entry, chunk>>

Step(w) ==
    \/ Put(w) \/ Delete(w) \/ DeleteChunks(w) \/ Fails(w) \/ ChunkFails(w)
    \/ \E heard \in BOOLEAN :
          SetRecord(w, heard) \/ SetChunk(w, heard) \/ SetHeader(w, heard) \/ DeleteEntry(w, heard)

----------------------------------------------------------------------------

\* No one fault, a call to the credential store that fails or a process that
\* dies, makes a Get answer with a value nobody stored: it takes a second one
\* before a change of the name has gone through (keychain.go:86-100: a Put
\* removes the old chunks before it writes new ones, and its header comes last;
\* Get waits for the mutex).  Two faults do: deleteChunks stops at the first gap
\* or error and its result is ignored (keychain.go:88, 160), so a Put that is cut
\* short may leave chunks of the record before it behind its own.
MixedTakesTwoFaults ==
    \A n \in Names :
       \/ \E w \in Workers : call[w].name = n /\ work[w].pc # "start"
       \/ Answer(n) = Mixed => faults[n] = 2
============================================================================
