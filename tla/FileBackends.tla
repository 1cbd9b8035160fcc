---------------------------- MODULE FileBackends ----------------------------
(***************************************************************************)
(* The backends of internal/storage that keep every secret in one file,    *)
(* which each Put and Delete reads, changes and writes back as a whole:    *)
(* agevault.go and dotenv.go.                                              *)
(*                                                                         *)
(* The age vault guards the file against other processes with a lock file  *)
(* next to it; the dotenv file has a mutex only.  writeFileAtomic renames  *)
(* a complete file into place, so a write happens or does not.  A process  *)
(* may die at any step and leave its lock behind.                          *)
(***************************************************************************)
EXTENDS BackendCalls

CONSTANTS
    EnvKey,     \* the environment variable of each name
    NoKey,      \* no identity, or a file that does not exist
    OldKey,     \* the identity that is there already
    Tries,      \* how often withLock tries before its deadline of five seconds
    Stalls,     \* whether a writer may hold the lock for more than a minute
    Together    \* whether two processes may open the vault for the first time at once

VARIABLES
    file,       \* the entries, and the key they are encrypted with
    lock,       \* the lock file
    identity,   \* the key in the identity file, or in the keychain
    keyOf,      \* the key each worker's process has read or made
    work        \* what each worker's call is doing

fileVars == <<file, lock, identity, keyOf>>

FileKinds == {"agevault", "dotenv"}

NoLock == [owner |-> "none", old |-> FALSE]
Idle == [pc |-> "idle"]
Dead == [pc |-> "dead"]

\* What Get answers to a process that has the key on disk: a vault that was
\* encrypted with another one cannot be read.
AgeVaultGet(n) == IF file.key = identity THEN file.entries[n] ELSE Absent
DotenvGet(n) == file.entries[n]
Answer(n) == IF backend = "agevault" THEN AgeVaultGet(n) ELSE DotenvGet(n)

Inits ==
    /\ file \in [key : {NoKey, OldKey}, entries : [Names -> Earlier \cup {Absent}]]
    /\ file.key = NoKey => file.entries = [n \in Names |-> Absent]
    /\ \A m, n \in Names : m # n /\ EnvKey[m] = EnvKey[n] /\ backend = "dotenv"
                           => Absent \in {file.entries[m], file.entries[n]}
    /\ identity = file.key
    /\ lock = NoLock
    /\ keyOf = [w \in Workers |-> NoKey]

At(w, kinds, pc) == backend \in kinds /\ work[w].pc = pc
Name(w) == call[w].name
Deleting(w) == call[w].value = Absent

\* No other worker of the process holds the backend's mutex.
Alone(w) == backend \in Shared \/ \A u \in Workers : work[u].pc \in {"idle", "start", "dead"}

Go(w, next) == work' = [work EXCEPT ![w] = next] /\ UNCHANGED callVars

Finish(w, result) ==
    /\ Return(w, \/ result = "ok"
                 \/ result = "not_found" /\ Deleting(w))
    /\ work' = [work EXCEPT ![w] = Idle]

----------------------------------------------------------------------------
(* OpenAgeVault: the key is read, or made on first use.                    *)

Opening(w) == work[w].pc = "generate"

OpenAgeVault(w) ==
    /\ backend = "agevault" /\ work[w] = Idle /\ keyOf[w] = NoKey
    /\ Together \/ \A u \in Workers : ~Opening(u)
    /\ IF identity = NoKey
       THEN Go(w, [pc |-> "generate"]) /\ UNCHANGED keyOf
       ELSE /\ keyOf' = [keyOf EXCEPT ![w] = identity]
            /\ UNCHANGED <<callVars, work>>
    /\ UNCHANGED <<file, lock, identity>>

\* loadOrCreateIdentityFile found none: what it makes replaces whatever is
\* there by now.
GenerateIdentity(w) ==
    /\ Opening(w)
    /\ identity' = w
    /\ keyOf' = [keyOf EXCEPT ![w] = w]
    /\ Go(w, Idle)
    /\ UNCHANGED <<file, lock>>

----------------------------------------------------------------------------
(* withLock.                                                               *)

Start(w, n, v) ==
    /\ backend \in FileKinds /\ work[w] = Idle
    /\ backend = "agevault" => keyOf[w] # NoKey
    /\ Enter(w, n, v, {})
    /\ work' = [work EXCEPT ![w] = [pc |-> "start"]]
    /\ UNCHANGED fileVars

\* The mutex is taken; the age vault goes for the lock file next.
Lock(w) ==
    /\ At(w, FileKinds, "start") /\ Alone(w)
    /\ Go(w, IF backend = "agevault" THEN [pc |-> "lock", tries |-> 1] ELSE [pc |-> "load"])
    /\ UNCHANGED fileVars

\* Mutant: an existing lock file is no obstacle.
CreateLock_NotExclusive(w) ==
    /\ At(w, {"agevault"}, "lock")
    /\ lock' = [owner |-> w, old |-> FALSE] /\ Go(w, [pc |-> "load"])
    /\ UNCHANGED <<file, identity, keyOf>>

\* os.OpenFile with O_EXCL.
CreateLock(w) ==
    /\ At(w, {"agevault"}, "lock")
    /\ IF lock = NoLock
       THEN lock' = [owner |-> w, old |-> FALSE] /\ Go(w, [pc |-> "load"])
       ELSE Go(w, [work[w] EXCEPT !.pc = "stat"]) /\ UNCHANGED lock
    /\ UNCHANGED <<file, identity, keyOf>>

\* Mutant: an old lock is not treated as abandoned, and there is no deadline.
StatLock_NoDeadline(w) ==
    /\ At(w, {"agevault"}, "stat")
    /\ Go(w, [work[w] EXCEPT !.pc = "lock"])
    /\ UNCHANGED fileVars

\* os.Stat: an old lock is abandoned, a new one is waited for until the deadline.
StatLock(w) ==
    /\ At(w, {"agevault"}, "stat")
    /\ IF lock.old THEN Go(w, [work[w] EXCEPT !.pc = "steal"])
       ELSE IF work[w].tries < Tries
            THEN Go(w, [pc |-> "lock", tries |-> work[w].tries + 1])
            ELSE Finish(w, "error")
    /\ UNCHANGED fileVars

\* os.Remove: whatever lock is there by now.  When it cannot be removed, withLock
\* goes on all the same, without a look at its deadline.
StealLock(w) ==
    /\ At(w, {"agevault"}, "steal")
    /\ lock' \in {NoLock, lock}
    /\ Go(w, [work[w] EXCEPT !.pc = "lock"])
    /\ UNCHANGED <<file, identity, keyOf>>

\* The deferred os.Remove, and the method returns what the change came to.
Unlock(w) ==
    /\ At(w, FileKinds, "unlock")
    /\ lock' = IF backend = "agevault" THEN NoLock ELSE lock
    /\ Finish(w, work[w].result)
    /\ UNCHANGED <<file, identity, keyOf>>

\* A minute passes for the lock file, whose holder is gone or stalled.
Minute ==
    /\ lock.owner # "none" /\ ~lock.old
    /\ Stalls \/ work[lock.owner] = Dead
    /\ lock' = [lock EXCEPT !.old = TRUE]
    /\ UNCHANGED <<callVars, file, identity, keyOf, work>>

\* The process dies; what it wrote, its lock too, stays.
Crash(w) ==
    /\ backend = "agevault" /\ call[w] # NoCall
    /\ Return(w, FALSE)
    /\ work' = [work EXCEPT ![w] = Dead]
    /\ UNCHANGED fileVars

----------------------------------------------------------------------------
(* The change: load, edit, save.                                           *)

Result(w, r) == Go(w, [pc |-> "unlock", result |-> r])

Edited(w) == [file.entries EXCEPT ![Name(w)] = call[w].value]

\* AgeVault.load: a file that was encrypted with another key cannot be read.
Readable(w) == file.key \in {NoKey, keyOf[w]}

AgeVaultPut(w) ==
    /\ At(w, {"agevault"}, "load") /\ ~Deleting(w)
    /\ IF Readable(w) THEN Go(w, [pc |-> "save", copy |-> Edited(w)]) ELSE Result(w, "error")
    /\ UNCHANGED fileVars

AgeVaultDelete(w) ==
    /\ At(w, {"agevault"}, "load") /\ Deleting(w)
    /\ CASE ~Readable(w) -> Result(w, "error")
         [] Readable(w) /\ file.entries[Name(w)] = Absent -> Result(w, "not_found")
         [] OTHER -> Go(w, [pc |-> "save", copy |-> Edited(w)])
    /\ UNCHANGED fileVars

\* Mutant: two names with one variable are both written.
DotenvPut_NoClash(w) ==
    /\ At(w, {"dotenv"}, "load") /\ ~Deleting(w)
    /\ Go(w, [pc |-> "save", copy |-> Edited(w)])
    /\ UNCHANGED fileVars

\* Two names that make the same environment variable are not kept both.
DotenvPut(w) ==
    /\ At(w, {"dotenv"}, "load") /\ ~Deleting(w)
    /\ IF \E m \in Names \ {Name(w)} : EnvKey[m] = EnvKey[Name(w)] /\ file.entries[m] # Absent
       THEN Result(w, "error")
       ELSE Go(w, [pc |-> "save", copy |-> Edited(w)])
    /\ UNCHANGED fileVars

DotenvDelete(w) ==
    /\ At(w, {"dotenv"}, "load") /\ Deleting(w)
    /\ IF file.entries[Name(w)] = Absent THEN Result(w, "not_found")
       ELSE Go(w, [pc |-> "save", copy |-> Edited(w)])
    /\ UNCHANGED fileVars

\* The input is refused, the path is not safe, or the file cannot be read.
Refused(w) ==
    /\ backend \in FileKinds
    /\ \/ work[w].pc = "start" /\ Finish(w, "error")
       \/ work[w].pc = "load" /\ Result(w, "error")
    /\ UNCHANGED fileVars

\* save: everything that was read, with the change, replaces the file.
Save(w) ==
    /\ At(w, FileKinds, "save")
    /\ file' = [key |-> IF backend = "agevault" THEN keyOf[w] ELSE file.key,
                entries |-> work[w].copy]
    /\ Result(w, "ok")
    /\ UNCHANGED <<lock, identity, keyOf>>

SaveFails(w) ==
    /\ At(w, FileKinds, "save")
    /\ Result(w, "error")
    /\ UNCHANGED fileVars

Step(w) ==
    \/ OpenAgeVault(w) \/ GenerateIdentity(w)
    \/ Lock(w) \/ CreateLock(w) \/ StatLock(w) \/ StealLock(w) \/ Unlock(w)
    \/ AgeVaultPut(w) \/ AgeVaultDelete(w) \/ DotenvPut(w) \/ DotenvDelete(w)
    \/ Refused(w) \/ Save(w) \/ SaveFails(w)

----------------------------------------------------------------------------

\* Between load and save nobody else changes the file ("withLock serializes
\* writers across processes with a lock file", agevault.go:194).
OneWriter ==
    \A u, w \in Workers :
       u # w /\ backend = "agevault"
       => ~(work[u].pc \in {"load", "save"} /\ work[w].pc \in {"load", "save"})

\* No two names in the dotenv file make the same environment variable: a
\* program that reads the file would be given one value for both
\* (dotenv.go:330-334).
OneVariableEach ==
    \A m, n \in Names :
       m # n /\ backend = "dotenv" /\ EnvKey[m] = EnvKey[n]
       => Absent \in {file.entries[m], file.entries[n]}
============================================================================
