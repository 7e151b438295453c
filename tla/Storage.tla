------------------------------ MODULE Storage ------------------------------
(***************************************************************************)
(* LevelDBManager::atomicWrite and recoverTempFiles (src/storage), system  *)
(* call by system call, with a crash of the process possible between any   *)
(* two calls and, when MaxFaults allows it, with calls that fail.  mutex_  *)
(* lets one operation run at a time.  The file system itself is external:  *)
(* rename replaces its target atomically, and what a call has done is kept *)
(* when the process dies.                                                  *)
(***************************************************************************)
EXTENDS Naturals

CONSTANTS
  Files,        \* chain.json and state.json
  Values,       \* serialised contents
  Absent,       \* no file
  Partial,      \* a file cut off while it was being written
  MaxFaults,    \* bound on the number of calls that fail
  MaxCrashes    \* bound on the number of crashes

ASSUME StorageAssumption ==
  /\ Absent \notin Values /\ Partial \notin Values /\ Absent # Partial
  /\ MaxFaults \in Nat /\ MaxCrashes \in Nat

VARIABLES
  file, tmp, bak,   \* by canonical name: filePath, filePath.tmp, filePath.bak
  pc,               \* the next call of the running operation, "idle" if none
  target, value,    \* the arguments of the running atomicWrite
  unrecovered,      \* files recoverTempFiles has still to look at
  committed,        \* history: what the last write that returned true wrote,
                    \* or what the last crash left for recovery to find
  attempted,        \* history: what was given to atomicWrite since then
  faults, crashes   \* how many there have been

fsVars == <<file, tmp, bak>>
vars == <<fsVars, pc, target, value, unrecovered, committed, attempted, faults, crashes>>

Exists(x) == x # Absent

\* loadChain: a file that does not parse counts as no chain.
Readable(x) == IF x \in Values THEN x ELSE Absent

Fault == faults < MaxFaults /\ faults' = faults + 1
NoFault == faults' = faults

goto(label) == pc' = label

-----------------------------------------------------------------------------
(* atomicWrite *)

\* saveChain, appendBlock and saveState all end in this call.
Begin(f, v) ==
  /\ pc = "idle"
  /\ target' = f /\ value' = v
  /\ goto("open")
  /\ attempted' = [attempted EXCEPT ![f] = @ \cup {v}]
  /\ UNCHANGED <<fsVars, unrecovered, committed, faults, crashes>>

Return(ok) ==
  /\ goto("idle")
  /\ committed' = IF ok THEN [committed EXCEPT ![target] = value] ELSE committed
  /\ attempted' = IF ok THEN [attempted EXCEPT ![target] = {}] ELSE attempted

Continue(label) == goto(label) /\ UNCHANGED <<committed, attempted>>

openTmp ==
  /\ pc = "open"
  /\ \/ NoFault /\ tmp' = [tmp EXCEPT ![target] = Partial] /\ Continue("write")
     \/ Fault /\ tmp' = tmp /\ Return(FALSE)
  /\ UNCHANGED <<file, bak, target, value, unrecovered, crashes>>

\* Mutation: the write is not flushed before the files are swapped.
writeTmpUnflushed ==
  /\ pc = "write"
  /\ \/ NoFault /\ Continue("exists")
     \/ Fault /\ Return(FALSE)
  /\ UNCHANGED <<fsVars, target, value, unrecovered, crashes>>

writeTmp ==
  /\ pc = "write"
  /\ \/ NoFault /\ tmp' = [tmp EXCEPT ![target] = value] /\ Continue("exists")
     \/ Fault /\ tmp' = tmp /\ Return(FALSE)
  /\ UNCHANGED <<file, bak, target, value, unrecovered, crashes>>

\* A stat that fails is taken for a missing file.
checkExists ==
  /\ pc = "exists"
  /\ \/ NoFault /\ Continue(IF Exists(file[target]) THEN "removeBak" ELSE "install")
     \/ Fault /\ Continue("install")
  /\ UNCHANGED <<fsVars, target, value, unrecovered, crashes>>

\* The error of this call is ignored; the rename that follows replaces bak.
removeBak ==
  /\ pc = "removeBak"
  /\ \/ NoFault /\ bak' = [bak EXCEPT ![target] = Absent]
     \/ Fault /\ bak' = bak
  /\ Continue("backup")
  /\ UNCHANGED <<file, tmp, target, value, unrecovered, crashes>>

\* Mutation: the old file is removed instead of being kept as .bak.
backupByRemove ==
  /\ pc = "backup"
  /\ \/ NoFault /\ file' = [file EXCEPT ![target] = Absent] /\ Continue("install")
     \/ Fault /\ file' = file /\ Return(FALSE)
  /\ UNCHANGED <<tmp, bak, target, value, unrecovered, crashes>>

backup ==
  /\ pc = "backup"
  /\ \/ /\ NoFault
        /\ bak' = [bak EXCEPT ![target] = file[target]]
        /\ file' = [file EXCEPT ![target] = Absent]
        /\ Continue("install")
     \/ Fault /\ UNCHANGED <<file, bak>> /\ Return(FALSE)
  /\ UNCHANGED <<tmp, target, value, unrecovered, crashes>>

install ==
  /\ pc = "install"
  /\ \/ /\ NoFault
        /\ file' = [file EXCEPT ![target] = tmp[target]]
        /\ tmp' = [tmp EXCEPT ![target] = Absent]
        /\ Continue("cleanup")
     \/ Fault /\ UNCHANGED <<file, tmp>> /\ Continue("restore")
  /\ UNCHANGED <<bak, target, value, unrecovered, crashes>>

\* Mutation: a failed install returns without putting the old file back.
restoreSkipped ==
  /\ pc = "restore"
  /\ NoFault /\ Return(FALSE)
  /\ UNCHANGED <<fsVars, target, value, unrecovered, crashes>>

\* fs::exists(bakPath) may throw, and the handler then removes the tmp file;
\* the error of the rename is ignored.
restore ==
  /\ pc = "restore"
  /\ \/ /\ NoFault /\ Exists(bak[target])
        /\ file' = [file EXCEPT ![target] = bak[target]]
        /\ bak' = [bak EXCEPT ![target] = Absent]
        /\ tmp' = tmp
     \/ NoFault /\ ~Exists(bak[target]) /\ UNCHANGED fsVars
     \/ Fault /\ Exists(bak[target]) /\ UNCHANGED fsVars
     \/ Fault /\ tmp' = [tmp EXCEPT ![target] = Absent] /\ UNCHANGED <<file, bak>>
  /\ Return(FALSE)
  /\ UNCHANGED <<target, value, unrecovered, crashes>>

cleanup ==
  /\ pc = "cleanup"
  /\ \/ NoFault /\ bak' = [bak EXCEPT ![target] = Absent]
     \/ Fault /\ bak' = bak
  /\ Return(TRUE)
  /\ UNCHANGED <<file, tmp, target, value, unrecovered, crashes>>

-----------------------------------------------------------------------------
(* A crash, and recoverTempFiles in the constructor of the next process.   *)

\* What recoverTempFiles makes of f; the .bak file is never consulted.
Recovered(f) == IF Exists(file[f]) THEN file[f] ELSE tmp[f]

Crash ==
  /\ crashes < MaxCrashes
  /\ crashes' = crashes + 1
  /\ goto("recover")
  /\ unrecovered' = Files
  /\ committed' = [f \in Files |-> IF Recovered(f) \in Values THEN Recovered(f)
                                                           ELSE committed[f]]
  /\ UNCHANGED <<fsVars, target, value, attempted, faults>>

\* Mutation: recovery installs every tmp file, over a canonical one too.
recoverTempFileAlways(f) ==
  /\ pc = "recover" /\ f \in unrecovered
  /\ unrecovered' = unrecovered \ {f}
  /\ file' = [file EXCEPT ![f] = IF Exists(tmp[f]) THEN tmp[f] ELSE @]
  /\ tmp' = [tmp EXCEPT ![f] = Absent]
  /\ NoFault
  /\ UNCHANGED <<bak, pc, target, value, committed, attempted, crashes>>

\* Mutation: recovery deletes every tmp file, the only copy too.
recoverTempFileDrop(f) ==
  /\ pc = "recover" /\ f \in unrecovered
  /\ unrecovered' = unrecovered \ {f}
  /\ tmp' = [tmp EXCEPT ![f] = Absent]
  /\ NoFault
  /\ UNCHANGED <<file, bak, pc, target, value, committed, attempted, crashes>>

\* Mutation: recovery prefers the .bak file.
recoverTempFileFromBak(f) ==
  /\ pc = "recover" /\ f \in unrecovered
  /\ unrecovered' = unrecovered \ {f}
  /\ file' = [file EXCEPT ![f] = IF Exists(bak[f]) THEN bak[f] ELSE Recovered(f)]
  /\ tmp' = [tmp EXCEPT ![f] = Absent]
  /\ bak' = [bak EXCEPT ![f] = Absent]
  /\ NoFault
  /\ UNCHANGED <<pc, target, value, committed, attempted, crashes>>

\* A stat of the canonical file that fails is taken for a missing file, and
\* the tmp file is renamed over it; the other errors leave the files alone.
recoverTempFile(f) ==
  /\ pc = "recover" /\ f \in unrecovered
  /\ unrecovered' = unrecovered \ {f}
  /\ \/ NoFault /\ ~Exists(tmp[f]) /\ UNCHANGED fsVars
     \/ /\ NoFault /\ Exists(tmp[f]) /\ Exists(file[f])
        /\ tmp' = [tmp EXCEPT ![f] = Absent]
        /\ UNCHANGED <<file, bak>>
     \/ /\ NoFault /\ Exists(tmp[f]) /\ ~Exists(file[f])
        /\ file' = [file EXCEPT ![f] = tmp[f]]
        /\ tmp' = [tmp EXCEPT ![f] = Absent]
        /\ bak' = bak
     \/ Fault /\ UNCHANGED fsVars
     \/ /\ Fault /\ Exists(tmp[f])
        /\ file' = [file EXCEPT ![f] = tmp[f]]
        /\ tmp' = [tmp EXCEPT ![f] = Absent]
        /\ bak' = bak
  /\ UNCHANGED <<pc, target, value, committed, attempted, crashes>>

recoveryDone ==
  /\ pc = "recover" /\ unrecovered = {}
  /\ goto("idle")
  /\ UNCHANGED <<fsVars, target, value, unrecovered, committed, attempted, faults, crashes>>

-----------------------------------------------------------------------------
Init ==
  /\ file = [f \in Files |-> Absent]
  /\ tmp = [f \in Files |-> Absent]
  /\ bak = [f \in Files |-> Absent]
  /\ pc = "idle"
  /\ target \in Files /\ value \in Values
  /\ unrecovered = {}
  /\ committed = [f \in Files |-> Absent]
  /\ attempted = [f \in Files |-> {}]
  /\ faults = 0 /\ crashes = 0

Next ==
  \/ \E f \in Files, v \in Values : Begin(f, v)
  \/ openTmp \/ writeTmp \/ checkExists \/ removeBak \/ backup
  \/ install \/ restore \/ cleanup
  \/ Crash
  \/ \E f \in Files : recoverTempFile(f)
  \/ recoveryDone

Spec == Init /\ [][Next]_vars

Labels == {"idle", "open", "write", "exists", "removeBak", "backup", "install",
           "restore", "cleanup", "recover"}

Writing(f) == pc \notin {"idle", "recover"} /\ target = f

-----------------------------------------------------------------------------
(* Properties *)

\* Every variable has its type.
TypeOK ==
  /\ file \in [Files -> Values \cup {Absent, Partial}]
  /\ tmp \in [Files -> Values \cup {Absent, Partial}]
  /\ bak \in [Files -> Values \cup {Absent, Partial}]
  /\ pc \in Labels
  /\ target \in Files /\ value \in Values
  /\ unrecovered \in SUBSET Files
  /\ committed \in [Files -> Values \cup {Absent}]
  /\ attempted \in [Files -> SUBSET Values]
  /\ faults \in Nat /\ crashes \in Nat

ReadsCommitted == pc = "idle" => \A f \in Files : Readable(file[f]) = committed[f]

\* As long as no call has failed, reading a file while no write is under way
\* gives what the last write to it wrote, and after a crash what the recovery
\* that starts there could see.
CommittedIsReadable == faults = 0 => ReadsCommitted

\* A write that fails in one call, and returns false, changes nothing.
FailedWriteHarmless == faults <= 1 /\ crashes = 0 => ReadsCommitted

\* Once a write has succeeded, a complete copy remains in the directory, under
\* one of the three names, even when a failed write could not be undone, as
\* long as the process runs.
DataSurvives ==
  crashes = 0 => \A f \in Files :
    committed[f] # Absent => {file[f], tmp[f], bak[f]} \cap Values # {}

\* A file never falls back to older contents, with crashes and a failing call:
\* reading it gives the last ones written, ones whose write was tried later, or
\* nothing.
NoStaleRead ==
  faults <= 1 /\ pc = "idle" => \A f \in Files :
    Readable(file[f]) \in {committed[f], Absent} \cup attempted[f]

\* Why, as long as no call fails: where the complete contents are at each
\* call.  After the crash in the middle of a write the tmp file is taken only
\* when the canonical file is missing, and by then it is complete.
Settled(f) == tmp[f] = Absent /\ Readable(file[f]) = committed[f]

FileInv(f) ==
  /\ pc = "recover" /\ f \in unrecovered => Readable(Recovered(f)) = committed[f]
  /\ pc = "recover" /\ f \notin unrecovered => Settled(f)
  /\ pc # "recover" /\ ~Writing(f) => Settled(f)
  /\ Writing(f) =>
       /\ pc = "open" => Settled(f)
       /\ pc \in {"write", "exists", "removeBak", "backup"} =>
            Readable(file[f]) = committed[f]
       /\ pc = "write" => tmp[f] = Partial
       /\ pc \in {"exists", "removeBak", "backup", "install"} => tmp[f] = value
       /\ pc \in {"removeBak", "backup"} => Exists(file[f])
       /\ pc = "install" => file[f] = Absent
       /\ pc = "cleanup" => tmp[f] = Absent /\ file[f] = value
       /\ pc # "restore"

CrashInv == TypeOK /\ (faults = 0 => \A f \in Files : FileInv(f))

\* The files are atomic: a crash in the middle of a write, or of the recovery
\* from an earlier crash, leaves the old content or the new one.
Promise == INSTANCE AtomicFiles WITH
             content <- [f \in Files |-> Readable(Recovered(f))],
             before  <- committed,
             pending <- [f \in Files |-> IF Writing(f) THEN value ELSE Absent],
             failed  <- faults > 0

RefinesAtomicFiles == Promise!Spec

=============================================================================
