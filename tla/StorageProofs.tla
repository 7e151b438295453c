--------------------------- MODULE StorageProofs ---------------------------
(***************************************************************************)
(* Until a system call fails, LevelDBManager's files are atomic under      *)
(* crashes at any point, for every set of files and contents and any       *)
(* number of crashes.                                                      *)
(***************************************************************************)
EXTENDS Storage, TLAPS

\* Initially nothing exists and nothing has been written.
LEMMA CrashInvInit == Init => CrashInv
  BY StorageAssumption
  DEF Init, CrashInv, TypeOK, FileInv, Settled, Writing, Readable, Labels

\* Every step keeps the types, whether calls fail or not, and takes no failure
\* and no crash back.
LEMMA TypeNext ==
  ASSUME TypeOK, [Next]_vars
  PROVE  TypeOK' /\ faults' >= faults /\ crashes' >= crashes
<1> USE StorageAssumption DEF TypeOK, Labels
<1> DEFINE Goal == TypeOK' /\ faults' >= faults /\ crashes' >= crashes
<1>1. ASSUME NEW f \in Files, NEW v \in Values, Begin(f, v) PROVE Goal
  BY <1>1 DEF Begin, goto, fsVars
<1>2. CASE openTmp
  BY <1>2 DEF openTmp, Fault, NoFault, Return, Continue, goto
<1>3. CASE writeTmp
  BY <1>3 DEF writeTmp, Fault, NoFault, Return, Continue, goto
<1>4. CASE checkExists
  BY <1>4 DEF checkExists, Fault, NoFault, Continue, goto, fsVars
<1>5. CASE removeBak
  BY <1>5 DEF removeBak, Fault, NoFault, Continue, goto
<1>6. CASE backup
  BY <1>6 DEF backup, Fault, NoFault, Return, Continue, goto
<1>7. CASE install
  BY <1>7 DEF install, Fault, NoFault, Continue, goto
<1>8. CASE restore
  BY <1>8 DEF restore, Fault, NoFault, Return, goto, fsVars
<1>9. CASE cleanup
  BY <1>9 DEF cleanup, Fault, NoFault, Return, goto
<1>10. CASE Crash
  BY <1>10 DEF Crash, goto, fsVars, Recovered
<1>11. ASSUME NEW f \in Files, recoverTempFile(f) PROVE Goal
  BY <1>11 DEF recoverTempFile, Fault, NoFault, fsVars
<1>12. CASE recoveryDone
  BY <1>12 DEF recoveryDone, goto, fsVars
<1>13. CASE UNCHANGED vars
  BY <1>13 DEF vars, fsVars
<1> QED
  BY <1>1, <1>2, <1>3, <1>4, <1>5, <1>6, <1>7, <1>8, <1>9, <1>10, <1>11, <1>12, <1>13
  DEF Next

\* A step after which no call has failed is one in which none fails.
LEMMA NoFaultYet ==
  ASSUME TypeOK, [Next]_vars, faults' = 0
  PROVE  faults = 0 /\ ~Fault
  BY TypeNext DEF TypeOK, Fault

\* Every system call, crash and recovery step keeps track of where the
\* complete contents are, until a call fails.
LEMMA CrashInvNext ==
  ASSUME CrashInv, [Next]_vars
  PROVE  CrashInv'
<1>a. TypeOK /\ TypeOK'
  BY TypeNext DEF CrashInv
<1> SUFFICES ASSUME faults' = 0 PROVE \A g \in Files : FileInv(g)'
  BY <1>a DEF CrashInv
<1> USE StorageAssumption DEF TypeOK, Labels
<1>0. ~Fault /\ \A g \in Files : FileInv(g)
  BY <1>a, NoFaultYet DEF CrashInv
<1> DEFINE Goal == \A g \in Files : FileInv(g)'
<1> USE <1>a, <1>0
<1>1. ASSUME NEW f \in Files, NEW v \in Values, Begin(f, v) PROVE Goal
  BY <1>1 DEF Begin, goto, fsVars, FileInv, Settled, Writing, Recovered
<1>2. CASE openTmp
  BY <1>2 DEF openTmp, NoFault, Return, Continue, goto, FileInv, Settled, Writing
<1>3. CASE writeTmp
  BY <1>3 DEF writeTmp, NoFault, Return, Continue, goto, FileInv, Settled, Writing
<1>4. CASE checkExists
  BY <1>4 DEF checkExists, NoFault, Return, Continue, goto, fsVars, FileInv, Settled,
     Writing, Readable, Exists
<1>5. CASE removeBak
  BY <1>5 DEF removeBak, NoFault, Return, Continue, goto, FileInv, Settled, Writing
<1>6. CASE backup
  BY <1>6 DEF backup, NoFault, Return, Continue, goto, FileInv, Settled, Writing
<1>7. CASE install
  BY <1>7 DEF install, NoFault, Return, Continue, goto, FileInv, Settled, Writing
<1>8. CASE restore
  BY <1>8 DEF restore, FileInv, Writing
<1>9. CASE cleanup
  BY <1>9 DEF cleanup, NoFault, Return, Continue, goto, FileInv, Settled, Writing, Readable
<1>10. CASE Crash
  BY <1>10 DEF Crash, goto, fsVars, FileInv, Settled, Writing, Recovered, Readable, Exists
<1>11. ASSUME NEW f \in Files, recoverTempFile(f) PROVE Goal
  BY <1>11 DEF recoverTempFile, NoFault, fsVars, FileInv, Settled, Recovered, Exists, Readable
<1>12. CASE recoveryDone
  BY <1>12 DEF recoveryDone, goto, fsVars, FileInv, Settled, Writing
<1>13. CASE UNCHANGED vars
  BY <1>13 DEF vars, fsVars, FileInv, Settled, Writing, Recovered
<1> QED
  BY <1>1, <1>2, <1>3, <1>4, <1>5, <1>6, <1>7, <1>8, <1>9, <1>10, <1>11, <1>12, <1>13
  DEF Next

\* The inductive invariant holds throughout.
THEOREM CrashInvariance == Spec => []CrashInv
<1>1. CrashInv /\ [Next]_vars => CrashInv'
  BY CrashInvNext
<1> QED
  BY CrashInvInit, <1>1, PTL DEF Spec

\* While no call has failed and no write is under way, a file reads as what was last written to it,
\* whatever crashes there were (atomicWrite, recoverTempFiles).
THEOREM CommittedReadable == Spec => []CommittedIsReadable
<1>1. CrashInv => CommittedIsReadable
  BY DEF CrashInv, FileInv, Settled, Writing, ReadsCommitted, CommittedIsReadable
<1> QED
  BY CrashInvariance, <1>1, PTL

-----------------------------------------------------------------------------
(* The refinement.  Only three calls change what a start would find or     *)
(* finish the write: writing the tmp file when there is no canonical file, *)
(* the rename of the canonical file to .bak, and the return.               *)

Content == [f \in Files |-> Readable(Recovered(f))]
Pending == [f \in Files |-> IF Writing(f) THEN value ELSE Absent]

\* Initial states map to initial states.
LEMMA RefinementInit == Init => Promise!Init
  BY StorageAssumption
  DEF Init, Promise!Init, Promise!Nothing, Readable, Recovered, Exists, Writing

\* What it takes for a call to be a Switch of the file being written.
LEMMA SwitchStep ==
  ASSUME TypeOK, faults' = 0, UNCHANGED <<committed, Pending>>,
         Pending[target] = value,
         \A g \in Files : g # target => Content'[g] = Content[g],
         Content'[target] \in {committed[target], value}
  PROVE  Promise!Next
<1>1. Content' = [Content EXCEPT ![target] = Content'[target]]
  BY DEF TypeOK, Content
<1>2. Pending[target] # Absent
  BY StorageAssumption DEF TypeOK
<1>3. Promise!Switch(target)
  BY <1>1, <1>2 DEF Promise!Switch, Content, Pending
<1> QED
  BY <1>3 DEF TypeOK, Promise!Next

\* Every step is a step of AtomicFiles, or changes none of its variables.
LEMMA RefinementNext ==
  ASSUME CrashInv, CrashInv', [Next]_vars
  PROVE  Promise!Next \/ UNCHANGED <<Content, committed, Pending, faults > 0>>
<1>a. TypeOK /\ TypeOK'
  BY DEF CrashInv
<1>b. CASE faults' # 0
  <2>1. (faults > 0)' = TRUE
    BY <1>a, <1>b DEF TypeOK
  <2> QED
    BY <2>1 DEF Promise!Next, Promise!Fail
<1> SUFFICES ASSUME faults' = 0
             PROVE  Promise!Next \/ UNCHANGED <<Content, committed, Pending, faults > 0>>
  BY <1>b
<1> USE StorageAssumption DEF TypeOK, Labels
<1> DEFINE Stutter == UNCHANGED <<Content, committed, Pending>>
<1>0. faults = 0 /\ ~Fault /\ \A g \in Files : FileInv(g) /\ FileInv(g)'
  BY <1>a, NoFaultYet DEF CrashInv
<1> USE <1>a, <1>0
<1>c. (faults > 0)' = FALSE /\ (faults > 0) = FALSE
  OBVIOUS
<1>1. ASSUME NEW f \in Files, NEW v \in Values, Begin(f, v) PROVE Promise!Begin(f)
  BY <1>1 DEF Begin, goto, fsVars, Promise!Begin, Promise!Nothing, Writing, Recovered
<1>2. CASE openTmp
  <2>1. Settled(target)
    BY <1>2 DEF openTmp, FileInv, Writing
  <2>2. \A g \in Files : Readable(Recovered(g))' = Readable(Recovered(g))
    BY <1>2, <2>1 DEF openTmp, NoFault, Settled, Recovered, Readable, Exists
  <2>3. \A g \in Files : Writing(g)' = Writing(g)
    BY <1>2 DEF openTmp, Continue, goto, Writing
  <2>4. UNCHANGED <<committed, value>>
    BY <1>2 DEF openTmp, Continue
  <2> QED
    BY <2>2, <2>3, <2>4 DEF Content, Pending
<1>3. CASE writeTmp
  <2>1. /\ tmp[target] = Partial
        /\ Readable(file[target]) = committed[target]
    BY <1>3 DEF writeTmp, FileInv, Writing
  <2>2. \A g \in Files : g # target => Readable(Recovered(g))' = Readable(Recovered(g))
    BY <1>3 DEF writeTmp, Recovered, Readable, Exists
  <2>3. Readable(Recovered(target))' \in {committed[target], value}
    BY <1>3, <2>1 DEF writeTmp, Recovered, Readable, Exists
  <2>4. \A g \in Files : Writing(g)' = Writing(g) /\ (Writing(g) <=> g = target)
    BY <1>3 DEF writeTmp, Continue, goto, Writing
  <2>5. UNCHANGED <<committed, value, target>>
    BY <1>3 DEF writeTmp, Continue
  <2> QED
    BY <2>2, <2>3, <2>4, <2>5, SwitchStep DEF Content, Pending
<1>4. CASE checkExists
  BY <1>4 DEF checkExists, NoFault, Continue, goto, fsVars, Writing,
     Content, Pending, Recovered, Readable, Exists
<1>5. CASE removeBak
  BY <1>5 DEF removeBak, NoFault, Continue, goto, Writing,
     Content, Pending, Recovered, Readable, Exists
<1>6. CASE backup
  <2>1. tmp[target] = value
    BY <1>6 DEF backup, FileInv, Writing
  <2>2. \A g \in Files : g # target => Readable(Recovered(g))' = Readable(Recovered(g))
    BY <1>6 DEF backup, Recovered, Readable, Exists
  <2>3. Readable(Recovered(target))' \in {committed[target], value}
    BY <1>6, <2>1 DEF backup, Recovered, Readable, Exists
  <2>4. \A g \in Files : Writing(g)' = Writing(g) /\ (Writing(g) <=> g = target)
    BY <1>6 DEF backup, Continue, goto, Writing
  <2>5. UNCHANGED <<committed, value, target>>
    BY <1>6 DEF backup, Continue
  <2> QED
    BY <2>2, <2>3, <2>4, <2>5, SwitchStep DEF Content, Pending
<1>7. CASE install
  BY <1>7 DEF install, NoFault, Continue, goto, FileInv, Writing,
     Content, Pending, Recovered, Readable, Exists
<1>8. CASE restore
  BY <1>8 DEF restore, FileInv, Writing
<1>9. CASE cleanup
  <2>1. file[target] = value /\ UNCHANGED <<file, tmp>>
    BY <1>9 DEF cleanup, FileInv, Writing
  <2>2. Content' = Content /\ Content[target] = value
    BY <2>1 DEF Content, Recovered, Readable, Exists
  <2>3. Content = [Content EXCEPT ![target] = value]
    BY <2>2 DEF Content
  <2>4. committed' = [committed EXCEPT ![target] = value]
    BY <1>9 DEF cleanup, Return
  <2>5. Pending[target] = value /\ Pending' = [f \in Files |-> Absent]
    BY <1>9 DEF cleanup, Return, goto, Writing, Pending
  <2>6. Promise!Succeed(target)
    BY <2>2, <2>3, <2>4, <2>5 DEF Promise!Succeed, Promise!Nothing, Content, Pending
  <2> QED
    BY <2>6 DEF Promise!Next
<1>10. CASE Crash
  <2>1. UNCHANGED fsVars
    BY <1>10 DEF Crash
  <2>2. Content' = Content
    BY <2>1 DEF Content, Recovered, fsVars
  <2>3. \A f \in Files : Recovered(f) \notin Values => committed[f] = Absent
    BY DEF FileInv, Settled, Writing, Recovered, Readable, Exists
  <2>4. committed' = Content
    BY <1>10, <2>3 DEF Crash, Content, Readable
  <2>5. Pending' = [f \in Files |-> Absent]
    BY <1>10 DEF Crash, goto, Writing, Pending
  <2>6. Promise!Crash
    BY <2>2, <2>4, <2>5 DEF Promise!Crash, Promise!Nothing, Content, Pending
  <2> QED
    BY <2>6 DEF Promise!Next
<1>11. ASSUME NEW f \in Files, recoverTempFile(f) PROVE Stutter
  BY <1>11 DEF recoverTempFile, NoFault, fsVars, Writing,
     Content, Pending, Recovered, Readable, Exists
<1>12. CASE recoveryDone
  BY <1>12 DEF recoveryDone, goto, fsVars, Writing, Content, Pending, Recovered
<1>13. CASE UNCHANGED vars
  BY <1>13 DEF vars, fsVars, Writing, Content, Pending, Recovered
<1>14. Promise!Next \/ Stutter
  <2>1. CASE \E f \in Files, v \in Values : Begin(f, v)
    BY <1>1, <1>c, <2>1 DEF Promise!Next
  <2> QED
    BY <2>1, <1>2, <1>3, <1>4, <1>5, <1>6, <1>7, <1>8, <1>9, <1>10, <1>11, <1>12, <1>13 DEF Next
<1> QED
  BY <1>14, <1>c

\* Until a call fails, LevelDBManager's files implement AtomicFiles: a
\* crash between any two calls leaves the old content or the new one.
THEOREM StorageIsAtomic == Spec => RefinesAtomicFiles
<1>1. CrashInv /\ CrashInv' /\ [Next]_vars
      => Promise!Next \/ UNCHANGED <<Content, committed, Pending, faults > 0>>
  BY RefinementNext
<1> QED
  BY CrashInvariance, RefinementInit, <1>1, PTL
  DEF Spec, RefinesAtomicFiles, Promise!Spec, Content, Pending

-----------------------------------------------------------------------------
(* Calls that fail.  One invariant for each promise, since each is about   *)
(* other failures: one failing call and no crash, any number of failing    *)
(* calls and no crash, one failing call and any number of crashes.         *)

\* Where the contents and the backup are while at most one call has failed and
\* the process has not crashed.  The only call that brings a backup back
\* follows the failing one, so the backup it finds is the one just made.
UndoneInv(f) ==
  /\ pc # "recover"
  /\ ~Writing(f) => file[f] = committed[f] /\ (faults = 0 => bak[f] = Absent)
  /\ Writing(f) =>
       /\ pc \in {"open", "write", "exists", "removeBak", "backup"} => file[f] = committed[f]
       /\ pc \in {"open", "write", "exists", "removeBak"} /\ faults = 0 => bak[f] = Absent
       /\ pc \in {"exists", "removeBak", "backup", "install"} => tmp[f] = value
       /\ pc = "install" /\ faults = 0 => file[f] = Absent /\ bak[f] = committed[f]
       /\ pc = "restore" => file[f] = Absent /\ bak[f] = committed[f]
       /\ pc = "cleanup" => file[f] = value

\* Where a complete copy is while the process has not crashed, whatever calls
\* have failed.  The tmp file does not count: the next write cuts it off.
CopyInv(f) ==
  /\ pc # "recover"
  /\ file[f] # Partial /\ bak[f] # Partial
  /\ committed[f] # Absent => Exists(file[f]) \/ Exists(bak[f])
  /\ Writing(f) =>
       /\ pc \in {"exists", "removeBak", "backup", "install"} => tmp[f] = value
       /\ pc \in {"removeBak", "backup"} => Exists(file[f])
       /\ pc = "cleanup" => file[f] = value

\* What may be read from f: nothing, or something not older than committed[f].
Current(f) == {committed[f], Absent, Partial} \cup attempted[f]

\* Why no old contents come back while at most one call has failed.  Crashes
\* leave old backups behind, but only next to a canonical file, which the next
\* write moves over them.
FreshInv(f) ==
  /\ file[f] \in Current(f)
  /\ tmp[f] \in {Absent, Partial} \cup attempted[f]
  /\ faults = 0 /\ Exists(bak[f]) => Exists(file[f]) \/ Exists(tmp[f])
  /\ Writing(f) =>
       /\ value \in attempted[f]
       /\ pc \in {"open", "write", "exists"} /\ faults = 0 /\ Exists(bak[f]) => Exists(file[f])
       /\ pc \in {"exists", "removeBak", "backup", "install"} => tmp[f] = value
       /\ pc = "install" /\ faults = 0 => bak[f] \in Current(f)
       /\ pc = "restore" => bak[f] \in Current(f)
       /\ pc = "cleanup" => file[f] = value /\ tmp[f] = Absent

FaultInv ==
  /\ CrashInv
  /\ faults <= 1 /\ crashes = 0 => \A f \in Files : UndoneInv(f)
  /\ crashes = 0 => \A f \in Files : CopyInv(f)
  /\ faults <= 1 => \A f \in Files : FreshInv(f)

\* Nothing exists and nothing is under way.
LEMMA FaultInvInit == Init => FaultInv
  BY CrashInvInit, StorageAssumption
  DEF Init, FaultInv, CrashInv, UndoneInv, CopyInv, FreshInv, Current, Writing, Exists

\* The failing call of a write is undone: each call keeps UndoneInv.
LEMMA UndoneNext ==
  ASSUME FaultInv, TypeOK', [Next]_vars, faults' <= 1, crashes' = 0
  PROVE  \A g \in Files : UndoneInv(g)'
<1> USE StorageAssumption DEF TypeOK, Labels
<1>a. TypeOK /\ faults \in 0..1 /\ crashes = 0 /\ faults' \in 0..1
  BY TypeNext DEF FaultInv, CrashInv
<1>b. \A g \in Files : UndoneInv(g) /\ (faults = 0 => FileInv(g))
  BY <1>a DEF FaultInv, CrashInv
<1> DEFINE Goal == \A g \in Files : UndoneInv(g)'
<1> USE <1>a, <1>b
<1>1. ASSUME NEW f \in Files, NEW v \in Values, Begin(f, v) PROVE Goal
  BY <1>1 DEF Begin, goto, fsVars, FileInv, Settled, UndoneInv, Writing, Exists
<1>2. CASE openTmp
  BY <1>2 DEF openTmp, Fault, NoFault, Return, Continue, goto, UndoneInv, Writing, Exists
<1>3. CASE writeTmp
  BY <1>3 DEF writeTmp, Fault, NoFault, Return, Continue, goto, UndoneInv, Writing, Exists
<1>4. CASE checkExists
  BY <1>4 DEF checkExists, Fault, NoFault, Continue, goto, fsVars, UndoneInv, Writing, Exists
<1>5. CASE removeBak
  BY <1>5 DEF removeBak, Fault, NoFault, Continue, goto, UndoneInv, Writing, Exists
<1>6. CASE backup
  BY <1>6 DEF backup, Fault, NoFault, Return, Continue, goto, UndoneInv, Writing, Exists
<1>7. CASE install
  BY <1>7 DEF install, Fault, NoFault, Continue, goto, UndoneInv, Writing, Exists
<1>8. CASE restore
  BY <1>8 DEF restore, Fault, NoFault, Return, goto, fsVars, FileInv, UndoneInv, Writing, Exists
<1>9. CASE cleanup
  BY <1>9 DEF cleanup, Fault, NoFault, Return, goto, UndoneInv, Writing, Exists
<1>10. CASE Crash
  BY <1>10 DEF Crash, goto, fsVars, Recovered, UndoneInv, Writing, Exists
<1>11. ASSUME NEW f \in Files, recoverTempFile(f) PROVE Goal
  BY <1>11 DEF recoverTempFile, Fault, NoFault, fsVars, UndoneInv, Writing, Exists
<1>12. CASE recoveryDone
  BY <1>12 DEF recoveryDone, goto, fsVars, FileInv, Settled, UndoneInv, Writing, Exists
<1>13. CASE UNCHANGED vars
  BY <1>13 DEF vars, fsVars, UndoneInv, Writing, Exists
<1> QED
  BY <1>1, <1>2, <1>3, <1>4, <1>5, <1>6, <1>7, <1>8, <1>9, <1>10, <1>11, <1>12, <1>13
  DEF Next

\* No call removes the last complete copy.
LEMMA CopyNext ==
  ASSUME FaultInv, TypeOK', [Next]_vars, crashes' = 0
  PROVE  \A g \in Files : CopyInv(g)'
<1> USE StorageAssumption DEF TypeOK, Labels
<1>a. TypeOK /\ crashes = 0
  BY TypeNext DEF FaultInv, CrashInv
<1>b. \A g \in Files : CopyInv(g) /\ (faults = 0 => FileInv(g))
  BY <1>a DEF FaultInv, CrashInv
<1> DEFINE Goal == \A g \in Files : CopyInv(g)'
<1> USE <1>a, <1>b
<1>1. ASSUME NEW f \in Files, NEW v \in Values, Begin(f, v) PROVE Goal
  BY <1>1 DEF Begin, goto, fsVars, FileInv, Settled, CopyInv, Writing, Exists
<1>2. CASE openTmp
  BY <1>2 DEF openTmp, Fault, NoFault, Return, Continue, goto, CopyInv, Writing, Exists
<1>3. CASE writeTmp
  BY <1>3 DEF writeTmp, Fault, NoFault, Return, Continue, goto, CopyInv, Writing, Exists
<1>4. CASE checkExists
  BY <1>4 DEF checkExists, Fault, NoFault, Continue, goto, fsVars, CopyInv, Writing, Exists
<1>5. CASE removeBak
  BY <1>5 DEF removeBak, Fault, NoFault, Continue, goto, CopyInv, Writing, Exists
<1>6. CASE backup
  BY <1>6 DEF backup, Fault, NoFault, Return, Continue, goto, CopyInv, Writing, Exists
<1>7. CASE install
  BY <1>7 DEF install, Fault, NoFault, Continue, goto, CopyInv, Writing, Exists
<1>8. CASE restore
  BY <1>8 DEF restore, Fault, NoFault, Return, goto, fsVars, CopyInv, Writing, Exists
<1>9. CASE cleanup
  BY <1>9 DEF cleanup, Fault, NoFault, Return, goto, CopyInv, Writing, Exists
<1>10. CASE Crash
  BY <1>10 DEF Crash, goto, fsVars, Recovered, CopyInv, Writing, Exists
<1>11. ASSUME NEW f \in Files, recoverTempFile(f) PROVE Goal
  BY <1>11 DEF recoverTempFile, Fault, NoFault, fsVars, CopyInv, Writing, Exists
<1>12. CASE recoveryDone
  BY <1>12 DEF recoveryDone, goto, fsVars, FileInv, Settled, CopyInv, Writing, Exists
<1>13. CASE UNCHANGED vars
  BY <1>13 DEF vars, fsVars, CopyInv, Writing, Exists
<1> QED
  BY <1>1, <1>2, <1>3, <1>4, <1>5, <1>6, <1>7, <1>8, <1>9, <1>10, <1>11, <1>12, <1>13
  DEF Next

\* No call and no crash brings old contents back.
LEMMA FreshNext ==
  ASSUME FaultInv, TypeOK', [Next]_vars, faults' <= 1
  PROVE  \A g \in Files : FreshInv(g)'
<1> USE StorageAssumption DEF TypeOK, Labels
<1>a. TypeOK /\ faults \in 0..1 /\ faults' \in 0..1
  BY TypeNext DEF FaultInv, CrashInv
<1>b. \A g \in Files : FreshInv(g) /\ (faults = 0 => FileInv(g))
  BY <1>a DEF FaultInv, CrashInv
<1> DEFINE Goal == \A g \in Files : FreshInv(g)'
<1> USE <1>a, <1>b
<1>1. ASSUME NEW f \in Files, NEW v \in Values, Begin(f, v) PROVE Goal
  BY <1>1 DEF Begin, goto, fsVars, FileInv, Settled, FreshInv, Writing, Exists, Current
<1>2. CASE openTmp
  BY <1>2 DEF openTmp, Fault, NoFault, Return, Continue, goto, FreshInv, Writing, Exists, Current
<1>3. CASE writeTmp
  BY <1>3 DEF writeTmp, Fault, NoFault, Return, Continue, goto, FreshInv, Writing, Exists, Current
<1>4. CASE checkExists
  BY <1>4 DEF checkExists, Fault, NoFault, Continue, goto, fsVars, FreshInv, Writing, Exists, Current
<1>5. CASE removeBak
  BY <1>5 DEF removeBak, Fault, NoFault, Continue, goto, FreshInv, Writing, Exists, Current
<1>6. CASE backup
  BY <1>6 DEF backup, Fault, NoFault, Return, Continue, goto, FreshInv, Writing, Exists, Current
<1>7. CASE install
  BY <1>7 DEF install, Fault, NoFault, Continue, goto, FreshInv, Writing, Exists, Current
<1>8. CASE restore
  BY <1>8 DEF restore, Fault, NoFault, Return, goto, fsVars, FreshInv, Writing, Exists, Current
<1>9. CASE cleanup
  BY <1>9 DEF cleanup, Fault, NoFault, Return, goto, FreshInv, Writing, Exists, Current
<1>10. CASE Crash
  BY <1>10 DEF Crash, goto, fsVars, Recovered, FreshInv, Writing, Exists, Current
<1>11. ASSUME NEW f \in Files, recoverTempFile(f) PROVE Goal
  BY <1>11 DEF recoverTempFile, Fault, NoFault, fsVars, FreshInv, Writing, Exists, Current
<1>12. CASE recoveryDone
  BY <1>12 DEF recoveryDone, goto, fsVars, FileInv, Settled, FreshInv, Writing, Exists, Current
<1>13. CASE UNCHANGED vars
  BY <1>13 DEF vars, fsVars, FreshInv, Writing, Exists, Current
<1> QED
  BY <1>1, <1>2, <1>3, <1>4, <1>5, <1>6, <1>7, <1>8, <1>9, <1>10, <1>11, <1>12, <1>13
  DEF Next

\* Every step keeps all of it.
LEMMA FaultInvNext == FaultInv /\ [Next]_vars => FaultInv'
<1> SUFFICES ASSUME FaultInv, [Next]_vars PROVE FaultInv'
  OBVIOUS
<1>1. CrashInv'
  BY CrashInvNext DEF FaultInv
<1>2. TypeOK'
  BY <1>1 DEF CrashInv
<1> QED
  BY <1>1, <1>2, UndoneNext, CopyNext, FreshNext DEF FaultInv

\* The three promises rest on one invariant.
LEMMA FaultInvariance == Spec => []FaultInv
  BY FaultInvInit, FaultInvNext, PTL DEF Spec

\* atomicWrite undoes a write in which one call failed: while the process has not crashed, a file
\* reads as before.
THEOREM FailedWritesHarmless == Spec => []FailedWriteHarmless
<1>1. FaultInv => FailedWriteHarmless
  BY StorageAssumption
  DEF FaultInv, CrashInv, TypeOK, UndoneInv, Writing, ReadsCommitted, Readable, FailedWriteHarmless
<1> QED
  BY FaultInvariance, <1>1, PTL

\* However many calls of atomicWrite fail, what was saved once stays in the directory as long as the
\* process runs.
THEOREM DataAlwaysSurvives == Spec => []DataSurvives
<1>1. FaultInv => DataSurvives
  BY StorageAssumption DEF FaultInv, CrashInv, TypeOK, CopyInv, Exists, DataSurvives
<1> QED
  BY FaultInvariance, <1>1, PTL

\* With any number of crashes and one failing call, in a write or in recoverTempFiles, no file
\* falls back to older contents.
THEOREM NothingStaleRead == Spec => []NoStaleRead
<1>1. FaultInv => NoStaleRead
  BY StorageAssumption
  DEF FaultInv, CrashInv, TypeOK, FreshInv, Current, Readable, NoStaleRead
<1> QED
  BY FaultInvariance, <1>1, PTL

=============================================================================
