-------------------------- MODULE RunLifecycleProofs --------------------------
(* Theorems about RunLifecycle for every set of runs. *)
EXTENDS RunLifecycle, TLAPS

-------------------------------------------------------------------------------
(* Types. *)

(* The initial states are well typed. *)
LEMMA TypeInit == Init => TypeOK
BY DEF Init, TypeOK, Alive, Ended, Failure

(* Every step of a run keeps the type invariant. *)
LEMMA TypeStep == ASSUME TypeOK, NEW r \in Runs, Step(r) PROVE TypeOK'
<1> USE DEF TypeOK, machine, store, Goto, End, Wipe, Alive, Ended, Failure
<1>1. CASE InitCA(r)
  BY <1>1 DEF InitCA
<1>2. CASE WriteCert(r)
  BY <1>2 DEF WriteCert
<1>3. CASE InjectSystemCA(r)
  BY <1>3 DEF InjectSystemCA, TrustWith
<1>4. CASE UpdateWithCA(r)
  BY <1>4 DEF UpdateWithCA, Rebuild
<1>5. CASE Spawn(r)
  BY <1>5 DEF Spawn
<1>6. CASE BootFails(r)
  BY <1>6 DEF BootFails, Exit
<1>7. CASE SpawnError(r)
  BY <1>7 DEF SpawnError, Exit
<1>8. CASE ChildExits(r)
  BY <1>8 DEF ChildExits
<1>9. CASE ExitEvent(r)
  BY <1>9 DEF ExitEvent
<1>10. CASE WriteReport(r)
  BY <1>10 DEF WriteReport
<1>11. CASE ReportFails(r)
  BY <1>11 DEF ReportFails, Exit
<1>12. CASE OnSignal(r)
  BY <1>12 DEF OnSignal
<1>13. CASE RemoveSystemCA(r)
  BY <1>13 DEF RemoveSystemCA, TrustWithout, Refuse
<1>14. CASE UpdateWithoutCA(r)
  BY <1>14 DEF UpdateWithoutCA, Rebuild, Refuse
<1>15. CASE Cleanup(r)
  BY <1>15 DEF Cleanup, Exit
<1>16. CASE Killed(r)
  BY <1>16 DEF Killed
<1> QED BY <1>1, <1>2, <1>3, <1>4, <1>5, <1>6, <1>7, <1>8, <1>9, <1>10, <1>11,
           <1>12, <1>13, <1>14, <1>15, <1>16 DEF Step

(* Every variable keeps its type. *)
THEOREM TypeCorrect == Spec => []TypeOK
<1>1. TypeOK /\ [Next]_vars => TypeOK'
  BY TypeStep DEF Next, TypeOK, vars, machine, store
<1> QED BY <1>1, TypeInit, PTL DEF Spec

-------------------------------------------------------------------------------
(* The inductive invariant. *)

(* The initial states satisfy it: no run has begun. *)
LEMMA IInvInit == Init => IInv
BY TypeInit DEF Init, IInv, CaDirLives, TrustedWasInjected, BootedWithProxy, MissingFileIsOwed,
                OwingExplained, WithdrawnForGood, EndedClean, TempDirWiped, TrustKept, Alive

(* An exit tries to wipe the directory of the run and leaves the store alone. *)
LEMMA IInvExit ==
    ASSUME IInv, NEW r \in Runs, NEW why, Exit(r, why), pc[r] \in Alive,
           pc[r] \notin {"made", "copied", "unlinked"},
           why \in {"child", "signal"} => pc[r] = "cleaning",
           UNCHANGED <<store, machine>>
    PROVE  /\ CaDirLives' /\ TrustedWasInjected' /\ BootedWithProxy' /\ MissingFileIsOwed'
           /\ OwingExplained' /\ WithdrawnForGood' /\ TempDirWiped' /\ TrustKept'
<1> USE DEF IInv, TypeOK, Exit, End, Wipe, Goto, machine, store, Alive, CanInject
<1>1. CaDirLives'
  BY DEF CaDirLives
<1>2. TrustedWasInjected' /\ BootedWithProxy' /\ MissingFileIsOwed'
  BY DEF TrustedWasInjected, BootedWithProxy, MissingFileIsOwed
<1>3. OwingExplained'
  BY DEF OwingExplained, Owes
<1>4. WithdrawnForGood'
  BY DEF WithdrawnForGood, EndedClean
<1>5. TempDirWiped'
  BY DEF TempDirWiped
<1>6. TrustKept'
  BY DEF TrustKept
<1> QED BY <1>1, <1>2, <1>3, <1>4, <1>5, <1>6

(* A step that moves one run and leaves the store and the directories alone
   keeps the invariant, unless it claims that the certificate was withdrawn. *)
LEMMA IInvMove ==
    ASSUME IInv, NEW r \in Runs, pc[r] \in Alive,
           NEW there \in {"ca", "running", "reporting", "withdrawing", "killed"}, Goto(r, there),
           there = "ca" => pc[r] = "made",
           pc[r] = "idle" => ~mitm[r] /\ there # "ca",
           pc[r] \in {"made", "ca", "copied"} => there \in {"ca", "killed"},
           pc[r] = "unlinked" => there = "killed",
           there \in {"running", "reporting"} => pc[r] \in {"idle", "injected", "running"},
           \A q \in Runs \ {r} : outcome'[q] = outcome[q],
           UNCHANGED <<store, machine, tempDir, stuck>>
    PROVE  /\ CaDirLives' /\ TrustedWasInjected' /\ BootedWithProxy' /\ MissingFileIsOwed'
           /\ OwingExplained' /\ WithdrawnForGood' /\ TempDirWiped' /\ TrustKept'
<1> USE DEF IInv, TypeOK, Goto, machine, store, Alive, Ended, CanInject
<1>1. CaDirLives'
  BY DEF CaDirLives
<1>2. TrustedWasInjected' /\ BootedWithProxy' /\ MissingFileIsOwed'
  BY DEF TrustedWasInjected, BootedWithProxy, MissingFileIsOwed
<1>3. OwingExplained'
  BY DEF OwingExplained, Owes
<1>4. WithdrawnForGood'
  BY DEF WithdrawnForGood, EndedClean
<1>5. TempDirWiped'
  BY DEF TempDirWiped
<1>6. TrustKept'
  BY DEF TrustKept, TrustedWasInjected
<1> QED BY <1>1, <1>2, <1>3, <1>4, <1>5, <1>6

(* initCA makes the directory, or fails before there is one. *)
LEMMA IInvInitCA == ASSUME IInv, NEW r \in Runs, InitCA(r) PROVE IInv'
<1>1. TypeOK'
  BY TypeStep DEF IInv, Step
<1> USE DEF IInv, TypeOK, InitCA, Goto, End, machine, store, Alive, Ended, CanInject
<1>2. CaDirLives' /\ TempDirWiped'
  BY DEF CaDirLives, TempDirWiped
<1>3. TrustedWasInjected' /\ TrustKept' /\ BootedWithProxy' /\ MissingFileIsOwed'
  BY DEF TrustedWasInjected, TrustKept, BootedWithProxy, MissingFileIsOwed
<1>4. OwingExplained' /\ WithdrawnForGood'
  BY DEF OwingExplained, Owes, WithdrawnForGood, EndedClean
<1> QED BY <1>1, <1>2, <1>3, <1>4 DEF IInv

(* The certificate is written, or its directory stays behind. *)
LEMMA IInvWriteCert == ASSUME IInv, NEW r \in Runs, WriteCert(r) PROVE IInv'
<1>1. TypeOK'
  BY TypeStep DEF IInv, Step
<1> USE DEF IInv, TypeOK, WriteCert, Goto, End, machine, store, Alive, Ended, CanInject
<1>2. CaDirLives' /\ TempDirWiped'
  BY DEF CaDirLives, TempDirWiped
<1>3. TrustedWasInjected' /\ TrustKept' /\ BootedWithProxy' /\ MissingFileIsOwed'
  BY DEF TrustedWasInjected, TrustKept, BootedWithProxy, MissingFileIsOwed
<1>4. OwingExplained' /\ WithdrawnForGood'
  BY DEF OwingExplained, Owes, WithdrawnForGood, EndedClean
<1> QED BY <1>1, <1>2, <1>3, <1>4 DEF IInv

(* injectSystemCA adds this run to the store and no other, or puts its
   certificate in the place of another's, so nothing withdrawn comes back. *)
LEMMA IInvInjectSystemCA == ASSUME IInv, NEW r \in Runs, InjectSystemCA(r) PROVE IInv'
<1>1. TypeOK'
  BY TypeStep DEF IInv, Step
<1> USE DEF IInv, TypeOK, InjectSystemCA, TrustWith, Goto, machine, Alive, Ended, CanInject
<1>2. CaDirLives' /\ TempDirWiped'
  BY DEF CaDirLives, TempDirWiped
<1>3. TrustedWasInjected'
  BY DEF TrustedWasInjected, BootedWithProxy
<1>4. BootedWithProxy' /\ MissingFileIsOwed'
  BY DEF BootedWithProxy, MissingFileIsOwed
<1>5. OwingExplained'
  BY DEF OwingExplained, Owes
<1>6. WithdrawnForGood'
  BY DEF WithdrawnForGood, EndedClean
<1>7. TrustKept'
  BY DEF TrustKept, TrustedWasInjected
<1> QED BY <1>1, <1>2, <1>3, <1>4, <1>5, <1>6, <1>7 DEF IInv

(* The update makes the store from the file, in which no run that withdrew its
   certificate has one. *)
LEMMA IInvUpdateWithCA == ASSUME IInv, NEW r \in Runs, UpdateWithCA(r) PROVE IInv'
<1>1. TypeOK'
  BY TypeStep DEF IInv, Step
<1> USE DEF IInv, TypeOK, UpdateWithCA, Rebuild, Goto, machine, Alive, Ended, CanInject
<1>2. CaDirLives' /\ TempDirWiped'
  BY DEF CaDirLives, TempDirWiped
<1>3. TrustedWasInjected'
  BY DEF TrustedWasInjected, BootedWithProxy
<1>4. BootedWithProxy' /\ MissingFileIsOwed'
  BY DEF BootedWithProxy, MissingFileIsOwed
<1>5. OwingExplained'
  BY DEF OwingExplained, Owes
<1>6. WithdrawnForGood'
  BY DEF WithdrawnForGood, EndedClean
<1>7. TrustKept'
  BY DEF TrustKept, BootedWithProxy
<1> QED BY <1>1, <1>2, <1>3, <1>4, <1>5, <1>6, <1>7 DEF IInv

(* removeSystemCA takes this run out of the store, by its name or by its file,
   which is still there, and on macOS no other; or it takes the file they share
   away and owes the update; or the file is missing, and another owes it. *)
LEMMA IInvRemoveSystemCA == ASSUME IInv, NEW r \in Runs, RemoveSystemCA(r) PROVE IInv'
<1>1. TypeOK'
  BY TypeStep DEF IInv, Step
<1> USE DEF IInv, TypeOK, RemoveSystemCA, Refuse, TrustWithout, Goto, machine, Alive, Ended, CanInject
<1>2. CaDirLives' /\ TempDirWiped'
  BY DEF CaDirLives, TempDirWiped
<1>3. TrustedWasInjected'
  BY DEF TrustedWasInjected, BootedWithProxy
<1>4. BootedWithProxy' /\ MissingFileIsOwed'
  BY DEF BootedWithProxy, MissingFileIsOwed
<1>5. OwingExplained'
  BY DEF OwingExplained, Owes
<1>6. WithdrawnForGood'
  <2> USE DEF WithdrawnForGood, EndedClean
  <2>1. \A q \in Runs \ {r} : q \notin refused' =>
          /\ pc'[q] = "unlinked" => q \notin anchor'
          /\ pc'[q] = "cleaning" \/ EndedClean(q)' =>
                q \notin anchor' /\ (q \in trust' => platform' = "linux" /\ owing' # {})
    OBVIOUS
  <2>2. r \notin refused' =>
          /\ pc'[r] = "unlinked" => r \notin anchor'
          /\ pc'[r] = "cleaning" \/ EndedClean(r)' =>
                r \notin anchor' /\ (r \in trust' => platform' = "linux" /\ owing' # {})
    BY DEF TrustedWasInjected, CaDirLives, MissingFileIsOwed, BootedWithProxy
  <2> QED BY <2>1, <2>2
<1>7. TrustKept'
  BY DEF TrustKept
<1> QED BY <1>1, <1>2, <1>3, <1>4, <1>5, <1>6, <1>7 DEF IInv

(* Once the update is done nobody owes one, and a failed one stays owed. *)
LEMMA IInvUpdateWithoutCA == ASSUME IInv, NEW r \in Runs, UpdateWithoutCA(r) PROVE IInv'
<1>1. TypeOK'
  BY TypeStep DEF IInv, Step
<1> USE DEF IInv, TypeOK, UpdateWithoutCA, Rebuild, Refuse, Goto, machine, Alive, Ended, CanInject
<1>2. CaDirLives' /\ TempDirWiped'
  BY DEF CaDirLives, TempDirWiped
<1>3. TrustedWasInjected'
  BY DEF TrustedWasInjected, BootedWithProxy
<1>4. BootedWithProxy' /\ MissingFileIsOwed'
  BY DEF BootedWithProxy, MissingFileIsOwed
<1>5. OwingExplained'
  BY DEF OwingExplained, Owes
<1>6. WithdrawnForGood'
  BY DEF WithdrawnForGood, EndedClean
<1>7. TrustKept'
  BY DEF TrustKept, BootedWithProxy
<1> QED BY <1>1, <1>2, <1>3, <1>4, <1>5, <1>6, <1>7 DEF IInv

(* The end of the child changes nothing the invariant names. *)
LEMMA IInvChildExits == ASSUME IInv, NEW r \in Runs, ChildExits(r) PROVE IInv'
<1>1. TypeOK'
  BY TypeStep DEF IInv, Step
<1> QED BY <1>1 DEF IInv, ChildExits, machine, store, CaDirLives, TrustedWasInjected, CanInject,
        BootedWithProxy, MissingFileIsOwed, OwingExplained, Owes, WithdrawnForGood, EndedClean,
        TempDirWiped, TrustKept

(* Every step of a run keeps the invariant. *)
LEMMA IInvStep == ASSUME IInv, NEW r \in Runs, Step(r) PROVE IInv'
<1>1. TypeOK' /\ TypeOK
  BY TypeStep DEF IInv
<1>2. CASE InitCA(r)
  BY <1>2, IInvInitCA
<1>3. CASE WriteCert(r)
  BY <1>3, IInvWriteCert
<1>4. CASE InjectSystemCA(r)
  BY <1>4, IInvInjectSystemCA
<1>5. CASE UpdateWithCA(r)
  BY <1>5, IInvUpdateWithCA
<1>6. CASE RemoveSystemCA(r)
  BY <1>6, IInvRemoveSystemCA
<1>7. CASE UpdateWithoutCA(r)
  BY <1>7, IInvUpdateWithoutCA
<1>8. CASE ChildExits(r)
  BY <1>8, IInvChildExits
<1>9. CASE Spawn(r)
  BY <1>1, <1>9, IInvMove DEF Spawn, Booted, Alive, machine, store, IInv
<1>10. CASE ExitEvent(r)
  BY <1>1, <1>10, IInvMove DEF ExitEvent, Alive, machine, store, IInv, TypeOK
<1>11. CASE WriteReport(r)
  BY <1>1, <1>11, IInvMove DEF WriteReport, Alive, machine, store, IInv
<1>12. CASE OnSignal(r)
  BY <1>1, <1>12, IInvMove DEF OnSignal, Alive, machine, store, IInv, TypeOK
<1>13. CASE Killed(r)
  BY <1>1, <1>13, IInvMove DEF Killed, Alive, machine, store, IInv, TypeOK
<1>14. CASE BootFails(r)
  BY <1>1, <1>14, IInvExit DEF BootFails, Booted, Alive, IInv
<1>15. CASE SpawnError(r)
  BY <1>1, <1>15, IInvExit DEF SpawnError, Alive, IInv
<1>16. CASE ReportFails(r)
  BY <1>1, <1>16, IInvExit DEF ReportFails, Alive, IInv
<1>17. CASE Cleanup(r)
  BY <1>1, <1>17, IInvExit DEF Cleanup, Alive, IInv
<1> QED BY <1>2, <1>3, <1>4, <1>5, <1>6, <1>7, <1>8, <1>9, <1>10, <1>11, <1>12,
           <1>13, <1>14, <1>15, <1>16, <1>17 DEF Step

-------------------------------------------------------------------------------
(* The theorems. *)

(* The inductive invariant holds of every behaviour, whatever the runs. *)
THEOREM Invariance == Spec => []IInv
<1>1. IInv /\ [Next]_vars => IInv'
  <2> SUFFICES ASSUME IInv, UNCHANGED vars PROVE IInv'
    BY IInvStep DEF Next
  <2> QED BY DEF IInv, TypeOK, vars, machine, store, CaDirLives, TrustedWasInjected, CanInject,
             BootedWithProxy, MissingFileIsOwed, OwingExplained, Owes, WithdrawnForGood,
             EndedClean, TempDirWiped, TrustKept
<1> QED BY <1>1, IInvInit, PTL DEF Spec

(* A run that exits leaves its temporary directory only if initCA failed
   before the exit hook was there, or the deletion itself failed. *)
THEOREM DirectoryWiped == Spec => []TempDirWiped
<1>1. IInv => TempDirWiped
  BY DEF IInv
<1> QED BY <1>1, Invariance, PTL

(* A run that ended through handleExit or onSignal with no error leaves its CA
   trusted only where another run on Linux owes the update of the store. *)
THEOREM StoreClean == Spec => []TrustStoreClean
<1>1. IInv => TrustStoreClean
  <2> SUFFICES ASSUME IInv, NEW r \in trust, EndedClean(r)
               PROVE  platform = "linux" /\ \E q \in Runs \ {r} : Owes(q)
    BY DEF TrustStoreClean
  <2>1. r \in Runs /\ platform = "linux" /\ owing # {}
    BY DEF IInv, TypeOK, WithdrawnForGood, EndedClean
  <2>2. PICK q \in owing : Owes(q)
    BY <2>1 DEF IInv, OwingExplained
  <2>3. q \in Runs /\ q # r
    BY <2>2 DEF IInv, TypeOK, Owes, EndedClean
  <2> QED BY <2>1, <2>2, <2>3
<1> QED BY <1>1, Invariance, PTL

(* The certificate file is there for as long as the child is supervised. *)
THEOREM FileServesChild == Spec => []CertFileServesChild
<1>1. IInv => CertFileServesChild
  BY DEF IInv, CaDirLives, CertFileServesChild, Alive
<1> QED BY <1>1, Invariance, PTL

(* On macOS no run loses its CA to another. *)
THEOREM OwnTrustKept == Spec => []TrustKept
<1>1. IInv => TrustKept
  BY DEF IInv
<1> QED BY <1>1, Invariance, PTL

===============================================================================
