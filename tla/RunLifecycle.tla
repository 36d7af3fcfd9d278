----------------------------- MODULE RunLifecycle -----------------------------
(***************************************************************************)
(* 'envtrap run' from boot to exit (RunCommand), and what it leaves        *)
(* outside its process: the temporary directory of CertificateAuthority    *)
(* and the system trust store of SystemCaTrust, which every run on the     *)
(* machine shares.                                                         *)
(*                                                                         *)
(* An action is what one run does up to the next point where a signal, an  *)
(* event or another run can come in between, or that may fail apart: each  *)
(* change of the disk and each external command is such a point, since a   *)
(* signal without a listener kills the process at once.                    *)
(***************************************************************************)
EXTENDS FiniteSets

CONSTANT Runs   \* the concurrent 'envtrap run' processes

(* "linux" stands for both kinds of Linux that injectSystemCA knows, "other" for
   the systems it does not know. *)
Platform == {"linux", "darwin", "win32", "other"}

VARIABLES
    platform,   \* process.platform
    canModify,  \* canModifyTrustStore(): not in CI, and root or Windows
    mitm,       \* mitmEnabled, by run
    trust,      \* external: the runs whose CA is in the trust store
    anchor,     \* external: {}, or the run whose certificate is in envtrap-ca.crt (Linux)
    owing,      \* runs that deleted envtrap-ca.crt since trust was last made from it
    refused,    \* the runs whose removeSystemCA caught an error, silently
    stuck,      \* the runs whose rmSync failed, silently
    installed,  \* did injectSystemCA install the CA of this run?
    pc,         \* where each run is
    tempDir,    \* does the temporary CA directory of the run exist?
    child,      \* "none", "running", "failed" (to spawn), "exited"
    outcome     \* why the run ended: "child", "signal", or a Failure

machine == <<platform, canModify, mitm>>
store   == <<trust, anchor, owing, refused, installed>>
vars    == <<machine, store, stuck, pc, tempDir, child, outcome>>

Alive   == {"idle", "made", "ca", "copied", "injected", "running", "reporting",
            "withdrawing", "unlinked", "cleaning"}
Ended   == {"exited", "killed"}
Failure == {"ca", "boot", "spawn", "report", "killed"}

Init ==
    /\ platform \in Platform /\ canModify \in BOOLEAN
    /\ mitm \in [Runs -> BOOLEAN]
    /\ trust = {} /\ anchor = {} /\ owing = {} /\ refused = {}
    /\ installed = [r \in Runs |-> FALSE]
    /\ pc = [r \in Runs |-> "idle"]
    /\ tempDir = [r \in Runs |-> FALSE] /\ stuck = {}
    /\ child = [r \in Runs |-> "none"]
    /\ outcome = [r \in Runs |-> "none"]

Goto(r, there) == pc' = [pc EXCEPT ![r] = there]

End(r, why) == Goto(r, "exited") /\ outcome' = [outcome EXCEPT ![r] = why]

(* cleanup: an rmSync that fails is not told, and not tried again. *)
Wipe(r) == \/ tempDir' = [tempDir EXCEPT ![r] = FALSE] /\ UNCHANGED stuck
           \/ tempDir[r] /\ stuck' = stuck \cup {r} /\ UNCHANGED tempDir

(* Mutation: without the 'exit' hook only handleExit and onSignal clean up. *)
ExitUnhooked(r, why) ==
    /\ End(r, why)
    /\ IF why \in {"child", "signal"} THEN Wipe(r) ELSE UNCHANGED <<tempDir, stuck>>

(* process.exit, or an uncaught error: the 'exit' hook of initCA runs. *)
Exit(r, why) == End(r, why) /\ Wipe(r)

-------------------------------------------------------------------------------
(* execute and bootMitm: initCA. *)

(* The keys, and mkdtempSync. *)
InitCA(r) ==
    /\ pc[r] = "idle" /\ mitm[r]
    /\ \/ /\ Goto(r, "made")
          /\ tempDir' = [tempDir EXCEPT ![r] = TRUE]
          /\ UNCHANGED outcome
       \/ End(r, "ca") /\ UNCHANGED tempDir
    /\ UNCHANGED <<machine, store, stuck, child>>

(* writeFileSync, and only then the 'exit' hook. *)
WriteCert(r) ==
    /\ pc[r] = "made"
    /\ \/ Goto(r, "ca") /\ UNCHANGED outcome
       \/ End(r, "ca")
    /\ UNCHANGED <<machine, store, stuck, tempDir, child>>

-------------------------------------------------------------------------------
(* injectSystemCA and removeSystemCA. *)

CanInject == canModify /\ platform # "other"

(* update-ca-certificates, update-ca-trust: the store is made from the file. *)
Rebuild == trust' = anchor /\ owing' = {}

(* Mutation: the name of the file is kept in place of the run. *)
TrustWithName(r) == trust \cup {"envtrap-ca"}

(* The keychain and the Windows store keep every certificate. *)
TrustWith(r) == trust \cup {r}

(* A command that fails, or is stopped at its timeout, may have done its work. *)
InjectSystemCA(r) ==
    /\ pc[r] = "ca"
    /\ \/ /\ CanInject /\ platform # "linux"
          /\ Goto(r, "injected")
          /\ \/ trust' = TrustWith(r) /\ installed' = [installed EXCEPT ![r] = TRUE]
             \/ trust' \in {trust, TrustWith(r)} /\ UNCHANGED installed
          /\ UNCHANGED anchor
       \/ /\ CanInject /\ platform = "linux"       \* copyFileSync
          /\ Goto(r, "copied")
          /\ anchor' = {r}
          /\ UNCHANGED <<trust, installed>>
       \/ /\ ~CanInject \/ platform = "linux"      \* no permission, or no copy
          /\ Goto(r, "injected")
          /\ UNCHANGED <<trust, anchor, installed>>
    /\ UNCHANGED <<machine, owing, refused, stuck, tempDir, child, outcome>>

UpdateWithCA(r) ==
    /\ pc[r] = "copied"
    /\ Goto(r, "injected")
    /\ \/ Rebuild /\ installed' = [installed EXCEPT ![r] = TRUE]
       \/ (Rebuild \/ UNCHANGED <<trust, owing>>) /\ UNCHANGED installed
    /\ UNCHANGED <<machine, anchor, refused, stuck, tempDir, child, outcome>>

(* Mutation: the certificate is withdrawn by its common name, all of them. *)
TrustWithoutAny(r) == {}

(* Windows deletes by the name that all runs use; the keychain is told which
   certificate by its file, which must still be there. *)
TrustWithout(r) == IF platform = "win32" THEN {}
                   ELSE IF tempDir[r] THEN trust \ {r} ELSE trust

Refuse(r) == refused' = refused \cup {r}

(* On Linux the file is unlinked, whoever wrote it, and nothing at all is done
   when it is not there. *)
RemoveSystemCA(r) ==
    /\ pc[r] = "withdrawing"
    /\ LET removes == mitm[r] /\ CanInject IN
       \/ /\ removes /\ platform # "linux"
          /\ Goto(r, "cleaning")
          /\ \/ trust' = TrustWithout(r) /\ UNCHANGED refused
             \/ trust' \in {trust, TrustWithout(r)} /\ Refuse(r)
          /\ UNCHANGED <<anchor, owing>>
       \/ /\ removes /\ platform = "linux" /\ anchor # {}
          /\ \/ /\ Goto(r, "unlinked")
                /\ anchor' = {} /\ owing' = owing \cup {r}
                /\ UNCHANGED refused
             \/ Goto(r, "cleaning") /\ Refuse(r) /\ UNCHANGED <<anchor, owing>>
          /\ UNCHANGED trust
       \/ /\ removes => platform = "linux" /\ anchor = {}
          /\ Goto(r, "cleaning")
          /\ UNCHANGED <<trust, anchor, owing, refused>>
    /\ UNCHANGED <<machine, installed, stuck, tempDir, child, outcome>>

UpdateWithoutCA(r) ==
    /\ pc[r] = "unlinked"
    /\ Goto(r, "cleaning")
    /\ \/ Rebuild /\ UNCHANGED refused
       \/ (Rebuild \/ UNCHANGED <<trust, owing>>) /\ Refuse(r)
    /\ UNCHANGED <<machine, anchor, installed, stuck, tempDir, child, outcome>>

-------------------------------------------------------------------------------
(* The child. *)

Booted(r) == pc[r] = "injected" \/ (pc[r] = "idle" /\ ~mitm[r])

(* Mutation: the directory is deleted as soon as the child has its environment. *)
SpawnAndWipe(r) ==
    /\ Booted(r)
    /\ Goto(r, "running")
    /\ \E c \in {"running", "failed"} : child' = [child EXCEPT ![r] = c]
    /\ tempDir' = [tempDir EXCEPT ![r] = FALSE]
    /\ UNCHANGED <<machine, store, stuck, outcome>>

(* The server is up: spawn the child and register the listeners. *)
Spawn(r) ==
    /\ Booted(r)
    /\ Goto(r, "running")
    /\ \E c \in {"running", "failed"} : child' = [child EXCEPT ![r] = c]
    /\ UNCHANGED <<machine, store, stuck, tempDir, outcome>>

(* server.start() or resolveHooks() fails: execute rejects, nobody handles it. *)
BootFails(r) ==
    /\ Booted(r)
    /\ Exit(r, "boot")
    /\ UNCHANGED <<machine, store, child>>

(* child.on('error'). *)
SpawnError(r) ==
    /\ pc[r] = "running" /\ child[r] = "failed"
    /\ Exit(r, "spawn")
    /\ UNCHANGED <<machine, store, child>>

-------------------------------------------------------------------------------
(* handleExit and onSignal. *)

ChildExits(r) ==
    /\ child[r] = "running"
    /\ child' = [child EXCEPT ![r] = "exited"]
    /\ UNCHANGED <<machine, store, stuck, pc, tempDir, outcome>>

ExitEvent(r) ==
    /\ pc[r] = "running" /\ child[r] = "exited"
    /\ Goto(r, "reporting")
    /\ outcome' = [outcome EXCEPT ![r] = "child"]
    /\ UNCHANGED <<machine, store, stuck, tempDir, child>>

WriteReport(r) ==
    /\ pc[r] = "reporting"
    /\ Goto(r, "withdrawing")
    /\ UNCHANGED <<machine, store, stuck, tempDir, child, outcome>>

(* writeFileSync throws: the listener of 'exit' has no handler for it. *)
ReportFails(r) ==
    /\ pc[r] = "reporting"
    /\ Exit(r, "report")
    /\ UNCHANGED <<machine, store, child>>

(* Mutation: a signal goes straight to the cleanup of the directory. *)
OnSignalSkipping(r) ==
    /\ pc[r] = "running"
    /\ Goto(r, "cleaning")
    /\ outcome' = [outcome EXCEPT ![r] = "signal"]
    /\ UNCHANGED <<machine, store, stuck, tempDir, child>>

OnSignal(r) ==
    /\ pc[r] = "running"
    /\ Goto(r, "withdrawing")
    /\ outcome' = [outcome EXCEPT ![r] = "signal"]
    /\ UNCHANGED <<machine, store, stuck, tempDir, child>>

(* Mutation: process.exit is reached only where there is a CA to clean up. *)
CleanupOfCA(r) ==
    /\ pc[r] = "cleaning" /\ mitm[r]
    /\ Exit(r, outcome[r])
    /\ UNCHANGED <<machine, store, child>>

Cleanup(r) ==
    /\ pc[r] = "cleaning"
    /\ Exit(r, outcome[r])
    /\ UNCHANGED <<machine, store, child>>

(* SIGKILL, or a signal while there is no listener: no hook of the process runs. *)
Killed(r) ==
    /\ pc[r] \in Alive \ {"idle"}
    /\ Goto(r, "killed")
    /\ outcome' = [outcome EXCEPT ![r] = "killed"]
    /\ UNCHANGED <<machine, store, stuck, tempDir, child>>

Step(r) == \/ InitCA(r) \/ WriteCert(r) \/ InjectSystemCA(r) \/ UpdateWithCA(r)
           \/ Spawn(r) \/ BootFails(r) \/ SpawnError(r) \/ ChildExits(r)
           \/ ExitEvent(r) \/ WriteReport(r) \/ ReportFails(r) \/ OnSignal(r)
           \/ RemoveSystemCA(r) \/ UpdateWithoutCA(r) \/ Cleanup(r) \/ Killed(r)

Next == \E r \in Runs : Step(r)

(* The event loop delivers the events of the child, the handlers run to their
   end, and the commands of removeSystemCA have a timeout; nothing is assumed
   of the child, of signals, or of the boot. *)
Fairness == \A r \in Runs :
    /\ WF_vars(SpawnError(r)) /\ WF_vars(ExitEvent(r))
    /\ WF_vars(WriteReport(r) \/ ReportFails(r))
    /\ WF_vars(RemoveSystemCA(r)) /\ WF_vars(UpdateWithoutCA(r)) /\ WF_vars(Cleanup(r))

Spec == Init /\ [][Next]_vars /\ Fairness

-------------------------------------------------------------------------------
TypeOK ==
    /\ platform \in Platform /\ canModify \in BOOLEAN /\ mitm \in [Runs -> BOOLEAN]
    /\ trust \subseteq Runs /\ anchor \subseteq Runs /\ owing \subseteq Runs
    /\ refused \subseteq Runs /\ installed \in [Runs -> BOOLEAN]
    /\ pc \in [Runs -> Alive \cup Ended]
    /\ tempDir \in [Runs -> BOOLEAN] /\ stuck \subseteq Runs
    /\ child \in [Runs -> {"none", "running", "failed", "exited"}]
    /\ outcome \in [Runs -> {"none", "child", "signal"} \cup Failure]

(* A run that was not killed leaves its temporary directory behind only if
   initCA itself failed, or rmSync did: cleanup and the 'exit' hook between
   them cover every other exit. *)
TempDirWiped ==
    \A r \in Runs : pc[r] = "exited" /\ tempDir[r] => outcome[r] = "ca" \/ r \in stuck

(* The run ended through handleExit or onSignal, and its removal met no error. *)
EndedClean(r) == pc[r] = "exited" /\ outcome[r] \in {"child", "signal"} /\ r \notin refused

(* A run that deleted the shared file and may have left the store as it was: it
   is about to update it, was killed before, or its update failed. *)
Owes(q) == q \in owing /\ (pc[q] \in {"unlinked", "killed"} \/ q \in refused)

(* A run that ended clean leaves its CA untrusted, with other runs installing,
   removing, failing and being killed in the same store at any moment, and
   although the certificate file is deleted at the same exit.  The one
   exception is on Linux: another run deleted the file they share and has not
   brought the store up to date. *)
TrustStoreClean ==
    \A r \in trust :
        EndedClean(r) => platform = "linux" /\ \E q \in Runs \ {r} : Owes(q)

(* The file NODE_EXTRA_CA_CERTS names exists for as long as the child is
   supervised: a runtime that starts late in the child still finds it. *)
CertFileServesChild ==
    \A r \in Runs : mitm[r] /\ pc[r] = "running" => tempDir[r]

(* On a store that tells certificates apart, another run ending or being
   killed never withdraws the CA of a run that still needs it. *)
TrustKept ==
    platform = "darwin" =>
        \A r \in Runs : installed[r] /\ pc[r] \in {"injected", "running", "reporting"}
                            => r \in trust

(* Why the properties above hold. *)

(* The directory lives from initCA to the exit. *)
CaDirLives == \A r \in Runs : mitm[r] /\ pc[r] \in Alive \ {"idle"} => tempDir[r]

(* What is trusted was put there by a run that may take it away again. *)
TrustedWasInjected ==
    \A r \in Runs : r \in trust \/ r \in anchor \/ installed[r] \/ pc[r] = "copied"
                       => mitm[r] /\ CanInject /\ pc[r] \notin {"idle", "made", "ca"}

(* Only a run that intercepts makes a CA, and only Linux has a file. *)
BootedWithProxy ==
    /\ \A r \in Runs : pc[r] \in {"made", "ca", "copied", "injected"} => mitm[r]
    /\ anchor # {} \/ owing # {} \/ (\E r \in Runs : pc[r] \in {"copied", "unlinked"})
          => platform = "linux"

(* When the file is gone from under what is trusted, some run owes the update. *)
MissingFileIsOwed == platform = "linux" /\ anchor = {} /\ trust # {} => owing # {}

(* Who owes it has not got beyond the update without an error. *)
OwingExplained == \A q \in owing : Owes(q)

(* A run past removeSystemCA has no certificate in the file, and none in the
   store unless another owes the update. *)
WithdrawnForGood ==
    \A r \in Runs \ refused :
        /\ pc[r] = "unlinked" => r \notin anchor
        /\ pc[r] = "cleaning" \/ EndedClean(r) =>
              /\ r \notin anchor
              /\ r \in trust => platform = "linux" /\ owing # {}

(* The inductive invariant of the runs. *)
IInv == /\ TypeOK /\ CaDirLives /\ TrustedWasInjected /\ BootedWithProxy
        /\ MissingFileIsOwed /\ OwingExplained /\ WithdrawnForGood
        /\ TempDirWiped /\ TrustKept

(* When the child is gone or was never there the run ends. *)
RunEnds ==
    \A r \in Runs : (pc[r] = "running" /\ child[r] # "running") ~> (pc[r] \in Ended)
===============================================================================
