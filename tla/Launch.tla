------------------------------- MODULE Launch -------------------------------
(***************************************************************************)
(* Starting and stopping a node, by its two entry points:                  *)
(*   - the mobile binding (src/src/peer/rpc.go, package mobile): New       *)
(*     checks the key, the number of peers and engine.Init, reports a      *)
(*     failure to the exceptionHandler and returns nil; Run; Shutdown;     *)
(*   - the command line (src/cmd/dag1): runDAG1 binds the flags and reads  *)
(*     the config file (bindFlagsLoadViper), then runSingleDAG1 creates    *)
(*     the app proxy, the engine and runs it; main exits with 1 when the   *)
(*     command returns an error, else 0.                                   *)
(* Key, peers, config file, proxy and engine are abstracted to whether    *)
(* the step that reads them succeeds.                                      *)
(***************************************************************************)
EXTENDS Integers

VARIABLES
    entry,      \* "none", "mobile" or "cli": the entry point used
    launch,     \* "init", "failed", "created", "running", "stopped"
    exception,  \* the mobile exceptionHandler was called
    cmdErr,     \* the cobra command returned an error
    exitCode    \* Running (-1) while the process runs, then 0 or 1

lvars == <<entry, launch, exception, cmdErr, exitCode>>

\* The process has not exited yet.
Running == -1

Init ==
    /\ entry = "none"
    /\ launch = "init"
    /\ exception = FALSE
    /\ cmdErr = FALSE
    /\ exitCode = Running

\* A failed start: New reports it and returns nil.
MobileFail ==
    /\ launch' = "failed"
    /\ exception' = TRUE

\* New(privKey, nodeAddr, participants, ...): ReadKeyFromBuf, the
\* two-peer check, then engine.Init.
MobileNew ==
    /\ launch = "init"
    /\ entry' = "mobile"
    /\ \E keyOk, twoPeers, initOk \in BOOLEAN :
          \/ ~keyOk /\ MobileFail
          \/ keyOk /\ ~twoPeers /\ MobileFail
          \/ keyOk /\ twoPeers /\ ~initOk /\ MobileFail
          \/ keyOk /\ twoPeers /\ initOk /\ launch' = "created" /\ UNCHANGED exception
    /\ UNCHANGED <<cmdErr, exitCode>>

\* Node.Run(async): node.Run or node.RunAsync.
MobileRun ==
    /\ entry = "mobile"
    /\ launch = "created"
    /\ launch' = "running"
    /\ UNCHANGED <<entry, exception, cmdErr, exitCode>>

\* Node.Shutdown: node.Shutdown, on a node that was run or not.
MobileShutdown ==
    /\ entry = "mobile"
    /\ launch \in {"created", "running"}
    /\ launch' = "stopped"
    /\ UNCHANGED <<entry, exception, cmdErr, exitCode>>

\* bindFlagsLoadViper: a config file that is found is read, a missing one
\* is skipped, any other read error is returned.
BindFlagsLoadViper(file) == file \in {"found", "missing"}

\* runSingleDAG1: without --standalone NewGrpcAppProxy may fail; then
\* engine.Init may fail; both are logged and the function returns nil.
\* Otherwise engine.Run blocks while the node runs.
RunSingleDAG1 ==
    \E standalone, proxyOk, initOk \in BOOLEAN :
        \/ ~standalone /\ ~proxyOk /\ launch' = "failed"
        \/ (standalone \/ proxyOk) /\ ~initOk /\ launch' = "failed"
        \/ (standalone \/ proxyOk) /\ initOk /\ launch' = "running"

\* The run command: flags and config first, then runSingleDAG1.
RunDAG1 ==
    /\ launch = "init"
    /\ entry' = "cli"
    /\ \E file \in {"found", "missing", "bad"} :
          \/ ~BindFlagsLoadViper(file) /\ launch' = "failed" /\ cmdErr' = TRUE
          \/ BindFlagsLoadViper(file) /\ RunSingleDAG1 /\ UNCHANGED cmdErr
    /\ UNCHANGED <<exception, exitCode>>

\* The node shuts down; engine.Run returns and runSingleDAG1 returns nil.
CliShutdown ==
    /\ entry = "cli"
    /\ launch = "running"
    /\ launch' = "stopped"
    /\ UNCHANGED <<entry, exception, cmdErr, exitCode>>

\* main: os.Exit(1) when rootCmd.Execute returns an error.
MainExit ==
    /\ entry = "cli"
    /\ launch \in {"failed", "stopped"}
    /\ exitCode = Running
    /\ exitCode' = IF cmdErr THEN 1 ELSE 0
    /\ UNCHANGED <<entry, launch, exception, cmdErr>>

Next ==
    \/ MobileNew \/ MobileRun \/ MobileShutdown
    \/ RunDAG1 \/ CliShutdown \/ MainExit

Spec == Init /\ [][Next]_lvars

-----------------------------------------------------------------------------
\* Type invariant.
TypeOK ==
    /\ entry \in {"none", "mobile", "cli"}
    /\ launch \in {"init", "failed", "created", "running", "stopped"}
    /\ exception \in BOOLEAN
    /\ cmdErr \in BOOLEAN
    /\ exitCode \in {Running, 0, 1}

\* Spec section 6, CLI surface: exit code 0 on clean shutdown, 1 on fatal
\* error.  A node that never ran (proxy or engine failed to start) must not
\* exit with 0.
ExitCodeReflectsFailure == exitCode = 0 => launch = "stopped"
=============================================================================
