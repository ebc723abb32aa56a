---------------------------- MODULE DeployProofs ----------------------------
(***************************************************************************)
(* Proofs about the deploy tool, for any number of runs, keys, builds and  *)
(* configurations.  The invariant says what a run that has sent its        *)
(* transaction remembers, and that the account holds what the one run that *)
(* succeeded has deployed.                                                 *)
(***************************************************************************)
EXTENDS Deploy, TLAPS

-----------------------------------------------------------------------------
(* The inductive invariant                                                 *)

Shown        == [config : Configs, wasm : Wasms]
Descriptions == {config.description : config \in Configs} \cup {Missing}

Before    == [stage : {"idle", "aborted"}]
Loaded    == [stage : {"loaded"}, key : Keys, config : Configs]
Prompting == [stage : {"prompting"}, key : Keys, config : Configs, wasm : Wasms]
Sent      == [stage : {"waiting", "failed", "deployed"}, tx : {"flying", "success", "failure"},
              key : Keys, config : Configs, wasm : Wasms, shown : Shown]
Verified  == [stage : {"verified"}, config : Configs, wasm : Wasms, shown : Shown,
              printed : Descriptions]

FilesOK ==
  /\ env_key \in Keys \cup {Missing}
  /\ deployments \in [Clients -> Configs \cup {Missing}]
  /\ wasm_file \in Wasms \cup {Missing}
  /\ description \in Descriptions

RunsOK == runs \in [Runs -> Before \cup Loaded \cup Prompting \cup Sent \cup Verified]

\* Whether the transaction of run is the one that deployed.
Succeeded(run) ==
  \/ run.stage \in {"waiting", "failed"} /\ run.tx = "success"
  \/ run.stage \in {"deployed", "verified"}

\* A run sends what it has shown, and what succeeded is on the account.
RunHolds(run) ==
  /\ run.stage \in {"waiting", "failed", "deployed", "verified"} =>
       run.shown = [config |-> run.config, wasm |-> run.wasm]
  /\ run.stage = "deployed" => run.tx = "success"
  /\ run.stage = "verified" => run.printed = run.config.description
  /\ Succeeded(run) => Holds(run.config, run.wasm)

DeployInv ==
  /\ FilesOK
  /\ RunsOK
  /\ code # Missing <=> initialized
  /\ initialized => \E r \in Runs : Succeeded(runs[r])
  /\ \A r \in Runs : RunHolds(runs[r])

-----------------------------------------------------------------------------
(* Steps                                                                   *)

\* A step that leaves the account alone and moves one run to a state that is
\* as good keeps the invariant.
LEMMA RunMoves ==
  ASSUME DeployInv, NEW r \in Runs, NEW run, Moves(r, run),
         run \in Before \cup Loaded \cup Prompting \cup Sent \cup Verified,
         RunHolds(run), Succeeded(runs[r]) => Succeeded(run),
         UNCHANGED <<vars, files, code, description>>
  PROVE  DeployInv'
<1>1. /\ runs' = [runs EXCEPT ![r] = run]
      /\ runs \in [Runs -> Before \cup Loaded \cup Prompting \cup Sent \cup Verified]
  BY DEF Moves, DeployInv, RunsOK
<1>2. RunsOK'
  BY <1>1 DEF RunsOK
<1>3. runs'[r] = run /\ \A s \in Runs \ {r} : runs'[s] = runs[s]
  BY <1>1
<1>4. UNCHANGED <<initialized, owner, flags, admin, products, price_reporters, authorized_callers,
                  code, description, env_key, deployments, wasm_file>>
  BY DEF vars, roles, files
<1>5. FilesOK'
  BY <1>4 DEF DeployInv, FilesOK
<1>6. (code # Missing <=> initialized)'
  BY <1>4 DEF DeployInv
<1>7. ASSUME initialized' PROVE \E s \in Runs : Succeeded(runs[s])'
  <2>1. PICK s \in Runs : Succeeded(runs[s])
    BY <1>4, <1>7 DEF DeployInv
  <2>2. Succeeded(runs'[s])
    BY <1>3, <2>1
  <2>3. Succeeded(runs[s])' = Succeeded(runs'[s])
    BY DEF Succeeded
  <2> QED BY <2>2, <2>3
<1>8. ASSUME NEW s \in Runs PROVE RunHolds(runs[s])'
  <2>1. RunHolds(runs'[s])
    BY <1>3 DEF DeployInv
  <2> QED BY <1>4, <2>1 DEF RunHolds, Holds, Succeeded
<1> QED BY <1>2, <1>5, <1>6, <1>7, <1>8 DEF DeployInv

\* The same when the account changes in its keys alone, or not at all.
LEMMA RunsStay ==
  ASSUME DeployInv, UNCHANGED <<vars, code, description, runs>>, FilesOK'
  PROVE  DeployInv'
<1>1. UNCHANGED <<initialized, owner, flags, admin, products, price_reporters, authorized_callers,
                  code, description, runs>>
  BY DEF vars, roles
<1> QED BY <1>1 DEF DeployInv, RunsOK, RunHolds, Succeeded, Holds

\* A run that gets as far as loading the client has one of its configurations.
LEMMA LoadClientStep ==
  ASSUME DeployInv, NEW r \in Runs, LoadClient(r)
  PROVE  DeployInv'
<1>1. PICK args \in CommandLines, shell_key \in Keys \cup {Missing} :
        \E client \in ParseFlag(args, "--client") \cap Clients :
          /\ PrivateKey(shell_key) # Missing
          /\ deployments[client] # Missing
          /\ Moves(r, [stage |-> "loaded", key |-> PrivateKey(shell_key),
                       config |-> deployments[client]])
  BY DEF LoadClient
<1>2. PICK client \in Clients :
          /\ PrivateKey(shell_key) # Missing
          /\ deployments[client] # Missing
          /\ Moves(r, [stage |-> "loaded", key |-> PrivateKey(shell_key),
                       config |-> deployments[client]])
  BY <1>1
<1> DEFINE run == [stage |-> "loaded", key |-> PrivateKey(shell_key), config |-> deployments[client]]
<1>3. run \in Loaded
  BY <1>2 DEF PrivateKey, Loaded, DeployInv, FilesOK
<1>4. RunHolds(run) /\ (Succeeded(runs[r]) => Succeeded(run))
  BY DEF LoadClient, RunHolds, Succeeded
<1>5. UNCHANGED <<vars, files, code, description>>
  BY DEF LoadClient
<1> QED BY <1>2, <1>3, <1>4, <1>5, RunMoves

\* The summary and the prompt.
LEMMA PromptSteps ==
  ASSUME DeployInv, NEW r \in Runs, Summarize(r) \/ Confirm(r) \/ Abort(r)
  PROVE  DeployInv'
<1>1. runs[r] \in Before \cup Loaded \cup Prompting \cup Sent \cup Verified
  BY DEF DeployInv, RunsOK
<1>2. CASE Summarize(r)
  <2> DEFINE run == [stage |-> "prompting", key |-> runs[r].key, config |-> runs[r].config,
                     wasm |-> wasm_file]
  <2>1. runs[r] \in Loaded /\ wasm_file \in Wasms
    BY <1>1, <1>2 DEF Summarize, Before, Loaded, Prompting, Sent, Verified, DeployInv, FilesOK
  <2>2. run \in Prompting
    BY <2>1 DEF Loaded, Prompting
  <2>3. RunHolds(run) /\ (Succeeded(runs[r]) => Succeeded(run))
    BY <1>2 DEF Summarize, RunHolds, Succeeded
  <2>4. Moves(r, run) /\ UNCHANGED <<vars, files, code, description>>
    BY <1>2 DEF Summarize
  <2> QED BY <2>2, <2>3, <2>4, RunMoves
<1>3. CASE Confirm(r)
  <2> DEFINE run == [stage |-> "waiting", tx |-> "flying", key |-> runs[r].key,
                     config |-> runs[r].config, wasm |-> WasmToSend(r),
                     shown |-> [config |-> runs[r].config, wasm |-> runs[r].wasm]]
  <2>1. runs[r] \in Prompting
    BY <1>1, <1>3 DEF Confirm, Before, Loaded, Prompting, Sent, Verified
  <2>2. run \in Sent
    BY <2>1 DEF Prompting, Sent, Shown, WasmToSend
  <2>3. RunHolds(run) /\ (Succeeded(runs[r]) => Succeeded(run))
    BY <1>3 DEF Confirm, RunHolds, Succeeded, WasmToSend
  <2>4. Moves(r, run) /\ UNCHANGED <<vars, files, code, description>>
    BY <1>3 DEF Confirm
  <2> QED BY <2>2, <2>3, <2>4, RunMoves
<1>4. CASE Abort(r)
  <2>1. [stage |-> "aborted"] \in Before
    BY DEF Before
  <2>2. /\ RunHolds([stage |-> "aborted"])
        /\ Succeeded(runs[r]) => Succeeded([stage |-> "aborted"])
    BY <1>4 DEF Abort, RunHolds, Succeeded
  <2>3. Moves(r, [stage |-> "aborted"]) /\ UNCHANGED <<vars, files, code, description>>
    BY <1>4 DEF Abort
  <2> QED BY <2>1, <2>2, <2>3, RunMoves
<1> QED BY <1>2, <1>3, <1>4

\* The transaction that does not take effect, and its outcome.
LEMMA OutcomeSteps ==
  ASSUME DeployInv, NEW r \in Runs,
         Refuse(r) \/ Lose(r) \/ Answer(r) \/ AnswerLost(r) \/ Verify(r)
  PROVE  DeployInv'
<1>1. runs[r] \in Sent /\ RunHolds(runs[r]) /\ description \in Descriptions
  BY DEF DeployInv, RunsOK, FilesOK, Before, Loaded, Prompting, Sent, Verified, Refuse, Lose,
         Answer, AnswerLost, Verify, Flying
<1>2. CASE Refuse(r) \/ Lose(r)
  <2> DEFINE run == [runs[r] EXCEPT !.tx = "failure"]
  <2>1. runs[r].tx = "flying" /\ runs[r].stage \in {"waiting", "failed"}
    BY <1>2 DEF Refuse, Lose, Flying
  <2>2. run \in Sent
    BY <1>1 DEF Sent
  <2>3. /\ run.stage = runs[r].stage
        /\ run.tx = "failure"
        /\ run.shown = runs[r].shown
        /\ run.config = runs[r].config
        /\ run.wasm = runs[r].wasm
    BY <1>1 DEF Sent
  <2>4. RunHolds(run) /\ (Succeeded(runs[r]) => Succeeded(run))
    <3> HIDE DEF run
    <3> QED BY <1>1, <2>1, <2>3 DEF RunHolds, Succeeded
  <2>5. Moves(r, run) /\ UNCHANGED <<vars, files, code, description>>
    BY <1>2 DEF Refuse, Lose, CodeAfterRefusal
  <2> QED BY <2>2, <2>4, <2>5, RunMoves
<1>3. CASE Answer(r) \/ AnswerLost(r)
  <2>1. PICK stage_ \in {"deployed", "failed"} :
          /\ Moves(r, [runs[r] EXCEPT !.stage = stage_])
          /\ stage_ = "deployed" => runs[r].tx = "success"
    BY <1>3 DEF Answer, AnswerLost
  <2> DEFINE run == [runs[r] EXCEPT !.stage = stage_]
  <2>2. run \in Sent
    BY <1>1 DEF Sent
  <2>3. /\ run.stage = stage_
        /\ run.tx = runs[r].tx
        /\ run.shown = runs[r].shown
        /\ run.config = runs[r].config
        /\ run.wasm = runs[r].wasm
        /\ runs[r].stage = "waiting"
    BY <1>1, <1>3 DEF Sent, Answer, AnswerLost
  <2>4. RunHolds(run) /\ (Succeeded(runs[r]) => Succeeded(run))
    <3> HIDE DEF run
    <3> QED BY <1>1, <2>1, <2>3 DEF RunHolds, Succeeded
  <2>5. UNCHANGED <<vars, files, code, description>>
    BY <1>3 DEF Answer, AnswerLost
  <2> QED BY <2>1, <2>2, <2>4, <2>5, RunMoves
<1>4. CASE Verify(r)
  <2> DEFINE run == [stage |-> "verified", config |-> runs[r].config, wasm |-> runs[r].wasm,
                     shown |-> runs[r].shown, printed |-> description]
  <2>1. run \in Verified
    BY <1>1 DEF Sent, Verified
  <2>2. Holds(runs[r].config, runs[r].wasm) /\ runs[r].stage = "deployed"
    BY <1>1, <1>4 DEF Verify, RunHolds, Succeeded
  <2>3. RunHolds(run) /\ (Succeeded(runs[r]) => Succeeded(run))
    BY <1>1, <2>2 DEF RunHolds, Succeeded, Holds
  <2>4. Moves(r, run) /\ UNCHANGED <<vars, files, code, description>>
    BY <1>4 DEF Verify
  <2> QED BY <2>1, <2>3, <2>4, RunMoves
<1> QED BY <1>2, <1>3, <1>4

\* What new leaves is the configuration it was given.
LEMMA NewHolds ==
  ASSUME NEW config \in Configs, NEW wasm, New(config.args, 0), code' = wasm,
         description' = config.description
  PROVE  Holds(config, wasm)'
<1>1. config.args \in NewArgs
  BY DeployAssumption, InputsAssumption
<1>2. IsOpenRead(NewFlags(FALSE, config.args.open_read_enabled)) = config.args.open_read_enabled
  <2>1. IsOpenRead(NewFlags(FALSE, TRUE)) = TRUE
    BY DEF IsOpenRead, BitIsSet, NewFlags, AsU8, OPEN_READ_MASK, PAUSED_MASK
  <2>2. IsOpenRead(NewFlags(FALSE, FALSE)) = FALSE
    BY DEF IsOpenRead, BitIsSet, NewFlags, AsU8, OPEN_READ_MASK, PAUSED_MASK
  <2>3. config.args.open_read_enabled \in {TRUE, FALSE}
    BY <1>1 DEF NewArgs
  <2>4. CASE config.args.open_read_enabled = TRUE
    BY <2>1, <2>4, Zenon
  <2>5. CASE config.args.open_read_enabled = FALSE
    BY <2>2, <2>5, Zenon
  <2> QED BY <2>3, <2>4, <2>5
<1>3. IsOpenRead(flags') = config.args.open_read_enabled
  BY <1>2 DEF New
<1>4. /\ initialized' = TRUE
      /\ owner' = config.args.owner
      /\ admin' = ToSet(config.args.admins)
      /\ products' = ToSet(config.args.products)
      /\ price_reporters' = ToSet(config.args.price_reporters)
      /\ authorized_callers' = ToSet(config.args.authorized_callers)
  BY DEF New
<1>5. IsOpenRead(flags)' = IsOpenRead(flags')
  BY DEF IsOpenRead, BitIsSet
<1> QED BY <1>3, <1>4, <1>5 DEF Holds

\* The transaction that takes effect is the first and the only one.
LEMMA ExecuteStep ==
  ASSUME DeployInv, NEW r \in Runs, Execute(r)
  PROVE  DeployInv'
<1> DEFINE run == [runs[r] EXCEPT !.tx = "success"]
<1>1. runs[r] \in Sent /\ RunHolds(runs[r])
  BY DEF DeployInv, RunsOK, Before, Loaded, Prompting, Sent, Verified, Execute, Flying
<1>2. /\ runs[r].config \in Configs
      /\ runs[r].wasm \in Wasms
      /\ runs[r].stage \in {"waiting", "failed"}
  BY <1>1 DEF Sent, Execute, Flying
<1>3. /\ run \in Sent
      /\ run.stage = runs[r].stage
      /\ run.tx = "success"
      /\ run.shown = runs[r].shown
      /\ run.config = runs[r].config
      /\ run.wasm = runs[r].wasm
  BY <1>1 DEF Sent
<1>4. ~initialized /\ initialized'
  BY DEF Execute, New, NotInitialized
<1>5. ASSUME NEW config, NEW wasm, config = runs[r].config, wasm = runs[r].wasm
      PROVE  Holds(config, wasm)'
  <2>1. New(config.args, 0) /\ code' = wasm /\ description' = config.description
    BY <1>5 DEF Execute
  <2> QED BY <1>2, <1>5, <2>1, NewHolds
<1>6. RunsOK' /\ runs'[r] = run /\ \A s \in Runs \ {r} : runs'[s] = runs[s]
  <2>1. /\ runs' = [runs EXCEPT ![r] = run]
        /\ runs \in [Runs -> Before \cup Loaded \cup Prompting \cup Sent \cup Verified]
    BY DEF Execute, Moves, DeployInv, RunsOK
  <2> HIDE DEF run
  <2> QED BY <1>3, <2>1 DEF RunsOK
<1>7. FilesOK'
  <2>1. description' \in Descriptions /\ UNCHANGED files
    BY <1>2 DEF Execute, Descriptions
  <2> QED BY <2>1 DEF FilesOK, files, DeployInv
<1>8. code' # Missing
  BY <1>2, DeployAssumption DEF Execute
<1>9. RunHolds(runs[r])'
  <2> HIDE DEF run
  <2>1. runs'[r].config = runs[r].config /\ runs'[r].wasm = runs[r].wasm
    BY <1>3, <1>6
  <2>2. Holds(runs[r].config, runs[r].wasm)'
    BY <1>5, <2>1 DEF Holds
  <2>3. /\ runs'[r].stage \in {"waiting", "failed"}
        /\ runs'[r].shown = [config |-> runs'[r].config, wasm |-> runs'[r].wasm]
    BY <1>1, <1>2, <1>3, <1>6, <2>1 DEF RunHolds
  <2> QED BY <2>2, <2>3 DEF RunHolds
<1>10. ASSUME NEW s \in Runs \ {r} PROVE RunHolds(runs[s])'
  <2>1. RunHolds(runs[s]) /\ runs'[s] = runs[s]
    BY <1>6 DEF DeployInv
  <2>2. ~Succeeded(runs[s])
    BY <1>4, <2>1 DEF RunHolds, Holds
  <2> QED BY <2>1, <2>2 DEF RunHolds, Succeeded
<1>11. Succeeded(runs[r])'
  <2> HIDE DEF run
  <2> QED BY <1>2, <1>3, <1>6 DEF Succeeded
<1> QED BY <1>4, <1>6, <1>7, <1>8, <1>9, <1>10, <1>11 DEF DeployInv

\* The invariant holds in every reachable state of the tool and the account.
LEMMA DeployInvariant == DeploySpec => []DeployInv
<1>1. DeployInit => DeployInv
  <2> SUFFICES ASSUME DeployInit PROVE DeployInv
    OBVIOUS
  <2>1. RunsOK
    BY DEF DeployInit, RunsOK, Before
  <2>2. \A r \in Runs : RunHolds(runs[r]) /\ ~Succeeded(runs[r])
    BY DEF DeployInit, RunHolds, Succeeded
  <2> QED BY <2>1, <2>2 DEF DeployInit, Init, DeployInv, FilesOK, Descriptions
<1>2. DeployInv /\ [DeployNext]_deployVars => DeployInv'
  <2> SUFFICES ASSUME DeployInv, [DeployNext]_deployVars PROVE DeployInv'
    OBVIOUS
  <2>1. ASSUME NEW r \in Runs, RunStep(r) PROVE DeployInv'
    BY <2>1, LoadClientStep, PromptSteps, OutcomeSteps, ExecuteStep DEF RunStep
  <2>2. CASE EditFiles
    <3>1. FilesOK'
      BY <2>2 DEF EditFiles, DeployInv, FilesOK
    <3> QED BY <2>2, <3>1, RunsStay DEF EditFiles
  <2>3. CASE RotateKeys
    <3>1. FilesOK'
      BY <2>3 DEF RotateKeys, files, DeployInv, FilesOK
    <3> QED BY <2>3, <3>1, RunsStay DEF RotateKeys
  <2>4. CASE UNCHANGED deployVars
    <3>1. FilesOK'
      BY <2>4 DEF deployVars, files, DeployInv, FilesOK
    <3> QED BY <2>4, <3>1, RunsStay DEF deployVars
  <2> QED BY <2>1, <2>2, <2>3, <2>4 DEF DeployNext
<1> QED BY <1>1, <1>2, PTL DEF DeploySpec

-----------------------------------------------------------------------------
(* The properties                                                          *)

\* The account holds what one run showed its operator, build and configuration
\* from one summary, whatever changed on disk since (main.rs:27-74).
THEOREM ShownStaysDeployed == DeploySpec => []ShownIsDeployed
<1>1. DeployInv => ShownIsDeployed
  <2> SUFFICES ASSUME DeployInv, code # Missing PROVE ShownIsDeployed
    BY DEF ShownIsDeployed
  <2>1. PICK r \in Runs : Succeeded(runs[r]) /\ RunHolds(runs[r])
    BY DEF DeployInv
  <2>2. runs[r].stage \in {"waiting", "failed", "deployed", "verified"}
    BY <2>1 DEF Succeeded
  <2>3. runs[r].shown = [config |-> runs[r].config, wasm |-> runs[r].wasm]
    BY <2>1, <2>2 DEF RunHolds
  <2>4. Holds(runs[r].shown.config, runs[r].shown.wasm)
    BY <2>1, <2>3 DEF RunHolds
  <2> QED BY <2>2, <2>4 DEF ShownIsDeployed
<1> QED BY <1>1, DeployInvariant, PTL

\* A run that reported success keeps its account, and reads back its own
\* description, whatever runs are started before or after (main.rs:76-86).
THEOREM SuccessStaysMine == DeploySpec => []SuccessIsMine
<1>1. DeployInv => SuccessIsMine
  BY DEF DeployInv, RunHolds, Succeeded, SuccessIsMine
<1> QED BY <1>1, DeployInvariant, PTL

\* Code and state come together and once (main.rs:58-74).
THEOREM CodeComesWithState == DeploySpec => []CodeIsInitialized
<1>1. DeployInv => CodeIsInitialized
  BY DEF DeployInv, RunHolds, Succeeded, CodeIsInitialized
<1> QED BY <1>1, DeployInvariant, PTL

\* A deployment is a step of the contract from its initial state: whatever
\* MultiFeedProofs shows of Spec holds of an account the tool works on.
THEOREM DeploymentUsesContract == DeploySpec => Spec
<1>1. DeployInit => Init
  BY DEF DeployInit
<1>2. DeployInv /\ [DeployNext]_deployVars => [Next]_vars
  <2> SUFFICES ASSUME DeployInv, [DeployNext]_deployVars PROVE [Next]_vars
    OBVIOUS
  <2>1. ASSUME NEW r \in Runs, Execute(r) PROVE Next
    <3>1. runs[r] \in Sent
      BY <2>1 DEF DeployInv, RunsOK, Before, Loaded, Prompting, Sent, Verified, Execute, Flying
    <3>2. runs[r].config.args \in InitArgs /\ 0 \in Deposits
      BY <3>1, DeployAssumption DEF Sent
    <3> QED BY <2>1, <3>2 DEF Execute, Next
  <2>2. ASSUME NEW r \in Runs, RunStep(r), ~Execute(r) PROVE UNCHANGED vars
    BY <2>2 DEF RunStep, LoadClient, Summarize, Confirm, Abort, Refuse, Lose, Answer, AnswerLost,
                Verify
  <2>3. EditFiles \/ RotateKeys \/ UNCHANGED deployVars => UNCHANGED vars
    BY DEF EditFiles, RotateKeys, deployVars
  <2> QED BY <2>1, <2>2, <2>3 DEF DeployNext
<1> QED BY <1>1, <1>2, DeployInvariant, PTL DEF DeploySpec, Spec
=============================================================================
