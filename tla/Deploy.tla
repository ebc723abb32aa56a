------------------------------- MODULE Deploy -------------------------------
(***************************************************************************)
(* The deploy tool (scripts/src/main.rs with config.rs).  A run loads the  *)
(* key and the client's configuration, asks the chain for the account's    *)
(* keys, reads the WASM, shows a summary and waits for the operator, then  *)
(* sends one transaction that deploys the code and calls new, and reads    *)
(* the description back.  While it waits, files are edited, the WASM is    *)
(* rebuilt, keys are rotated, and another run may get there first.         *)
(*                                                                         *)
(* Of the contract's methods only new runs here: no other one touches what *)
(* a run of the tool reads.  A run that stops with an error before it has  *)
(* sent anything is left in the stage it stopped in.                       *)
(***************************************************************************)
EXTENDS MultiFeed

CONSTANTS
  Runs,          \* runs of the tool
  CommandLines,  \* the argument vectors tried
  Clients,       \* the names a section of deployments.toml may have
  Configs,       \* what such a section may say: the arguments of new and a description
  Wasms,         \* builds of the contract
  Keys,          \* key pairs
  Missing        \* no such file, variable, section or contract

ASSUME DeployAssumption ==
  /\ Missing \notin Configs \cup Wasms \cup Keys
  /\ \A config \in Configs : config.args \in InitArgs
  /\ 0 \in Deposits

VARIABLES
  env_key,       \* NEAR_PRIVATE_KEY of the .env file
  deployments,   \* deployments.toml: the configuration of each client
  wasm_file,     \* ../target/near/multi_feed.wasm
  account_keys,  \* the access keys of the client's account
  code,          \* the contract code of the client's account
  description,   \* the field of the contract state MultiFeed leaves out
  runs           \* the runs of the tool

files      == <<env_key, deployments, wasm_file>>
deployVars == <<vars, files, account_keys, code, description, runs>>

-----------------------------------------------------------------------------
(* Configuration                                                           *)

\* The argument after the first occurrence of flag, {} when there is none.
ParseFlag(args, flag) ==
  LET at == {i \in DOMAIN args : args[i] = flag}
  IN  {args[i + 1] : i \in {j \in at : j = Min(at) /\ j < Len(args)}}

\* dotenvy::from_path keeps a variable that the process already has.
PrivateKey(shell_key) == IF shell_key # Missing THEN shell_key ELSE env_key

DeployInit ==
  /\ Init
  /\ env_key \in Keys \cup {Missing}
  /\ deployments \in [Clients -> Configs \cup {Missing}]
  /\ wasm_file = Missing
  /\ account_keys \in SUBSET Keys
  /\ code = Missing
  /\ description = Missing
  /\ runs = [r \in Runs |-> [stage |-> "idle"]]

Moves(r, run) == runs' = [runs EXCEPT ![r] = run]

\* load_client up to its request for the account's keys.
LoadClient(r) ==
  /\ runs[r].stage = "idle"
  /\ \E args \in CommandLines, shell_key \in Keys \cup {Missing} :
       \E client \in ParseFlag(args, "--client") \cap Clients :
         /\ PrivateKey(shell_key) # Missing
         /\ deployments[client] # Missing
         /\ Moves(r, [stage |-> "loaded", key |-> PrivateKey(shell_key),
                      config |-> deployments[client]])
  /\ UNCHANGED <<vars, files, account_keys, code, description>>

\* The answer to list_keys has the key; then the WASM is read and the summary
\* shown.
Summarize(r) ==
  /\ runs[r].stage = "loaded"
  /\ runs[r].key \in account_keys
  /\ wasm_file # Missing
  /\ Moves(r, [stage |-> "prompting", key |-> runs[r].key, config |-> runs[r].config,
               wasm |-> wasm_file])
  /\ UNCHANGED <<vars, files, account_keys, code, description>>

\* Faulty: the WASM is read again once the operator has confirmed.
WasmToSendFresh(r) == wasm_file

WasmToSend(r) == runs[r].wasm

\* Enter, or the end of the input: read_line returns Ok(0) and is not asked.
\* shown is what the summary said.
Confirm(r) ==
  /\ runs[r].stage = "prompting"
  /\ Moves(r, [stage |-> "waiting", tx |-> "flying", key |-> runs[r].key,
               config |-> runs[r].config, wasm |-> WasmToSend(r),
               shown |-> [config |-> runs[r].config, wasm |-> runs[r].wasm]])
  /\ UNCHANGED <<vars, files, account_keys, code, description>>

Abort(r) ==
  /\ runs[r].stage = "prompting"
  /\ Moves(r, [stage |-> "aborted"])
  /\ UNCHANGED <<vars, files, account_keys, code, description>>

-----------------------------------------------------------------------------
(* The transaction: both actions take effect or none does                  *)

Flying(r) == runs[r].stage \in {"waiting", "failed"} /\ runs[r].tx = "flying"

Execute(r) ==
  /\ Flying(r)
  /\ runs[r].key \in account_keys
  /\ New(runs[r].config.args, 0)
  /\ code' = runs[r].wasm
  /\ description' = runs[r].config.description
  /\ Moves(r, [runs[r] EXCEPT !.tx = "success"])
  /\ UNCHANGED <<files, account_keys>>

NewAccepts(args) ==
  /\ NotInitialized
  /\ args.open_read_enabled => args.authorized_callers = <<>>
  /\ \A list \in {args.admins, args.products, args.price_reporters, args.authorized_callers} :
        IsInjective(list)

\* Faulty: the code is deployed by a transaction of its own.
CodeAfterRefusalDeployed(r) == IF runs[r].key \in account_keys THEN runs[r].wasm ELSE code

CodeAfterRefusal(r) == code

\* The key is gone, or new panics; the code goes back with the receipt.
Refuse(r) ==
  /\ Flying(r)
  /\ ~(runs[r].key \in account_keys /\ NewAccepts(runs[r].config.args))
  /\ code' = CodeAfterRefusal(r)
  /\ Moves(r, [runs[r] EXCEPT !.tx = "failure"])
  /\ UNCHANGED <<vars, files, account_keys, description>>

\* The transaction never executes.
Lose(r) ==
  /\ Flying(r)
  /\ Moves(r, [runs[r] EXCEPT !.tx = "failure"])
  /\ UNCHANGED <<vars, files, account_keys, code, description>>

\* assert_success
Answer(r) ==
  /\ runs[r].stage = "waiting"
  /\ runs[r].tx # "flying"
  /\ Moves(r, [runs[r] EXCEPT !.stage = IF runs[r].tx = "success" THEN "deployed" ELSE "failed"])
  /\ UNCHANGED <<vars, files, account_keys, code, description>>

\* send_to fails, whatever becomes of the transaction.
AnswerLost(r) ==
  /\ runs[r].stage = "waiting"
  /\ Moves(r, [runs[r] EXCEPT !.stage = "failed"])
  /\ UNCHANGED <<vars, files, account_keys, code, description>>

\* The description is read back and printed.
Verify(r) ==
  /\ runs[r].stage = "deployed"
  /\ Moves(r, [stage |-> "verified", config |-> runs[r].config, wasm |-> runs[r].wasm,
               shown |-> runs[r].shown, printed |-> description])
  /\ UNCHANGED <<vars, files, account_keys, code, description>>

-----------------------------------------------------------------------------
(* What goes on around the tool                                            *)

EditFiles ==
  /\ \/ env_key' \in Keys /\ UNCHANGED <<deployments, wasm_file>>
     \/ /\ \E client \in Clients, config \in Configs :
             deployments' = [deployments EXCEPT ![client] = config]
        /\ UNCHANGED <<env_key, wasm_file>>
     \/ wasm_file' \in Wasms /\ UNCHANGED <<env_key, deployments>>
  /\ UNCHANGED <<vars, account_keys, code, description, runs>>

RotateKeys ==
  /\ \E key \in Keys :
       account_keys' = IF key \in account_keys THEN account_keys \ {key}
                       ELSE account_keys \cup {key}
  /\ UNCHANGED <<vars, files, code, description, runs>>

RunStep(r) ==
  \/ LoadClient(r)
  \/ Summarize(r)
  \/ Confirm(r)
  \/ Abort(r)
  \/ Execute(r)
  \/ Refuse(r)
  \/ Lose(r)
  \/ Answer(r)
  \/ AnswerLost(r)
  \/ Verify(r)

DeployNext == (\E r \in Runs : RunStep(r)) \/ EditFiles \/ RotateKeys

DeploySpec == DeployInit /\ [][DeployNext]_deployVars

-----------------------------------------------------------------------------
(* Properties                                                              *)

\* The account holds this code, initialized with this configuration.
Holds(config, wasm) ==
  /\ initialized
  /\ code = wasm
  /\ description = config.description
  /\ owner = config.args.owner
  /\ IsOpenRead(flags) = config.args.open_read_enabled
  /\ admin = ToSet(config.args.admins)
  /\ products = ToSet(config.args.products)
  /\ price_reporters = ToSet(config.args.price_reporters)
  /\ authorized_callers = ToSet(config.args.authorized_callers)

\* Whatever was edited or rebuilt since the summary was shown (main.rs:27-52),
\* the account holds a build and a configuration that one run showed its
\* operator, both from the same summary.
ShownIsDeployed ==
  code # Missing =>
    \E r \in Runs : /\ runs[r].stage \in {"waiting", "failed", "deployed", "verified"}
                    /\ Holds(runs[r].shown.config, runs[r].shown.wasm)

\* "Deployed and initialized successfully." (main.rs:77) stays true: no later
\* or concurrent run replaces what this one deployed, and the description it
\* reads back is its own.
SuccessIsMine ==
  \A r \in Runs :
    /\ runs[r].stage \in {"deployed", "verified"} => Holds(runs[r].config, runs[r].wasm)
    /\ runs[r].stage = "verified" => runs[r].printed = runs[r].config.description

\* Code and state come together, once: neither a configuration that new
\* refuses nor a run against an account that is already initialized leaves the
\* account with new code and no state, or with new code over old state
\* (main.rs:58-74).
CodeIsInitialized ==
  /\ code # Missing <=> initialized
  /\ \A r \in Runs :
       runs[r].stage \in {"waiting", "failed"} /\ runs[r].tx = "success"
         => Holds(runs[r].config, runs[r].wasm)
=============================================================================
