----------------------------- MODULE Invocation -----------------------------
(* One run of the `wkp' binary (wkp-cli main.rs): what each subcommand checks  *)
(* before it does its work, the write sandbox some of them put on, the exit    *)
(* code, and the usage samples that main records on the way out: one under the *)
(* subcommand's name, and after it one under <name>.err if the code is not 0.  *)
(* Several processes run in the same store; `--sandbox podman' runs a second   *)
(* `wkp' inside a container and then counts itself too.                        *)
EXTENDS Naturals, Sequences, TLC

CONSTANTS
  Processes,
  Typed,          \* the subcommands that are typed
  MaxInvocations, \* bound: invocations
  MaxTroubles     \* bound: samples that fail to be written, and killed processes

VARIABLES
  proc, started, troubles,
  lost,           \* some sample could not be written
  landlock,       \* whether the kernel enforces the sandbox
  store,          \* the current directory has a .wkp/
  calls, errors,  \* samples of <name> and of <name>.err
  exits, failures \* history: exits that were seen in a store, and those not 0

invocationVars == <<proc, started, troubles, lost, landlock, store, calls, errors, exits, failures>>

-----------------------------------------------------------------------------

(* What an arm of dispatch does before and after its work.                     *)
Arm == [git |-> TRUE, help |-> TRUE, confined |-> FALSE, fails |-> TRUE]
Ungated == [Arm EXCEPT !.git = FALSE]
Confined == [Arm EXCEPT !.confined = TRUE]

SetupArms == [c \in {"init", "import"} |-> Arm]
ReadArms == [c \in {"search", "context", "traverse"} |-> Arm]
IndexArm == "index" :> Confined
MaterializeArm == "materialize" :> Arm
WriteArms == [c \in {"remember", "promote"} |-> Confined]
HubArm == "hub" :> Ungated
ForgetArm == "forget" :> Confined
PurgeArm == "purge" :> Arm
(* Whatever happens to the search, the prompt it is attached to goes on.       *)
HookArms == "hooks" :> Ungated @@ "prompt-hook" :> [Ungated EXCEPT !.fails = FALSE]
(* Run by git, which passes paths and no options.                              *)
GitArms == [c \in {"merge-driver", "filter"} |-> [Ungated EXCEPT !.help = FALSE]]
ResolveArm == "resolve-conflicts" :> Arm
SyncArm == "sync" :> Arm
BundleArm == "bundle" :> Arm
DaemonArm == "wkpd" :> Arm
UsageArm == "usage" :> Ungated

Arms == SetupArms @@ ReadArms @@ IndexArm @@ MaterializeArm @@ WriteArms @@ HubArm @@ ForgetArm
          @@ PurgeArm @@ HookArms @@ GitArms @@ ResolveArm @@ SyncArm @@ BundleArm @@ DaemonArm @@ UsageArm

Podman == "--sandbox"
Unnamed == {"", "--version", "frobnicate"}     \* no arm: nothing, an option, a typo
Names == DOMAIN Arms \cup Unnamed \cup {Podman}

Away == [at |-> "away", command |-> "", elsewhere |-> FALSE,
         outer |-> FALSE, confined |-> FALSE, code |-> 0, seen |-> FALSE,
         left |-> <<>>]

Trouble == troubles < MaxTroubles /\ troubles' = troubles + 1

Continues(p, r) ==
  /\ proc' = [proc EXCEPT ![p] = r]
  /\ UNCHANGED <<started, landlock>>

SamplesUnchanged == UNCHANGED <<troubles, lost, store, calls, errors, exits, failures>>

(* dispatch returns.                                                           *)
Returned(p, code) == [proc[p] EXCEPT !.at = "record", !.code = code]

-----------------------------------------------------------------------------

BeginRun(p) ==
  /\ proc[p] = Away /\ started < MaxInvocations
  /\ \E c \in Typed : proc' = [proc EXCEPT ![p] = [Away EXCEPT !.at = "dispatch", !.command = c]]
  /\ started' = started + 1
  /\ UNCHANGED landlock /\ SamplesUnchanged

(* --sandbox podman <command>: another backend and no command are errors.      *)
NoContainer(p) ==
  /\ proc[p].at = "dispatch" /\ proc[p].command = Podman
  /\ Continues(p, Returned(p, 1))
  /\ SamplesUnchanged

(* `wkp <command>' in a container that sees the current directory.             *)
RunInContainer(p) ==
  /\ proc[p].at = "dispatch" /\ proc[p].command = Podman
  /\ \E c \in Typed \ {Podman} : Continues(p, [proc[p] EXCEPT !.command = c, !.outer = TRUE])
  /\ SamplesUnchanged

Unknown(p) ==
  /\ proc[p].at = "dispatch" /\ proc[p].command \in Unnamed
  /\ Continues(p, Returned(p, IF proc[p].command = "--version" THEN 0 ELSE 1))
  /\ SamplesUnchanged

(* ensure_min_git_version.                                                     *)
CheckGit(p) ==
  /\ proc[p].at = "dispatch" /\ proc[p].command \in DOMAIN Arms
  /\ \/ Continues(p, [proc[p] EXCEPT !.at = "parse"])
     \/ Arms[proc[p].command].git /\ Continues(p, Returned(p, 1))
  /\ SamplesUnchanged

(* Help is looked for before the subcommand's own parser sees the arguments;   *)
(* the parser refuses them or names a store, here or elsewhere.                *)
Parse(p) ==
  /\ proc[p].at = "parse"
  /\ LET arm == Arms[proc[p].command]
     IN  \/ arm.help /\ Continues(p, Returned(p, 0))
         \/ Continues(p, Returned(p, 1))
         \/ \E elsewhere \in BOOLEAN :
              Continues(p, [proc[p] EXCEPT !.at = IF arm.confined THEN "confine" ELSE "work",
                                       !.elsewhere = elsewhere])
  /\ SamplesUnchanged

(* apply_write_sandbox: best effort, and a failed set-up is no failure.        *)
Confine(p) ==
  /\ proc[p].at = "confine"
  /\ \E done \in {TRUE, landlock} :
       Continues(p, [proc[p] EXCEPT !.at = "work", !.confined = done /\ landlock])
  /\ SamplesUnchanged

Work(p) ==
  /\ proc[p].at = "work"
  /\ \E ok \in {TRUE, ~Arms[proc[p].command].fails} :
       /\ Continues(p, Returned(p, IF ok THEN 0 ELSE 1))
       /\ store' = (store \/ (ok /\ proc[p].command = "init" /\ ~proc[p].elsewhere))
  /\ UNCHANGED <<troubles, lost, calls, errors, exits, failures>>

-----------------------------------------------------------------------------

MayWrite(p) == ~(proc[p].confined /\ proc[p].elsewhere)

\* fault: the failure is recorded before the call
Samples_ErrorFirst(p) == IF proc[p].code # 0 THEN <<"error", "call">> ELSE <<"call">>
Samples(p) == IF proc[p].code # 0 THEN <<"call", "error">> ELSE <<"call">>

(* record_invocation: nothing outside a store, and nothing if the database     *)
(* cannot be opened, which a sandbox put on for another directory forbids.     *)
OpenUsage(p) ==
  /\ proc[p].at = "record"
  /\ LET skip == [proc[p] EXCEPT !.at = "exit"]
     IN  IF ~store \/ proc[p].command = "" \/ ~MayWrite(p)
         THEN Continues(p, skip) /\ UNCHANGED <<troubles, lost>>
         ELSE \/ /\ Continues(p, [proc[p] EXCEPT !.at = "sample", !.left = Samples(p), !.seen = TRUE])
                 /\ UNCHANGED <<troubles, lost>>
              \/ Trouble /\ lost' = TRUE /\ Continues(p, skip)
  /\ UNCHANGED <<store, calls, errors, exits, failures>>

(* Each sample is a transaction of its own, and neither's failure is noticed.  *)
RecordSample(p) ==
  /\ proc[p].at = "sample"
  /\ LET c == proc[p].command
     IN  \/ /\ IF Head(proc[p].left) = "call"
                THEN calls' = [calls EXCEPT ![c] = @ + 1] /\ UNCHANGED errors
                ELSE errors' = [errors EXCEPT ![c] = @ + 1] /\ UNCHANGED calls
            /\ UNCHANGED <<troubles, lost>>
         \/ Trouble /\ lost' = TRUE /\ UNCHANGED <<calls, errors>>
  /\ Continues(p, [proc[p] EXCEPT !.left = Tail(@), !.at = IF Len(proc[p].left) = 1 THEN "exit" ELSE @])
  /\ UNCHANGED <<store, exits, failures>>

(* The process ends; in a container, so does the one that waits for it.        *)
ExitRun(p) ==
  /\ proc[p].at = "exit"
  /\ LET c == proc[p].command
         bad == proc[p].code # 0
     IN  /\ exits' = IF proc[p].seen THEN [exits EXCEPT ![c] = @ + 1] ELSE exits
         /\ failures' = IF proc[p].seen /\ bad THEN [failures EXCEPT ![c] = @ + 1] ELSE failures
  /\ Continues(p, IF proc[p].outer
              THEN [Away EXCEPT !.at = "record", !.command = Podman, !.code = proc[p].code]
              ELSE Away)
  /\ UNCHANGED <<troubles, lost, store, calls, errors>>

(* Killed, or a panic: nothing more is recorded.                               *)
Killed(p) ==
  /\ proc[p] # Away
  /\ Trouble
  /\ Continues(p, Away)
  /\ UNCHANGED <<lost, store, calls, errors, exits, failures>>

InvocationInit ==
  /\ proc = [p \in Processes |-> Away]
  /\ started = 0 /\ troubles = 0 /\ lost = FALSE
  /\ landlock \in BOOLEAN /\ store \in BOOLEAN
  /\ calls = [c \in Names |-> 0] /\ errors = [c \in Names |-> 0]
  /\ exits = [c \in Names |-> 0] /\ failures = [c \in Names |-> 0]

InvocationNext ==
  \E p \in Processes :
    \/ BeginRun(p) \/ NoContainer(p) \/ RunInContainer(p) \/ Unknown(p) \/ CheckGit(p)
    \/ Parse(p) \/ Confine(p) \/ Work(p) \/ OpenUsage(p) \/ RecordSample(p) \/ ExitRun(p) \/ Killed(p)

InvocationSpec == InvocationInit /\ [][InvocationNext]_invocationVars

-----------------------------------------------------------------------------

(* "`wkp usage' recovers the failure count from <tool>.err's own n and the     *)
(* success count as <tool>'s n minus it" (main.rs, error_metric_name): with    *)
(* any number of processes at once, nested in containers or not, the log never *)
(* has more failures than calls of a subcommand, and once they have all ended  *)
(* it has exactly those whose exit code was not 0; unless a sample could not   *)
(* be written.  A killed process may leave a call without its failure, never   *)
(* a failure without its call.                                                 *)
FailuresAreCalls ==
  \A c \in Names :
    /\ ~lost => errors[c] <= calls[c]
    /\ troubles = 0 /\ (\A p \in Processes : proc[p] = Away) =>
         calls[c] = exits[c] /\ errors[c] = failures[c]

=============================================================================
