--------------------------- MODULE VerifyCommand ---------------------------
(***************************************************************************)
(* What single-file and batch verification share (commands/verify.rs,      *)
(* cli/args.rs, error.rs): the flags, settling the mode, and turning a     *)
(* verdict and a deferred failure into the exit code.                      *)
(***************************************************************************)
EXTENDS Verdicts

Flags == {"auto", "offline", "online"}
Modes == {"Offline", "Online"}

(* Failures that are carried past the verdict instead of returned.         *)
Deferrals == {"None", "NoInternetConnection", "NetworkError"}

(* A mutant of Probes: the caller's flag alone decides.                    *)
ProbesByFlag(flag, needsNetwork) == flag # "offline"

(* Settling the mode asks the network for an answer only when something    *)
(* needs it and the caller did not forbid it.                              *)
Probes(flag, needsNetwork) == flag # "offline" /\ needsNetwork

(* A mutant of Settled: --online is reported as asked for, although nothing *)
(* needed the network.                                                     *)
SettledAsAsked(flag, needsNetwork, connected, runtime) ==
  LET outcome(mode, deferred) == [mode |-> mode, deferred |-> deferred]
  IN IF ~Probes(flag, needsNetwork)
     THEN outcome(IF flag = "online" THEN "Online" ELSE "Offline", "None")
     ELSE IF ~connected
     THEN outcome("Offline", IF flag = "online" THEN "NoInternetConnection" ELSE "None")
     ELSE IF runtime THEN outcome("Online", "None")
     ELSE outcome("Offline", "NetworkError")

(* A network pass is entered only when the probe is answered and a runtime *)
(* can be built; `connected` and `runtime` say whether they were.          *)
Settled(flag, needsNetwork, connected, runtime) ==
  LET outcome(mode, deferred) == [mode |-> mode, deferred |-> deferred]
  IN IF ~Probes(flag, needsNetwork) THEN outcome("Offline", "None")
     ELSE IF ~connected
     THEN outcome("Offline", IF flag = "online" THEN "NoInternetConnection" ELSE "None")
     ELSE IF runtime THEN outcome("Online", "None")
     ELSE outcome("Offline", "NetworkError")

ExitCodes == 0..3

ExitOf(status) ==
  IF status = "Valid" THEN 0
  ELSE IF status = "Invalid" THEN 1
  ELSE IF status = "Error" THEN 2
  ELSE 3

(* verify_single returns an error instead of a result when a file cannot   *)
(* be read as what it should be, or when atl-core itself returns one.      *)
PairErrors == {"Unreadable", "VerificationFailed"}

ErrorCode(error) == IF error = "VerificationFailed" THEN 1 ELSE 2

(* A mutant of ExitCode: the deferred failure first.                       *)
DeferredFirst(status, deferred) == IF deferred # "None" THEN 2 ELSE ExitOf(status)

(* The verdict first, the inability second.                                *)
ExitCode(status, deferred) ==
  IF status = "Valid" /\ deferred # "None" THEN 2 ELSE ExitOf(status)
=============================================================================
