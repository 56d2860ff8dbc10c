--------------------------- MODULE MCRunLifecycle ---------------------------
(***************************************************************************)
(* Instances of RunLifecycle for TLC.                                      *)
(***************************************************************************)
EXTENDS RunLifecycle, TLC

CONSTANTS w1

(* Every run belongs to the one workflow. *)
OneWorkflow == [r \in Runs |-> w1]

(* The default deployment: one process is server, consumer and scheduler. *)
OneProcess == [x \in Slots \cup Callers |-> CHOOSE p \in Procs : TRUE]

(* One step that completes or fails, and fails the run. *)
WorkOnly == {[steps |-> <<"work">>, onError |-> "abort", onTimeout |-> "skip"]}

(* A park for a timer. *)
DelayOnly == {[steps |-> <<"delay">>, onError |-> "abort", onTimeout |-> "skip"]}

(* A refusal or a timeout lets the run go on, or ends it. *)
ApprovalBothWays ==
  {[steps |-> <<"approval", "work">>, onError |-> "continue", onTimeout |-> "skip"],
   [steps |-> <<"approval">>, onError |-> "abort", onTimeout |-> "abort"]}

(* Slots of one process, and requests, are alike. *)
Interchangeable == Permutations(ConsumerSlots) \cup Permutations(Requests)

=============================================================================
