--------------------------- MODULE DeliveryBudget ---------------------------
(***************************************************************************)
(* The worker budget of one local delivery (resolveLocalDelivery).  One    *)
(* errgroup runs the build goroutine and one goroutine per mirrored image; *)
(* a channel of capacity Parallelism is the budget they share.  A mirror   *)
(* takes one slot (runDeliveryWorker); the bake takes every slot, one at a *)
(* time (runExclusiveDeliveryWork), gives them all back and then verifies  *)
(* its outputs with an errgroup of its own that shares the same budget.    *)
(* The first error cancels the group, and a select whose two cases are     *)
(* ready takes either.                                                     *)
(***************************************************************************)
EXTENDS Naturals, FiniteSets

CONSTANTS
    Mirrors,           \* the mirrored images
    Outputs,           \* the build outputs to verify
    Parallelism,       \* the effective work limit
    BuildParallelism   \* the limit of the verifying group

ASSUME BudgetBounds ==
    /\ IsFiniteSet(Mirrors) /\ IsFiniteSet(Outputs)
    /\ Parallelism \in Nat \ {0} /\ BuildParallelism \in Nat \ {0}

VARIABLES
    worker,    \* a mirror's or an output's goroutine
    build,     \* the build goroutine
    held,      \* slots the bake has acquired
    slots,     \* slots of the channel that are taken
    canceled,  \* the outer group's context is canceled
    stopped,   \* the verifying group's own context is canceled
    returned   \* resolveLocalDelivery has returned: no, ok or failed

budgetVars == <<worker, build, held, slots, canceled, stopped, returned>>

Work == {"unspawned", "waiting", "working", "done", "failed"}
Over == {"done", "failed"}

BudgetInit ==
    /\ worker = [w \in Mirrors \cup Outputs |-> "unspawned"]
    /\ build = "unspawned" /\ held = 0 /\ slots = 0
    /\ canceled = FALSE /\ stopped = FALSE /\ returned = "no"

\* errgroup.Go blocks while its group is full.
Active(group) == Cardinality({w \in group : worker[w] \in {"waiting", "working"}})
GroupActive == Active(Mirrors) + IF build \in Over \cup {"unspawned"} THEN 0 ELSE 1

spawnBuild ==
    /\ build = "unspawned" /\ build' = "checking"
    /\ UNCHANGED <<worker, held, slots, canceled, stopped, returned>>

spawnMirror(w) ==
    /\ build # "unspawned" /\ worker[w] = "unspawned" /\ GroupActive < Parallelism
    /\ worker' = [worker EXCEPT ![w] = "waiting"]
    /\ UNCHANGED <<build, held, slots, canceled, stopped, returned>>

spawnVerify(w) ==
    /\ build = "verifying" /\ worker[w] = "unspawned" /\ Active(Outputs) < BuildParallelism
    /\ worker' = [worker EXCEPT ![w] = "waiting"]
    /\ UNCHANGED <<build, held, slots, canceled, stopped, returned>>

\* The context a worker watches.
Done(w) == canceled \/ (w \in Outputs /\ stopped)

runDeliveryWorker(w) ==
    /\ worker[w] = "waiting" /\ slots < Parallelism
    /\ worker' = [worker EXCEPT ![w] = "working"] /\ slots' = slots + 1
    /\ UNCHANGED <<build, held, canceled, stopped, returned>>

\* An error in a mirror cancels the group, one in an output its own group.
Failed(w) ==
    /\ worker' = [worker EXCEPT ![w] = "failed"]
    /\ canceled' = (canceled \/ w \in Mirrors) /\ stopped' = (stopped \/ w \in Outputs)

abandonWorker(w) ==
    /\ worker[w] = "waiting" /\ Done(w) /\ Failed(w)
    /\ UNCHANGED <<build, held, slots, returned>>

finishWorker(w) ==
    /\ worker[w] = "working" /\ slots' = slots - 1
    /\ \/ worker' = [worker EXCEPT ![w] = "done"] /\ UNCHANGED <<canceled, stopped>>
       \/ Failed(w)
    /\ UNCHANGED <<build, held, returned>>

\* prepareBuildSet: every output cached, an error, or a bake.
checkOutputs ==
    /\ build = "checking"
    /\ \E next \in {"done", "failed", "acquiring"} :
          build' = next /\ canceled' = (canceled \/ next = "failed")
    /\ UNCHANGED <<worker, held, slots, stopped, returned>>

MutantAcquireSlot ==
    /\ build = "acquiring" /\ slots < Parallelism
    /\ held' = held + 1 /\ slots' = slots + 1
    /\ build' = IF held' + 1 >= Parallelism THEN "baking" ELSE "acquiring"
    /\ UNCHANGED <<worker, canceled, stopped, returned>>

acquireSlot ==
    /\ build = "acquiring" /\ slots < Parallelism
    /\ held' = held + 1 /\ slots' = slots + 1
    /\ build' = IF held' = Parallelism THEN "baking" ELSE "acquiring"
    /\ UNCHANGED <<worker, canceled, stopped, returned>>

\* Cancelled before it has every slot, the bake gives back those it has.
abandonBake ==
    /\ build = "acquiring" /\ canceled /\ build' = "failed"
    /\ slots' = slots - held /\ held' = 0
    /\ UNCHANGED <<worker, canceled, stopped, returned>>

finishBake ==
    /\ build = "baking" /\ slots' = slots - held /\ held' = 0
    /\ \E next \in {"verifying", "failed"} :
          build' = next /\ canceled' = (canceled \/ next = "failed")
    /\ UNCHANGED <<worker, stopped, returned>>

finishVerify ==
    /\ build = "verifying" /\ \A w \in Outputs : worker[w] \in Over
    /\ LET failed == \E w \in Outputs : worker[w] = "failed"
       IN  build' = (IF failed THEN "failed" ELSE "done") /\ canceled' = (canceled \/ failed)
    /\ UNCHANGED <<worker, held, slots, stopped, returned>>

groupWait ==
    /\ returned = "no" /\ build \in Over /\ \A w \in Mirrors : worker[w] \in Over
    /\ returned' = IF canceled THEN "failed" ELSE "ok"
    /\ UNCHANGED <<worker, build, held, slots, canceled, stopped>>

BudgetNext ==
    \/ spawnBuild \/ checkOutputs \/ acquireSlot \/ abandonBake \/ finishBake
    \/ finishVerify \/ groupWait
    \/ \E w \in Mirrors : spawnMirror(w)
    \/ \E w \in Outputs : spawnVerify(w)
    \/ \E w \in Mirrors \cup Outputs :
          runDeliveryWorker(w) \/ abandonWorker(w) \/ finishWorker(w)

\* Goroutines that can run do run: Go's scheduler, and calls that return.
BudgetFairness == WF_budgetVars(BudgetNext)

BudgetSpec == BudgetInit /\ [][BudgetNext]_budgetVars /\ BudgetFairness

(***************************************************************************)
(* Properties                                                              *)
(***************************************************************************)
\* Every taken slot belongs to a worker at work or to the bake, on every path:
\* a cancelled or failed goroutine of runDeliveryWorker or
\* runExclusiveDeliveryWork gives back exactly what it took.
SlotsAccounted ==
    /\ slots = held + Cardinality({w \in Mirrors \cup Outputs : worker[w] = "working"})
    /\ slots \in 0 .. Parallelism
    /\ worker \in [Mirrors \cup Outputs -> Work]

\* Bake never runs beside a mirror copy or a verification, although it collects
\* its slots one by one while workers come and go.
BakeAlone == build = "baking" => \A w \in Mirrors \cup Outputs : worker[w] # "working"

\* resolveLocalDelivery reports success only when every mirror was copied and
\* every build output is there: no error is lost between the two groups.
NoErrorLost ==
    returned = "ok" => build = "done" /\ \A w \in Mirrors : worker[w] = "done"

\* The budget is kept on every path of resolveLocalDelivery, those that fail or are
\* cancelled included: slots are given back, Bake runs alone, no error is lost.
BudgetIsKept == SlotsAccounted /\ BakeAlone /\ NoErrorLost

\* The delivery always returns: collecting all the slots cannot deadlock with
\* workers that hold one, nor with the verification that needs them back.
DeliveryReturns == <>[](returned # "no")

=============================================================================
