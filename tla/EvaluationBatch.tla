--------------------------- MODULE EvaluationBatch ---------------------------
(***************************************************************************)
(* run_evaluation_batch: the caller's thread draws items from an iterator, *)
(* submits them to a thread pool, collects results and stops everything on *)
(* the first failure or cancellation it sees.                              *)
(*                                                                         *)
(* The pool's threads run between any two steps of the caller.  Items are  *)
(* 1..Items in the order of the iterator; what an item evaluates to is not *)
(* modelled, only whether it returned.                                     *)
(***************************************************************************)
EXTENDS Integers, FiniteSets

CONSTANTS
  Items,      \* how many items the iterator yields
  MaxWorkers  \* the largest number of workers an options object asks for

ASSUME EvaluationBatchAssumption == Items \in Nat /\ MaxWorkers \in Nat \ {0}

Item == 1..Items

VARIABLES
  workers,   \* the effective number of workers; 1 evaluates on the caller's thread
  canceled,  \* check_canceled raises from now on
  status,    \* the future of each item
  next,      \* items drawn from the iterator
  pending,   \* the dictionary of futures the caller has not collected
  ordered,   \* the indices of the collected results
  pc,        \* where the caller's thread is
  failing    \* an exception is being propagated

vars == <<workers, canceled, status, next, pending, ordered, pc, failing>>

Status == {"new", "queued", "running", "ok", "error", "dropped"}
Busy == {"queued", "running"}
Labels == {"admit", "poll", "wait", "cancel", "join", "serial", "returned"}

InFlight == {i \in Item : status[i] \in Busy}
Finished == {i \in pending : status[i] \notin Busy}

(* The variables' types; only drawn items are pending or collected. *)
TypeOK ==
  /\ workers \in 1..MaxWorkers
  /\ canceled \in BOOLEAN
  /\ status \in [Item -> Status]
  /\ next \in 0..Items
  /\ pending \subseteq 1..next
  /\ ordered \subseteq 1..next
  /\ pc \in Labels
  /\ failing \in BOOLEAN

Init ==
  /\ workers \in 1..MaxWorkers
  /\ canceled = FALSE
  /\ status = [i \in Item |-> "new"]
  /\ next = 0
  /\ pending = {}
  /\ ordered = {}
  /\ pc = IF workers = 1 THEN "serial" ELSE "admit"
  /\ failing = FALSE

Raise ==
  /\ pc' = "cancel"
  /\ failing' = TRUE

(***************************************************************************)
(* The caller's thread with a pool                                         *)
(***************************************************************************)
(* Mutant: a finished future that nobody collected leaves room. *)
HasIdleThread == Cardinality(InFlight) < workers
HasRoom == Cardinality(pending) < workers

(* Mutant: the index of the item before. *)
PreviousItem == next
NextItem == next + 1

(* admit(): the flag is read before every item that is drawn. *)
Admit ==
  /\ pc = "admit"
  /\ HasRoom
  /\ ~ canceled
  /\ next < Items
  /\ next' = next + 1
  /\ status' = [status EXCEPT ![NextItem] = "queued"]
  /\ pending' = pending \union {NextItem}
  /\ UNCHANGED <<workers, canceled, ordered, pc, failing>>

AdmitEnds ==
  /\ pc = "admit"
  /\ ~ HasRoom \/ (~ canceled /\ next = Items)
  /\ pc' = "poll"
  /\ UNCHANGED <<workers, canceled, status, next, pending, ordered, failing>>

(* The flag or the caller's iterator raises. *)
AdmitRaises ==
  /\ pc = "admit"
  /\ HasRoom
  /\ canceled \/ next < Items
  /\ Raise
  /\ UNCHANGED <<workers, canceled, status, next, pending, ordered>>

(* Mutant: leave when every future is done. *)
AllDone == pending = Finished
AllCollected == pending = {}

(* while pending: check_canceled() *)
Poll ==
  /\ pc = "poll"
  /\ \/ /\ AllCollected
        /\ pc' = "join"
        /\ UNCHANGED failing
     \/ /\ ~ AllCollected
        /\ ~ canceled
        /\ pc' = "wait"
        /\ UNCHANGED failing
     \/ ~ AllCollected /\ canceled /\ Raise
  /\ UNCHANGED <<workers, canceled, status, next, pending, ordered>>

(* wait(...) gives up after 50 ms; the caller looks at the flag again. *)
WaitTimeout ==
  /\ pc = "wait"
  /\ Finished = {}
  /\ pc' = "poll"
  /\ UNCHANGED <<workers, canceled, status, next, pending, ordered, failing>>

(* Mutant: only successful futures are looked at. *)
Succeeded == {i \in pending : status[i] = "ok"}

(* All futures done by now are read before any is removed. *)
Observed == Finished

(* A progress callback that raises leaves the rest of them uncollected. *)
Collect ==
  /\ pc = "wait"
  /\ Observed # {}
  /\ \A i \in Observed : status[i] = "ok"
  /\ \E collected \in SUBSET Observed \ {{}} :
       /\ pending' = pending \ collected
       /\ ordered' = ordered \union collected
       /\ \/ collected = Observed /\ pc' = "admit" /\ UNCHANGED failing
          \/ Raise
  /\ UNCHANGED <<workers, canceled, status, next>>

CollectFailure ==
  /\ pc = "wait"
  /\ \E i \in Observed : status[i] # "ok"
  /\ Raise
  /\ UNCHANGED <<workers, canceled, status, next, pending, ordered>>

(* finally: cancel() takes a future the pool has not started. *)
CancelOne(i) ==
  /\ pc = "cancel"
  /\ i \in pending
  /\ status[i] = "queued"
  /\ status' = [status EXCEPT ![i] = "dropped"]
  /\ UNCHANGED <<workers, canceled, next, pending, ordered, pc, failing>>

CancelEnds ==
  /\ pc = "cancel"
  /\ \A i \in pending : status[i] # "queued"
  /\ pc' = "join"
  /\ UNCHANGED <<workers, canceled, status, next, pending, ordered, failing>>

(* Mutant: shutdown(wait=False) *)
NothingQueued == \A i \in Item : status[i] # "queued"
PoolIdle == InFlight = {}

(* Leaving "with ThreadPoolExecutor" joins its threads. *)
Join ==
  /\ pc = "join"
  /\ PoolIdle
  /\ pc' = "returned"
  /\ UNCHANGED <<workers, canceled, status, next, pending, ordered, failing>>

(***************************************************************************)
(* The caller's thread without a pool                                      *)
(***************************************************************************)
(* Draw the item, then check_canceled, which invoke does once more. *)
SerialStart ==
  /\ pc = "serial"
  /\ InFlight = {}
  /\ next < Items
  /\ next' = next + 1
  /\ \/ /\ ~ canceled
        /\ status' = [status EXCEPT ![next + 1] = "running"]
        /\ UNCHANGED <<pc, failing>>
     \/ /\ pc' = "join" \* the flag or the iterator raises
        /\ failing' = TRUE
        /\ UNCHANGED status
  /\ UNCHANGED <<workers, canceled, pending, ordered>>

(* The kernel returns, or it, the flag or the progress callback raises. *)
SerialFinish ==
  /\ pc = "serial"
  /\ next \in InFlight
  /\ \E outcome \in IF canceled THEN {"error"} ELSE {"ok", "error"} :
       status' = [status EXCEPT ![next] = outcome]
  /\ \/ /\ status'[next] = "ok"
        /\ ordered' = ordered \union {next}
        /\ UNCHANGED <<pc, failing>>
     \/ /\ status'[next] = "error"
        /\ pc' = "join"
        /\ failing' = TRUE
        /\ UNCHANGED ordered
  /\ UNCHANGED <<workers, canceled, next, pending>>

SerialEnds ==
  /\ pc = "serial"
  /\ InFlight = {}
  /\ next = Items
  /\ pc' = "join"
  /\ UNCHANGED <<workers, canceled, status, next, pending, ordered, failing>>

(***************************************************************************)
(* The pool and the environment                                            *)
(***************************************************************************)
(* Mutant: the flag is read only after the kernel. *)
StartedBlindly == "running"
Started == IF canceled THEN "error" ELSE "running"

(* A thread takes the oldest queued future; invoke reads the flag first. *)
Start(i) ==
  /\ status[i] = "queued"
  /\ \A j \in Item : status[j] = "queued" => i <= j
  /\ Cardinality({j \in Item : status[j] = "running"}) < workers
  /\ status' = [status EXCEPT ![i] = Started]
  /\ UNCHANGED <<workers, canceled, next, pending, ordered, pc, failing>>

(* The kernel returns or raises; a result after a cancellation is lost. *)
Finish(i) ==
  /\ pc # "serial"
  /\ status[i] = "running"
  /\ \E outcome \in IF canceled THEN {"error"} ELSE {"ok", "error"} :
       status' = [status EXCEPT ![i] = outcome]
  /\ UNCHANGED <<workers, canceled, next, pending, ordered, pc, failing>>

Cancel ==
  /\ ~ canceled
  /\ pc # "returned"
  /\ canceled' = TRUE
  /\ UNCHANGED <<workers, status, next, pending, ordered, pc, failing>>

(* The caller has its list or its exception. *)
Done == pc = "returned" /\ UNCHANGED vars

Caller ==
  \/ Admit \/ AdmitEnds \/ AdmitRaises
  \/ Poll \/ WaitTimeout \/ Collect \/ CollectFailure
  \/ \E i \in Item : CancelOne(i)
  \/ CancelEnds \/ Join
  \/ SerialStart \/ SerialFinish \/ SerialEnds

Pool == \E i \in Item : Start(i) \/ Finish(i)

Next == Caller \/ Pool \/ Cancel \/ Done

Spec == Init /\ [][Next]_vars

(* Threads are scheduled and every kernel ends. *)
Fairness ==
  /\ WF_vars(Caller)
  /\ \A i \in Item : WF_vars(Start(i) \/ Finish(i))

FairSpec == Spec /\ Fairness

(***************************************************************************)
(* Properties                                                              *)
(***************************************************************************)
(* Bounded admission: the items drawn from the iterator and not yet handed *)
(* back never exceed the workers, also while failures are propagated, so   *)
(* that the memory budget divided by for_workers holds.                    *)
AdmissionBounded ==
  /\ Cardinality(pending) <= workers
  /\ InFlight \subseteq pending \/ (workers = 1 /\ InFlight \subseteq {next})

(* "waits for admitted work to exit before returning control" *)
ReturnsQuiet == pc = "returned" => InFlight = {}

(* The inductive strengthening.  With a pool every drawn item is pending   *)
(* or collected, and the loop is left without an exception only when the   *)
(* iterator is exhausted and nothing is pending; without a pool every item *)
(* but the one being evaluated is collected.                               *)
Futures ==
  /\ InFlight \subseteq 1..next
  /\ \A i \in ordered : status[i] = "ok"

Control ==
  /\ failing => pc \in {"cancel", "join", "returned"}
  /\ pc = "cancel" => failing
  /\ pc = "poll" => pending # {} \/ next = Items
  /\ pc = "wait" => pending # {}
  /\ pc \in {"join", "returned"} /\ ~ failing => ordered = Item /\ InFlight = {}
  /\ pc = "returned" => InFlight = {}

Pooled ==
  workers > 1 =>
    /\ pc # "serial"
    /\ pending \union ordered = 1..next
    /\ InFlight \subseteq pending

Serial ==
  workers = 1 =>
    /\ pc \in {"serial", "join", "returned"}
    /\ pending = {}
    /\ InFlight \subseteq {next}
    /\ \A i \in InFlight : status[i] = "running" /\ pc = "serial"
    /\ pc = "serial" => ordered = (1..next) \ InFlight

IInv ==
  /\ Cardinality(pending) <= workers
  /\ Futures
  /\ Control
  /\ Pooled
  /\ Serial

(* A call that returns a list returns the result of every item, and no     *)
(* item's failure is dropped between wait() and the next admission.        *)
ResultsComplete ==
  /\ pc = "returned" /\ ~ failing => ordered = Item
  /\ \A i \in ordered : status[i] = "ok"

(* A kernel never starts after the cancellation, and a failed or canceled  *)
(* call draws no further item.                                             *)
AdmissionStopped ==
  /\ canceled => \A i \in Item : status'[i] = "running" => status[i] = "running"
  /\ failing => next' = next /\ \A i \in Item : status[i] = "new" => status'[i] = "new"
StopsAdmission == [][AdmissionStopped]_vars

(* Every call returns or raises, whatever fails and whenever it is         *)
(* canceled: the poll of the flag, the cancel loop and the pool's exit do  *)
(* not wait for each other.                                                *)
BatchReturns == <>(pc = "returned")
=============================================================================
