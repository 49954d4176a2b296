-------------------------- MODULE ReadersWriterLock -------------------------
(***************************************************************************)
(* What a reader-writer lock with writer preference promises: one writer   *)
(* or any number of readers, and no reader gets in past a waiting writer.  *)
(* How waiters sleep, are woken and look again is not said here.           *)
(***************************************************************************)
CONSTANTS Threads, Writers

VARIABLES
  mode,                     \* what each thread holds
  waiting                   \* the writers that have started to wait

lockVars == <<mode, waiting>>

Init ==
  /\ mode = [t \in Threads |-> "none"]
  /\ waiting = {}

StartWaiting(t) ==
  /\ t \in Writers \ waiting /\ mode[t] = "none"
  /\ waiting' = waiting \cup {t}
  /\ UNCHANGED mode

(* A writer may overtake the waiting ones. *)
TakeExclusive(t) ==
  /\ t \in Writers
  /\ \A u \in Threads : mode[u] = "none"
  /\ mode' = [mode EXCEPT ![t] = "exclusive"]
  /\ waiting' = waiting \ {t}

TakeShared(t) ==
  /\ waiting = {} /\ mode[t] = "none"
  /\ \A u \in Threads : mode[u] # "exclusive"
  /\ mode' = [mode EXCEPT ![t] = "shared"]
  /\ UNCHANGED waiting

Release(t) ==
  /\ mode[t] # "none"
  /\ mode' = [mode EXCEPT ![t] = "none"]
  /\ UNCHANGED waiting

Next == \E t \in Threads :
  StartWaiting(t) \/ TakeExclusive(t) \/ TakeShared(t) \/ Release(t)

Spec == Init /\ [][Next]_lockVars
=============================================================================
