------------------------------- MODULE RWMutex -------------------------------
(***************************************************************************)
(* Go's sync.RWMutex as the hub uses it: Lock/Unlock by the goroutines     *)
(* that change the stream table, RLock/RUnlock by those that iterate it.   *)
(* External code, modelled from its documented behaviour: a writer that    *)
(* has called Lock blocks the readers that come after it, waits for the    *)
(* readers already inside, and on Unlock lets in every reader that waited. *)
(***************************************************************************)
CONSTANTS Readers, Writers

VARIABLES
  writing,  \* the writer that holds the inner mutex: announced or inside
  reading,  \* the readers that hold the read lock
  waiting   \* the readers blocked in RLock behind the announced writer

TypeOK ==
  /\ writing \subseteq Writers
  /\ reading \subseteq Readers
  /\ waiting \subseteq Readers

Init == writing = {} /\ reading = {} /\ waiting = {}

(* The first half of Lock: win the inner mutex and announce the writer.    *)
Lock(w) ==
  /\ writing = {}
  /\ writing' = {w}
  /\ UNCHANGED <<reading, waiting>>

(* Lock has returned to w: the readers it found have all left.             *)
Locked(w) == w \in writing /\ reading = {}

Unlock(w) ==
  /\ writing' = writing \ {w}
  /\ reading' = reading \cup waiting
  /\ waiting' = {}

RLock(r) ==
  /\ UNCHANGED writing
  /\ IF writing = {}
     THEN reading' = reading \cup {r} /\ UNCHANGED waiting
     ELSE waiting' = waiting \cup {r} /\ UNCHANGED reading

RUnlock(r) ==
  /\ reading' = reading \ {r}
  /\ UNCHANGED <<writing, waiting>>
=============================================================================
