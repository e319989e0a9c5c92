--------------------------- MODULE PRLoopProgress ---------------------------
(***************************************************************************)
(* How soon the PR loop settles: PRLoop with a history of the events        *)
(* handled since CI and review are decided.  Settles says that the record   *)
(* becomes terminal some day; here it is said by which event.               *)
(***************************************************************************)
EXTENDS PRLoop

VARIABLES fresh,   \* handlers started for the newest head since the signals
                   \* are decided, and still at it
          handled  \* events such handlers have handled, up to one over the
                   \* attempt limit

pvars == <<vars, fresh, handled>>

(* The handler has returned, or its executor raised; not: it was killed,   *)
(* or could not read the state file.                                       *)
Completes(h) ==
    pc[h] \notin {"idle", "load"} /\ pc'[h] = "idle" /\ UNCHANGED crashes

(* A signal that opens again, as it does for each new head, starts over.   *)
Track ==
    IF SignalsOpen'
    THEN fresh' = {} /\ handled' = 0
    ELSE /\ fresh' = {h \in Handlers :
                        /\ pc'[h] # "idle"
                        /\ h \in fresh \/ (pc[h] = "idle" /\ ev'[h].sha = head)}
         /\ handled' = IF handled <= MaxAttempts /\ \E h \in fresh : Completes(h)
                         THEN handled + 1 ELSE handled

PInit == Init /\ fresh = {} /\ handled = 0

PNext == Next /\ Track

PSpec == PInit /\ [][PNext]_pvars

-----------------------------------------------------------------------------

(* "The loop exits deterministically on terminal state" (RUNTIME_MODEL.md): *)
(* one event more than max_repair_attempts, handled while CI and review    *)
(* stay decided, and the record of the newest head is terminal, whatever   *)
(* the executor does, raises or keeps unpushed, and also if handlers are   *)
(* killed in between.                                                      *)
SettlesInTime ==
    handled > MaxAttempts =>
        disk # "absent" /\ file.head_sha = head /\ file.terminal_state

-----------------------------------------------------------------------------
(* Inductive invariant, for PRLoopProofs.                                  *)

(* The record is terminal or has spent an attempt for each of n events.    *)
PaysFor(s, n) == s.terminal_state \/ n <= s.attempt

(* The event being handled (1) from the decision to run, or to return.     *)
Due(h) ==
    IF Reaches(h, "execute") \/ (pc[h] = "save" /\ cont[h] = "idle")
    THEN 1 ELSE 0

FreshPays(h) ==
    /\ pc[h] # "idle" /\ ev[h].sha = head /\ ~SignalsOpen
    /\ pc[h] # "load" => PaysFor(st[h], handled + Due(h))

ProgressInv ==
    /\ handled \in 0..(MaxAttempts + 1) /\ fresh \subseteq Handlers
    /\ handled > 0 =>
           /\ ~SignalsOpen /\ delivered = head
           /\ disk # "absent" /\ file.head_sha = head /\ PaysFor(file, handled)
           /\ \A h \in Handlers : pc[h] # "idle" => h \in fresh
    /\ \A h \in fresh : FreshPays(h)
=============================================================================
