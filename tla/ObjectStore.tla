----------------------------- MODULE ObjectStore -----------------------------
(***************************************************************************)
(* What the parameter storage promises (tiza_storage.h): objects that hold *)
(* a value or nothing.  A write takes the old value away at some time and  *)
(* puts the new one in its place at another; it may fail after the first.  *)
(* A reset ends every write, and may take the value of an object that is   *)
(* being written, never that of another.  The code does not ask for the    *)
(* result of every operation of the flash, nor does it keep two writers    *)
(* off one object: an object of which nothing is promised from then on is  *)
(* spoilt.  It takes a failed operation or a second writer to spoil one.   *)
(***************************************************************************)
EXTENDS Naturals

CONSTANTS Objects, Values, Writers, Absent, Spoilt

VARIABLES
  stored, \* what a restart would find of each object
  writing,\* the write each writer is in: an object and its new value, or Absent
  result, \* what the last write of each writer returned; FALSE while it is in one
  faults  \* the operations of the flash that failed

Init ==
  /\ stored = [o \in Objects |-> Absent]
  /\ writing = [w \in Writers |-> Absent]
  /\ result = [w \in Writers |-> FALSE]
  /\ faults = 0

Written == {writing[w].id : w \in {u \in Writers : writing[u] # Absent}}

\* The objects of S that are not spoilt come to hold v.
Put(S, v) == [o \in Objects |-> IF o \in S /\ stored[o] # Spoilt THEN v ELSE stored[o]]

\* A write begins; a second one of the same object spoils it.
Begin(w) ==
  /\ writing[w] = Absent
  /\ \E o \in Objects, v \in Values :
       /\ writing' = [writing EXCEPT ![w] = [id |-> o, value |-> v]]
       /\ stored' = Put({o} \cap Written, Spoilt)
  /\ result' = [result EXCEPT ![w] = FALSE]
  /\ UNCHANGED faults

\* The old value of an object that is being written goes.
Lose ==
  /\ \E o \in Written : stored' = Put({o}, Absent)
  /\ UNCHANGED <<writing, result, faults>>

\* The write ends, and the caller is told that it succeeded, even when the last
\* operations of the flash failed.
Commit(w) ==
  /\ writing[w] # Absent
  /\ \/ stored' = Put({writing[w].id}, writing[w].value) /\ UNCHANGED faults
     \/ stored' = Put({writing[w].id}, Spoilt) /\ faults' = faults + 1
  /\ writing' = [writing EXCEPT ![w] = Absent]
  /\ result' = [result EXCEPT ![w] = TRUE]

\* The write ends, and the caller is told that it failed.
Fail(w) ==
  /\ writing[w] # Absent
  /\ writing' = [writing EXCEPT ![w] = Absent]
  /\ result' = [result EXCEPT ![w] = FALSE]
  /\ UNCHANGED faults \/ faults' = faults + 1
  /\ UNCHANGED stored

\* An operation fails that no one asks about.
Spoil ==
  /\ faults' = faults + 1
  /\ \E S \in SUBSET Objects : stored' = Put(S, Spoilt)
  /\ UNCHANGED <<writing, result>>

\* Two writers of one object, which they have spoilt, may spoil the others.
Clash ==
  /\ \E o \in Written : stored[o] = Spoilt
  /\ stored' = Put(Objects, Spoilt)
  /\ UNCHANGED <<writing, result, faults>>

Reset ==
  /\ writing' = [w \in Writers |-> Absent]
  /\ result' = [w \in Writers |-> FALSE]
  /\ \E S \in SUBSET Written : stored' = Put(S, Absent)
  /\ UNCHANGED faults

Next ==
  \/ \E w \in Writers : Begin(w) \/ Commit(w) \/ Fail(w)
  \/ Lose \/ Spoil \/ Clash
  \/ Reset

Spec == Init /\ [][Next]_<<stored, writing, result, faults>>
=============================================================================
