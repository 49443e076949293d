---------------------------- MODULE DurableFifo ----------------------------
(***************************************************************************)
(* What the record queue of the client promises to the application that    *)
(* calls writeData(): an accepted record is stored, records are delivered  *)
(* in the order in which they were accepted and none is skipped, and only  *)
(* a delivered record is forgotten.  Records are numbered 1, 2, ... as     *)
(* they are accepted.  Delivering a record again is a stuttering step:     *)
(* how often that may happen is stated by the detailed specification.      *)
(***************************************************************************)
EXTENDS Naturals

CONSTANT MaxRecord  \* bound on the records accepted

VARIABLES
  accepted,   \* how many records were accepted
  stored,     \* the records on disk
  delivered   \* the records delivered at least once

fifoVars == <<accepted, stored, delivered>>

Init == accepted = 0 /\ stored = {} /\ delivered = {}

Accept ==
  /\ accepted < MaxRecord
  /\ accepted' = accepted + 1
  /\ stored' = stored \cup {accepted + 1}
  /\ UNCHANGED delivered

\* Only the oldest record not yet delivered may be.
Deliver ==
  \E i \in 1 .. accepted :
    /\ \A j \in 1 .. (i - 1) : j \in delivered
    /\ delivered' = delivered \cup {i}
    /\ UNCHANGED <<accepted, stored>>

Forget ==
  /\ \E gone \in SUBSET delivered : stored' = stored \ gone
  /\ UNCHANGED <<accepted, delivered>>

Next == Accept \/ Deliver \/ Forget

Spec == Init /\ [][Next]_fifoVars
=============================================================================
