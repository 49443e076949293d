---------------------------- MODULE MCWriteQueue ----------------------------
(***************************************************************************)
(* Instances of WriteQueue for TLC.  Writer slots are interchangeable, and *)
(* so are callback processes and monitor slots: no action or safety        *)
(* property names a particular one, so the runs of safety properties use   *)
(* their permutations as a symmetry set.                                   *)
(***************************************************************************)
EXTENDS WriteQueue, TLC

Symmetry ==
  Permutations(Writer) \cup Permutations(Monitor)
    \cup Permutations(Caller \ (Producer \cup {Main}))

(***************************************************************************)
(* Two states that differ only in a local value that its process assigns   *)
(* before it reads it again have the same future, and no property reads a  *)
(* local: the runs of safety properties compare states up to those values. *)
(***************************************************************************)
InUse(f, labels) == [p \in DOMAIN f |-> IF pc[p] \in labels THEN f[p] ELSE "unused"]

UsedLocals ==
  <<InUse(cursor, {"delete", "connectDelete", "select"}),
    InUse(stamp, {"insert"}),
    InUse(back, {"startCheck", "startTruncate", "startSet", "startFork"}),
    InUse(rec, {"fetched", "guard", "emit", "truncate", "save"}),
    [p \in Process |-> IF Live(p) THEN stream[p] ELSE "unused"]>>

View == <<clock, files, pc, UsedLocals, emitted, handled>>

\* The same for the runs of NoDuplicate, which reads the second history variable.
ViewResent == <<View, resent>>
=============================================================================
