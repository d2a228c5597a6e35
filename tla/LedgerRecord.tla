---------------------------- MODULE LedgerRecord ----------------------------
(***************************************************************************)
(* What the changelog promises of the sections of past releases: they are  *)
(* kept for good.  A section may be corrected, and grow a little, until it *)
(* is archived, and is never touched again.                                *)
(***************************************************************************)
EXTENDS Integers

CONSTANTS
  Start,        \* the sections at the beginning
  MaxGrowth     \* what a section may grow by in one change

VARIABLE record \* the sections: heading, text, size, and whether they are archived

Kin(old, new) == new.heading = old.heading
Kept(old, new) ==
  /\ Kin(old, new)
  /\ old.archived => new = old
  /\ new.archived => new.text = old.text
  /\ new.size - old.size <= MaxGrowth
Changed(was, is) ==
  /\ \A old \in was : \E new \in is : Kept(old, new)
  /\ \A new \in is : (\A old \in was : ~Kin(old, new)) => ~new.archived
  /\ \A one, other \in is : Kin(one, other) => one = other

Init == record = Start
Change == Changed(record, record')
Spec == Init /\ [][Change]_record
=============================================================================
