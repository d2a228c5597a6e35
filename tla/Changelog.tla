----------------------------- MODULE Changelog -----------------------------
(***************************************************************************)
(* CHANGELOG.md and the monthly volumes its oldest dates are moved to:     *)
(* scripts/changelog-rotate.mjs moves them, check 8d of check-docs.mjs     *)
(* lets a branch into main or not.                                         *)
(*                                                                         *)
(* A file is a sequence of lines.  Rotation writes one file after another  *)
(* and can be stopped in between; branches are edited by hand.             *)
(***************************************************************************)
EXTENDS Integers, SequencesExt, FiniteSetsExt

CONSTANTS
  ROOT_MAX_BYTES, BULLET_MAX_BYTES,  \* the two limits
  MaxReleases,                       \* bound: releases
  MaxTampers,                        \* bound: edits of anything but the next release
  MaxCrashes                         \* bound: rotations stopped halfway

ASSUME BoundsAreNatural == {ROOT_MAX_BYTES, BULLET_MAX_BYTES, MaxReleases, MaxTampers, MaxCrashes} \subseteq Nat
ASSUME ThreeToBeginWith == MaxReleases >= 3

VARIABLES
  main,     \* the files on main
  record,   \* its sections, as they read
  tree,     \* those of the branch
  pending,  \* the files a running rotation has yet to write
  held,     \* the sections in the tree when it began, while nothing else touched the tree
  clean,    \* the check had nothing against that tree but its length
  today, tampers, crashes

vars == <<main, record, tree, pending, held, clean, today, tampers, crashes>>
-----------------------------------------------------------------------------
(* Lines, files and sections *)

\* up: 1 for a link to a relative path from the file's own directory, 2 for one from above; 0 without a
\* link, and for one that isRelPath takes for no path (a bare name, an anchor, an address) or with a title.
Blank == [k |-> "text", n |-> 0, d |-> 0, up |-> 0, months |-> {}, glued |-> FALSE]
Bullet(n, up) == [Blank EXCEPT !.k = "bullet", !.n = n, !.up = up]
More(n) == [Blank EXCEPT !.k = "more", !.n = n]
Unreleased == [Blank EXCEPT !.k = "unreleased"]
Release(v, d) == [Blank EXCEPT !.k = "release", !.n = v, !.d = d]
Unknown == [Blank EXCEPT !.k = "unknown"]
indexLine(months) == [Blank EXCEPT !.k = "index", !.months = months]
volumeHead(m) == [Blank EXCEPT !.k = "volume", !.d = m]

Month(d) == (d + 1) \div 2
Root == 0
Volumes == 1..Month(MaxReleases + 1)
File(lines, ends) == [lines |-> lines, ends |-> ends]     \* ends: its last line is terminated
NoFile == File(<<>>, FALSE)
VolumesOf(t) == {m \in Volumes : t[m] # NoFile}

LineBytes(l) == (IF l.k \in {"bullet", "more"} THEN l.n ELSE IF l.k = "index" THEN 1 ELSE 0) + (IF l.glued THEN 1 ELSE 0)
bytes(lines) == FoldLeft(LAMBDA sum, l : sum + LineBytes(l), 0, lines)

\* Head and sections; the last section ends as the file does.
IsHeading(l) == l.k \in {"release", "unreleased", "unknown"}
Block(h) == [h |-> h, body |-> <<>>, ends |-> TRUE]
Split(z, l) ==
  IF IsHeading(l) THEN [z EXCEPT !.blocks = Append(@, Block(l))]
  ELSE IF z.blocks = <<>> THEN [z EXCEPT !.head = Append(@, l)]
  ELSE [z EXCEPT !.blocks[Len(z.blocks)].body = Append(@, l)]
parse(file) ==
  LET z == FoldLeft(Split, [head |-> <<>>, blocks |-> <<>>], file.lines)
  IN  IF z.blocks = <<>> THEN z ELSE [z EXCEPT !.blocks[Len(z.blocks)].ends = file.ends]
\* The elements at given positions, in order.
Those(s, at) == FoldLeft(LAMBDA z, i : IF i \in at THEN Append(z, s[i]) ELSE z, <<>>, [i \in DOMAIN s |-> i])
ThoseOfKind(blocks, kind) == Those(blocks, {n \in DOMAIN blocks : blocks[n].h.k = kind})
OfKind(file, kind) == ThoseOfKind(parse(file).blocks, kind)
IndexOf(head) == Those(head, {n \in DOMAIN head : head[n].k = "index"})
WithoutIndex(head) == Those(head, {n \in DOMAIN head : head[n].k # "index"})
releases(file) == OfKind(file, "release")
Text(b) == <<b.h>> \o b.body
Dates(blocks) == {b.h.d : b \in Range(blocks)}
InFile(t, m) == Range(releases(t[m]))
InVolumes(t) == UNION {InFile(t, m) : m \in VolumesOf(t)}
Headings(blocks) == {b.h : b \in blocks}

\* A volume is a directory below: links gain a step up on the way, and lose one back.
MapLinks(b, up) == [b EXCEPT !.body = [n \in DOMAIN b.body |-> [b.body[n] EXCEPT !.up = up[@]]]]
toVolume(b) == MapLinks(b, [u \in Nat |-> IF u = 0 THEN 0 ELSE u + 1])
fromVolume(b) == MapLinks(b, [u \in Nat |-> IF u > 1 THEN u - 1 ELSE u])

\* Sections one after another: what follows a line that is not terminated continues it.
Glue(z, b) ==
  IF z.ends THEN File(z.lines \o Text(b), b.ends)
  ELSE File([z.lines EXCEPT ![Len(z.lines)].glued = TRUE] \o b.body, b.ends)
Render(head, blocks) == FoldLeft(Glue, File(head, TRUE), blocks)
-----------------------------------------------------------------------------
(* Rotation *)

\* What is not in the form of a ledger is not touched.
Dies(t) ==
  LET blocks == parse(t[Root]).blocks
  IN  \/ Len(OfKind(t[Root], "unreleased")) # 1 \/ OfKind(t[Root], "unknown") # <<>> \/ Head(blocks).h # Unreleased
      \/ \E m \in VolumesOf(t) : parse(t[m]).head # <<volumeHead(m)>> \/ \E b \in Range(parse(t[m]).blocks) : b.h.k # "release"

renderRoot(t, keep, months) ==
  LET head == WithoutIndex(parse(t[Root]).head)
  IN  Render(head \o (IF months = {} THEN <<>> ELSE <<indexLine(months)>>), <<OfKind(t[Root], "unreleased")[1]>> \o keep)
\* Mutant: the index names the months of what is moved.
MovedMonths(t, moved) == {Month(d) : d \in Dates(moved)}
Months(t, moved) == VolumesOf(t) \cup {Month(d) : d \in Dates(moved)}

\* Date by date from the oldest, until the root is short enough or has one date left: what it
\* keeps is its longest such beginning.
Cut(root, k) == [keep |-> SubSeq(root, 1, k), moved |-> SubSeq(root, k + 1, Len(root))]
EndsDate(root, k) == k \in {0, Len(root)} \/ root[k].h.d # root[k + 1].h.d
TooLong(t, z) == bytes(renderRoot(t, z.keep, Months(t, z.moved)).lines) > ROOT_MAX_BYTES
MayStop(t, z) == TooLong(t, z) => Cardinality(Dates(z.keep)) <= 1
Shortened(t, root) == Cut(root, Max({k \in 0..Len(root) : EndsDate(root, k) /\ MayStop(t, Cut(root, k))}))
Shrink(t) == Shortened(t, releases(t[Root]))

\* Mutant: the root is written first.
RootFirst(volumes, root) == <<root>> \o volumes
RootLast(volumes, root) == Append(volumes, root)
incoming(moved, m) == Those(moved, {n \in DOMAIN moved : Month(moved[n].h.d) = m})
InVolume(blocks) == [n \in DOMAIN blocks |-> toVolume(blocks[n])]
nextVolume(t, moved, m) ==
  Render(<<volumeHead(m)>>, InVolume(incoming(moved, m)) \o (IF m \in VolumesOf(t) THEN releases(t[m]) ELSE <<>>))
\* The sections at which a month without a volume is first met, in the order of what is moved.
Opens(t, moved) ==
  {n \in DOMAIN moved : Month(moved[n].h.d) \notin VolumesOf(t) /\ \A i \in 1..n - 1 : Month(moved[i].h.d) # Month(moved[n].h.d)}
\* The volumes there are, as the directory lists them, and then those that are opened.
monthOrder(t, moved) ==
  Those([m \in 1..Max(Volumes) |-> m], VolumesOf(t)) \o Those([n \in DOMAIN moved |-> Month(moved[n].h.d)], Opens(t, moved))
nextFiles(t, z, months) ==
  LET order == monthOrder(t, z.moved)
  IN  RootLast([n \in DOMAIN order |-> [at |-> order[n], file |-> nextVolume(t, z.moved, order[n])]],
               [at |-> Root, file |-> renderRoot(t, z.keep, months)])
\* The files to write; none if it dies or there is nothing to do.
Writes(t) ==
  LET z == Shrink(t)
      roundTrip == \A b \in Range(z.moved) : fromVolume(toVolume(b)) = b
  IN  IF t[Root] = NoFile \/ Dies(t) \/ bytes(t[Root].lines) <= ROOT_MAX_BYTES \/ ~roundTrip THEN <<>>
      ELSE nextFiles(t, z, Months(t, z.moved))
Written(t, writes) == FoldLeft(LAMBDA u, w : [u EXCEPT ![w.at] = w.file], t, writes)
-----------------------------------------------------------------------------
(* Check 8d *)

NewestFirst(blocks) == \A n \in 2..Len(blocks) : blocks[n].h.d <= blocks[n - 1].h.d
\* Mutant: headings are compared within the root only.
DistinctInRoot(t) == IsInjective([n \in DOMAIN releases(t[Root]) |-> releases(t[Root])[n].h])
Places(t) == UNION {{<<f, n>> : n \in DOMAIN releases(t[f])} : f \in {Root} \cup Volumes}
Distinct(t) == IsInjective([p \in Places(t) |-> releases(t[p[1]])[p[2]].h])
Structure(t) ==
  LET root == releases(t[Root])
      idx == IndexOf(parse(t[Root]).head)
  IN  /\ t[Root] # NoFile /\ Len(OfKind(t[Root], "unreleased")) = 1 /\ OfKind(t[Root], "unknown") = <<>>
      /\ \A m \in VolumesOf(t) : /\ parse(t[m]).head = <<volumeHead(m)>>
                                 /\ \A b \in Range(parse(t[m]).blocks) : b.h.k = "release" /\ Month(b.h.d) = m
                                 /\ NewestFirst(releases(t[m]))
                                 /\ root # <<>> => \A b \in InFile(t, m) : b.h.d < Last(root).h.d
      /\ NewestFirst(root)
      /\ Distinct(t)
      /\ IF VolumesOf(t) = {} THEN idx = <<>> ELSE idx = <<indexLine(VolumesOf(t))>>

FixedBytes(t) == bytes(parse(t[Root]).head) + bytes(FlattenSeq([n \in DOMAIN OfKind(t[Root], "unreleased") |-> Text(OfKind(t[Root], "unreleased")[n])]))
ShortEnough(t) ==
  /\ bytes(t[Root].lines) <= ROOT_MAX_BYTES \/ Cardinality(Dates(releases(t[Root]))) <= 1
  /\ FixedBytes(t) <= ROOT_MAX_BYTES

\* An item goes on to the next one or to a blank line; a heading is one of its own.
ItemStep(z, l) ==
  IF l.k = "text" THEN [z EXCEPT !.open = FALSE]
  ELSE IF l.k = "more" /\ z.open THEN [z EXCEPT !.items[Len(z.items)] = Append(@, l)]
  ELSE [items |-> Append(z.items, <<l>>), open |-> ~IsHeading(l)]
itemsOf(b) == FoldLeft(ItemStep, [items |-> <<>>, open |-> FALSE], Text(b)).items
capBullets(b, exempt) == \A item \in Range(itemsOf(b)) \ exempt : bytes(item) <= BULLET_MAX_BYTES

\* Mutant: a section of a volume is compared by what it would be in the root.
SameInRoot(new, old) == fromVolume(new) = fromVolume(old)
SameText(new, old) == new = old
\* The base keeps everything: volumes as they are, what is moved as rotation moves it, and
\* in the root what hardly grows; what is new stands in the root.
Preserves(t, base) ==
  LET inRoot == InFile(t, Root)  baseRoot == InFile(base, Root)
      inVolumes == InVolumes(t)  baseVolumes == InVolumes(base)
  IN  /\ Distinct(base)
      /\ \A old \in baseVolumes : \E new \in inVolumes : new.h = old.h /\ SameText(new, old)
      /\ \A old \in baseRoot : \/ old.h \in Headings(inRoot)
                               \/ \E new \in inVolumes : new.h = old.h /\ SameText(new, toVolume(old))
      /\ Headings(inVolumes) \subseteq Headings(baseVolumes \cup baseRoot)
      /\ \A new \in inRoot, old \in baseRoot : new.h = old.h => bytes(Text(new)) - bytes(Text(old)) <= BULLET_MAX_BYTES
NewItemsAreShort(t, base) ==
  LET exempt == UNION {Range(itemsOf(b)) : b \in Range(OfKind(base[Root], "unreleased"))}
      noIndex(u) == WithoutIndex(parse(u[Root]).head)
  IN  /\ \A b \in Range(OfKind(t[Root], "unreleased")) : capBullets(b, exempt)
      /\ \A b \in InFile(t, Root) : b.h \in Headings(InFile(base, Root) \cup InVolumes(base)) \/ capBullets(b, exempt)
      /\ bytes(noIndex(t)) - bytes(noIndex(base)) <= BULLET_MAX_BYTES

\* The branch is compared with where it left main, by either name of it.  A checkout that
\* has fetched neither has nothing to compare with, and is refused.
Refs == {"origin/main", "main"}
baselineRef(fetched) ==
  IF "origin/main" \in fetched THEN "origin/main" ELSE IF "main" \in fetched THEN "main" ELSE "none"
ButForLength(t, base) == Structure(t) /\ Preserves(t, base) /\ NewItemsAreShort(t, base)
checkLedger(t, base, fetched) == baselineRef(fetched) # "none" /\ ShortEnough(t) /\ ButForLength(t, base)
\* What a section says, wherever its file is.
Points(l, inVolume) == [l EXCEPT !.up = IF ~inVolume \/ @ = 0 THEN @ ELSE IF @ = 1 THEN 9 ELSE @ - 1]
Said(b, inVolume) == LET text == Text(b) IN [n \in DOMAIN text |-> Points(text[n], inVolume)]
Contents(t) == UNION {{Said(b, f # Root) : b \in InFile(t, f)} : f \in {Root} \cup VolumesOf(t)}
Entry(b, archived) == [heading |-> b.h, text |-> Said(b, archived), size |-> bytes(Text(b)), archived |-> archived]
Record(t) == {Entry(b, FALSE) : b \in InFile(t, Root)} \cup {Entry(b, TRUE) : b \in InVolumes(t)}
-----------------------------------------------------------------------------
(* Branches *)

Section(v, up) == <<Release(v, v), Bullet(2, up)>>
Init ==
  /\ main = [f \in {Root} \cup Volumes |->
       IF f = Root THEN File(<<Blank, indexLine({1}), Unreleased>> \o Section(3, 1) \o Section(2, 1), TRUE)
       ELSE IF f = 1 THEN File(<<volumeHead(1)>> \o Section(1, 2), TRUE)
       ELSE NoFile]
  /\ record = Record(main) /\ tree = main
  /\ pending = <<>> /\ held = {} /\ clean = FALSE
  /\ today = 4 /\ tampers = 0 /\ crashes = 0

\* By hand, anywhere: a line less, a line more, a link moved, a file less.
Idle == pending = <<>>
Change(f, lines) == tree' = [tree EXCEPT ![f].lines = lines]
Edited == Idle /\ held' = {} /\ clean' = FALSE /\ UNCHANGED <<main, record, pending, crashes>>
InsertAfter(lines, i, l) == SubSeq(lines, 1, i) \o <<l>> \o SubSeq(lines, i + 1, Len(lines))
UnreleasedAt == SelectInSeq(tree[Root].lines, LAMBDA l : l.k = "unreleased")

AddItem(l) ==
  /\ Edited /\ UnreleasedAt > 0 /\ today <= MaxReleases
  /\ OfKind(tree[Root], "unreleased")[1].body = <<>>
  /\ Change(Root, InsertAfter(tree[Root].lines, UnreleasedAt, l))
  /\ UNCHANGED <<today, tampers>>
Bump(d) ==
  /\ Edited /\ UnreleasedAt > 0 /\ today <= MaxReleases
  /\ OfKind(tree[Root], "unreleased")[1].body # <<>>
  /\ Change(Root, InsertAfter(tree[Root].lines, UnreleasedAt, Release(today, d)))
  /\ today' = today + 1
  /\ UNCHANGED tampers
Menu == {Bullet(1, 0), Bullet(3, 0), More(2), Unreleased, Unknown, Release(1, 1), Release(MaxReleases + 1, 1), Release(MaxReleases + 1, today)}
Tamper ==
  /\ Edited /\ tampers < MaxTampers /\ tampers' = tampers + 1
  /\ \E f \in {Root} \cup Volumes :
       /\ tree[f] # NoFile
       /\ LET lines == tree[f].lines
          IN  \/ \E i \in DOMAIN lines : Change(f, RemoveAt(lines, i))
              \/ \E i \in DOMAIN lines, l \in Menu : Change(f, InsertAfter(lines, i, l))
              \/ \E i \in DOMAIN lines : lines[i].up > 0 /\ Change(f, [lines EXCEPT ![i].up = IF @ = 1 THEN 2 ELSE 1])
              \/ tree' = [tree EXCEPT ![f].ends = FALSE]
              \/ tree' = [tree EXCEPT ![f] = NoFile]
  /\ UNCHANGED today

\* Sections of the past are as they were, and what is new has the newest date.
Rotatable(t, base) ==
  LET root == releases(t[Root])
  IN  \A b \in Range(root) : b \in InFile(base, Root) \/ (b.h \notin Headings(InFile(base, Root)) /\ b.h.d = Head(root).h.d)
Rotate ==
  /\ Idle /\ Writes(tree) # <<>>
  /\ pending' = Writes(tree)
  /\ held' = IF tree[Root].ends THEN Contents(tree) ELSE {}
  /\ clean' = (tree[Root].ends /\ ButForLength(tree, main) /\ FixedBytes(tree) <= ROOT_MAX_BYTES /\ Rotatable(tree, main))
  /\ UNCHANGED <<main, record, tree, today, tampers, crashes>>
Write ==
  /\ ~Idle
  /\ tree' = [tree EXCEPT ![Head(pending).at] = Head(pending).file]
  /\ pending' = Tail(pending)
  /\ UNCHANGED <<main, record, held, clean, today, tampers, crashes>>
\* Stopped before a file, or in the middle of one.
Crash ==
  /\ ~Idle /\ crashes < MaxCrashes /\ crashes' = crashes + 1
  /\ pending' = <<>> /\ clean' = FALSE
  /\ \/ UNCHANGED <<tree, held>>
     \/ \E k \in 0..Len(Head(pending).file.lines) - 1 :
          tree' = [tree EXCEPT ![Head(pending).at] = File(SubSeq(Head(pending).file.lines, 1, k), TRUE)] /\ held' = {}
  /\ UNCHANGED <<main, record, today, tampers>>

Land ==
  /\ Idle /\ tree # main /\ \E fetched \in SUBSET Refs : checkLedger(tree, main, fetched)
  /\ main' = tree /\ record' = Record(tree)
  /\ held' = {} /\ clean' = FALSE
  /\ UNCHANGED <<tree, pending, today, tampers, crashes>>
Discard ==
  /\ Edited /\ tree # main /\ tree' = main
  /\ UNCHANGED <<today, tampers>>

Next ==
  \/ \E l \in {Bullet(2, 1), Bullet(3, 0)} : AddItem(l)
  \/ \E d \in {today - 1, today} : Bump(d)
  \/ Tamper \/ Rotate \/ Write \/ Crash \/ Land \/ Discard
Spec == Init /\ [][Next]_vars
-----------------------------------------------------------------------------
(* Properties *)

\* Main is one ledger over its files: the releases of the root and then those of the volumes,
\* the last month first, are each there once and never get newer.
AllReleases == FlattenSeq([n \in 1..Max(Volumes) + 1 |-> releases(main[IF n = 1 THEN Root ELSE Max(Volumes) + 2 - n])])
OneLedger == NewestFirst(AllReleases) /\ IsInjective([n \in DOMAIN AllReleases |-> AllReleases[n].h])

\* No branch that the check lets in loses a section, changes one that is archived or on its
\* way there, lets a link of it point elsewhere or adds one to the past: whatever was edited
\* on the branch and wherever a rotation on it stopped.
L == INSTANCE LedgerRecord WITH MaxGrowth <- BULLET_MAX_BYTES,
       Start <- {[heading |-> Release(v, v), text |-> Section(v, 1), size |-> 2, archived |-> v = 1] : v \in 1..3}
ImplementsRecord == L!Spec

\* A rotation stopped between two files leaves every section in the tree: a section is in its
\* volume before it leaves the root.  The root ends in a newline.
NothingLeavesTheTree == held \subseteq Contents(tree)

\* A rotation that ends makes of a tree that is only too long one the check lets in, and
\* another run finds nothing to change.  A branch that has corrected a section of the past, or
\* brought releases of two dates, may have to land first.
RotationSettles == clean /\ Idle => checkLedger(tree, main, Refs) /\ Written(tree, Writes(tree)) = tree
=============================================================================
