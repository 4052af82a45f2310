---------------------------- MODULE Files_proofs ----------------------------
(***************************************************************************)
(* The inductive invariants of those who rewrite and delete files: the sed *)
(* tool, the cleanup scheduler, the todo file with its updates and its     *)
(* watcher, the installer's scripts and the document cache.                *)
(***************************************************************************)
EXTENDS Services, SequenceTheorems, FiniteSetTheorems, TLAPS

-----------------------------------------------------------------------------
(* 1. sed_replace, whose disk is x1 and whose run is x2.                   *)

Contents == [is : {"whole", "torn", "absent"}, rewrites : Seq(Nat)]
Write(p, c) == [path |-> p, content |-> c]
SedWrites == [path : Nat, content : Contents]

SedOK ==
  /\ x1 \in [Sed!Paths -> Contents]
  /\ x2 \in [run : Nat, pc : {"walking", "writing", "done"},
             scope : {"file", "directory"}, backup : BOOLEAN, before : Contents,
             visited : SUBSET Sed!Paths, writes : Seq(SedWrites), clean : BOOLEAN]

(* The file or backup p still holds what the file held, and the walk can   *)
(* come to it, but no more to one with fewer suffixes.                     *)
Kept(p) == x1[p] = x2.before /\ \A q \in Sed!Paths : q < p => q \in x2.visited

(* The two writes of a file with backup, and the last one.                 *)
BackingUp(r, c) ==
  /\ x2.backup /\ r \in x2.visited /\ r + 1 \in Sed!Paths
  /\ x2.writes = <<Write(r + 1, x1[r]), Write(r, c)>>
  /\ \E p \in Sed!Paths : p <= r /\ Kept(p)
Rewriting(r, c) ==
  /\ x2.writes = <<Write(r, c)>>
  /\ x2.backup => \E p \in Sed!Paths : p # r /\ Kept(p)

SedInv ==
  /\ SedOK
  /\ x2.pc = "writing" =>
       \E r \in Sed!Paths, c \in Contents : BackingUp(r, c) \/ Rewriting(r, c)
  /\ x2.backup /\ x2.pc # "writing" => \E p \in Sed!Paths : Kept(p)

LEMMA SedStarts == Sed!Init => SedInv
<1> SUFFICES ASSUME Sed!Init PROVE SedInv
  OBVIOUS
<1>1. x2.backup = FALSE /\ x2.pc = "done"
  BY DEF Sed!Init
<1>2. Sed!Whole(<<>>) \in Contents /\ Sed!NoFile \in Contents
  BY DEF Sed!Whole, Sed!NoFile, Contents
<1>3. SedOK
  <2>1. x1 \in [Sed!Paths -> Contents]
    BY <1>2 DEF Sed!Init
  <2>2. <<>> \in Seq(SedWrites)
    OBVIOUS
  <2> QED
    BY <1>2, <2>1, <2>2 DEF Sed!Init, SedOK
<1> QED
  BY <1>1, <1>3 DEF SedInv

LEMMA RewrittenContent ==
  ASSUME SedOK, NEW c \in Contents
  PROVE  Sed!Rewritten(c) \in Contents
<1>1. x2.run \in Nat /\ c.rewrites \in Seq(Nat)
  BY DEF SedOK, Contents
<1>2. Append(c.rewrites, x2.run) \in Seq(Nat) /\ <<>> \in Seq(Nat)
  BY <1>1
<1> QED
  BY <1>2 DEF Sed!Rewritten, Sed!Whole, Sed!TornFile, Contents

LEMMA SedBegins ==
  ASSUME SedInv,
         NEW scope \in {"file", "directory"}, NEW backup \in BOOLEAN,
         Sed!StartRun(scope, backup)
  PROVE  SedInv'
<1>1. /\ x1' = x1
      /\ x2' = [run |-> x2.run + 1, pc |-> "walking", scope |-> scope, backup |-> backup,
                before |-> x1[0], visited |-> {}, writes |-> <<>>, clean |-> TRUE]
  BY DEF Sed!StartRun
<1>2. 0 \in Sed!Paths /\ x1[0] \in Contents /\ x2.run + 1 \in Nat /\ <<>> \in Seq(SedWrites)
  BY SedAssumption DEF Sed!Paths, SedInv, SedOK
<1>3. SedOK'
  BY <1>1, <1>2 DEF SedInv, SedOK
<1>4. Kept(0)'
  <2>1. \A q \in Sed!Paths : ~(q < 0)
    BY DEF Sed!Paths
  <2> QED
    BY <1>1, <2>1 DEF Kept
<1> QED
  BY <1>1, <1>2, <1>3, <1>4 DEF SedInv

LEMMA Joined ==
  ASSUME NEW S, NEW a \in S, NEW b \in S
  PROVE  <<a>> \o <<b>> = <<a, b>> /\ <<>> \o <<b>> = <<b>>
<1>1. <<a>> \in Seq(S) /\ <<b>> \in Seq(S) /\ <<a, b>> \in Seq(S) /\ <<>> \in Seq(S)
  OBVIOUS
<1>2. <<>> \o <<b>> = <<b>>
  BY <1>1, ConcatEmptySeq
<1>3. <<a>> \o <<b>> = <<a, b>>
  <2>1. <<a>> \o <<b>> \in Seq(S) /\ Len(<<a>> \o <<b>>) = 2
    BY <1>1
  <2>2. (<<a>> \o <<b>>)[1] = a /\ (<<a>> \o <<b>>)[2] = b
    BY <1>1
  <2> DEFINE s == <<a>> \o <<b>>
  <2> DEFINE t == <<a, b>>
  <2>3. Len(t) = 2 /\ t[1] = a /\ t[2] = b
    OBVIOUS
  <2>4. \A i \in 1 .. Len(s) : s[i] = t[i]
    <3>1. \A i \in 1 .. 2 : i = 1 \/ i = 2
      OBVIOUS
    <3> QED
      BY <2>1, <2>2, <2>3, <3>1
  <2>5. s \in Seq(S) /\ t \in Seq(S) /\ Len(s) = Len(t)
    BY <1>1, <2>1, <2>3
  <2> HIDE DEF s, t
  <2>6. s = t
    BY <2>4, <2>5, SeqEqual
  <2> QED
    BY <2>6 DEF s, t
<1> QED
  BY <1>2, <1>3

LEMMA SedVisits ==
  ASSUME SedInv, NEW p \in Sed!Paths, Sed!Pass(p) \/ Sed!ReplaceInFile(p)
  PROVE  SedInv'
<1>1. x2.pc = "walking" /\ p \notin x2.visited /\ x1' = x1 /\ Sed!Paths \subseteq Nat
  BY DEF Sed!Pass, Sed!ReplaceInFile, Sed!MayVisit, Sed!Paths
<1>2. x2.backup => \E k \in Sed!Paths : k <= p /\ Kept(k)
  <2>1. ASSUME NEW k \in Sed!Paths, Kept(k) PROVE k <= p
    <3>1. ~(p < k)
      BY <1>1, <2>1 DEF Kept
    <3>2. p \in Nat /\ k \in Nat
      BY <1>1
    <3> QED
      BY <3>1, <3>2
  <2> QED
    BY <1>1, <2>1 DEF SedInv
<1>3. ASSUME NEW k \in Sed!Paths, Kept(k), x2'.before = x2.before,
             x2'.visited = x2.visited \cup {p}
      PROVE  Kept(k)'
  BY <1>1, <1>3 DEF Kept
<1>4. CASE Sed!Pass(p)
  <2>1. x2' = [x2 EXCEPT !.visited = @ \cup {p}]
    BY <1>4 DEF Sed!Pass
  <2>2. SedOK' /\ x2'.pc = "walking" /\ x2'.backup = x2.backup /\ x2'.before = x2.before
        /\ x2'.visited = x2.visited \cup {p}
    BY <1>1, <2>1 DEF SedInv, SedOK
  <2> QED
    BY <1>2, <1>3, <2>2 DEF SedInv
<1>5. CASE Sed!ReplaceInFile(p)
  <2>0. Sed!Rewritten(x1[p]) \in Contents
    BY RewrittenContent DEF SedInv, SedOK
  <2>9. PICK c \in Contents : c = Sed!Rewritten(x1[p])
    BY <2>0
  <2>1. /\ x2' = [x2 EXCEPT !.visited = @ \cup {p}, !.pc = "writing",
                            !.writes = Sed!Writes(p, x1[p], c, x2.backup)]
        /\ x2.backup => p < LongestChain
    BY <1>5, <2>9 DEF Sed!ReplaceInFile
  <2>3. Write(p + 1, x1[p]) \in SedWrites /\ Write(p, c) \in SedWrites
    <3>1. p \in Nat /\ p + 1 \in Nat /\ x1[p] \in Contents
      BY <1>1 DEF SedInv, SedOK
    <3> QED
      BY <3>1 DEF Write, SedWrites
  <2>4. Sed!Writes(p, x1[p], c, x2.backup)
          = IF x2.backup THEN <<Write(p + 1, x1[p]), Write(p, c)>> ELSE <<Write(p, c)>>
    <3> DEFINE a == Write(p + 1, x1[p])
    <3> DEFINE b == Write(p, c)
    <3>1. Sed!Writes(p, x1[p], c, x2.backup) = (IF x2.backup THEN <<a>> ELSE <<>>) \o <<b>>
      BY DEF Sed!Writes, Write
    <3>2. a \in SedWrites /\ b \in SedWrites
      BY <2>3
    <3> HIDE DEF a, b
    <3>3. <<a>> \o <<b>> = <<a, b>> /\ <<>> \o <<b>> = <<b>>
      BY <3>2, Joined
    <3> QED
      BY <3>1, <3>3 DEF a, b
  <2>5. Sed!Writes(p, x1[p], c, x2.backup) \in Seq(SedWrites)
    BY <2>3, <2>4
  <2>6. SedOK' /\ x2'.pc = "writing" /\ x2'.backup = x2.backup /\ x2'.before = x2.before
        /\ x2'.visited = x2.visited \cup {p} /\ p \in x2'.visited
        /\ x2'.writes = Sed!Writes(p, x1[p], c, x2.backup)
    BY <1>1, <2>1, <2>5 DEF SedInv, SedOK
  <2>7. CASE x2.backup
    <3>1. p + 1 \in Sed!Paths
      BY <1>1, <2>1, <2>7, SedAssumption DEF Sed!Paths
    <3>2. \E k \in Sed!Paths : k <= p /\ Kept(k)'
      BY <1>2, <1>3, <2>6, <2>7
    <3>3. x2'.writes = <<Write(p + 1, x1'[p]), Write(p, c)>>
      BY <1>1, <2>4, <2>6, <2>7
    <3>4. BackingUp(p, c)'
      BY <2>6, <2>7, <3>1, <3>2, <3>3 DEF BackingUp, Write
    <3> QED
      BY <2>6, <3>4 DEF SedInv
  <2>8. CASE ~x2.backup
    <3>1. Rewriting(p, c)'
      BY <2>4, <2>6, <2>8 DEF Rewriting, Write
    <3> QED
      BY <2>6, <3>1 DEF SedInv
  <2> QED
    BY <2>7, <2>8
<1> QED
  BY <1>4, <1>5

(* What the next write may do to the disk.                                 *)
LEMMA SedWriting ==
  ASSUME SedInv, x2.pc = "writing"
  PROVE  /\ x2.writes # <<>> /\ Head(x2.writes).path \in Sed!Paths
         /\ Tail(x2.writes) \in Seq(SedWrites)
         /\ Head(x2.writes).content \in Contents
         /\ x2.backup => \E p \in Sed!Paths : Kept(p) /\ p # Head(x2.writes).path
<1>1. PICK r \in Sed!Paths, c \in Contents : BackingUp(r, c) \/ Rewriting(r, c)
  BY DEF SedInv
<1>2. r \in Nat /\ r + 1 \in Nat /\ x1[r] \in Contents /\ Sed!Paths \subseteq Nat
  BY DEF SedInv, SedOK, Sed!Paths
<1>3. Write(r + 1, x1[r]) \in SedWrites /\ Write(r, c) \in SedWrites
  BY <1>2 DEF Write, SedWrites
<1>4. CASE BackingUp(r, c)
  <2>1. /\ x2.writes = <<Write(r + 1, x1[r]), Write(r, c)>> /\ r + 1 \in Sed!Paths
        /\ \E p \in Sed!Paths : p <= r /\ Kept(p)
    BY <1>4 DEF BackingUp
  <2>2. Head(x2.writes) = Write(r + 1, x1[r]) /\ Tail(x2.writes) = <<Write(r, c)>>
    BY <1>3, <2>1
  <2>3. Head(x2.writes).path = r + 1 /\ Head(x2.writes).content = x1[r]
    BY <2>2 DEF Write
  <2>4. ASSUME NEW p \in Sed!Paths, p <= r PROVE p # r + 1
    BY <1>2, <2>4
  <2> QED
    BY <1>2, <1>3, <2>1, <2>2, <2>3, <2>4
<1>5. CASE Rewriting(r, c)
  <2>1. x2.writes = <<Write(r, c)>> /\ (x2.backup => \E p \in Sed!Paths : p # r /\ Kept(p))
    BY <1>5 DEF Rewriting
  <2>2. Head(x2.writes) = Write(r, c) /\ Tail(x2.writes) = <<>>
    BY <1>3, <2>1
  <2>3. Head(x2.writes).path = r /\ Head(x2.writes).content = c
    BY <2>2 DEF Write
  <2> QED
    BY <1>3, <2>1, <2>2, <2>3
<1> QED
  BY <1>1, <1>4, <1>5

(* Of what is kept, nothing is lost with another file.                     *)
LEMMA KeptBeside ==
  ASSUME SedOK, NEW r, NEW c, x1' = [x1 EXCEPT ![r] = c],
         x2'.before = x2.before, x2'.visited = x2.visited,
         NEW p \in Sed!Paths, Kept(p), p # r
  PROVE  Kept(p)'
  BY DEF SedOK, Kept

LEMMA SedWriteStep ==
  ASSUME SedInv, Sed!WriteNext
  PROVE  SedInv'
<1> DEFINE w == Head(x2.writes)
<1>1. /\ x2.pc = "writing" /\ x1' = [x1 EXCEPT ![w.path] = w.content]
      /\ x2' = [x2 EXCEPT !.writes = Tail(@),
                          !.pc = IF Len(x2.writes) = 1 THEN "walking" ELSE @]
  BY DEF Sed!WriteNext
<1>2. /\ w.path \in Sed!Paths /\ w.content \in Contents /\ Tail(x2.writes) \in Seq(SedWrites)
      /\ x2.backup => \E p \in Sed!Paths : Kept(p) /\ p # w.path
  BY <1>1, SedWriting
<1>3. SedOK' /\ x2'.before = x2.before /\ x2'.visited = x2.visited /\ x2'.backup = x2.backup
      /\ x2'.writes = Tail(x2.writes)
      /\ x2'.pc = IF Len(x2.writes) = 1 THEN "walking" ELSE "writing"
  <2> HIDE DEF w
  <2> QED
    BY <1>1, <1>2 DEF SedInv, SedOK
<1>4. PICK r \in Sed!Paths, c \in Contents : BackingUp(r, c) \/ Rewriting(r, c)
  BY <1>1 DEF SedInv
<1>5. r \in Nat /\ r + 1 \in Nat /\ x1[r] \in Contents /\ Sed!Paths \subseteq Nat
  BY DEF SedInv, SedOK, Sed!Paths
<1>6. Write(r + 1, x1[r]) \in SedWrites /\ Write(r, c) \in SedWrites
  BY <1>5 DEF Write, SedWrites
<1>7. CASE BackingUp(r, c)
  <2>1. /\ x2.writes = <<Write(r + 1, x1[r]), Write(r, c)>> /\ r + 1 \in Sed!Paths
        /\ r \in x2.visited /\ x2.backup
    BY <1>7 DEF BackingUp
  <2>2. w = Write(r + 1, x1[r]) /\ Tail(x2.writes) = <<Write(r, c)>> /\ Len(x2.writes) = 2
    BY <1>6, <2>1
  <2>3. w.path = r + 1 /\ w.content = x1[r]
    BY <2>2 DEF Write
  <2>4. PICK p \in Sed!Paths : p <= r /\ Kept(p)
    BY <1>7 DEF BackingUp
  <2> HIDE DEF w
  <2>5. \E k \in Sed!Paths : k # r /\ Kept(k)'
    <3>1. CASE p = r
      <4>1. x1'[r + 1] = x2.before
        BY <1>1, <2>1, <2>3, <2>4, <3>1 DEF Kept, SedInv, SedOK
      <4>2. \A q \in Sed!Paths : q < r + 1 => q \in x2.visited
        <5>1. ASSUME NEW q \in Sed!Paths, q < r + 1 PROVE q < r \/ q = r
          BY <1>5, <5>1
        <5> QED
          BY <2>1, <2>4, <3>1, <5>1 DEF Kept
      <4>3. Kept(r + 1)'
        BY <1>3, <4>1, <4>2 DEF Kept
      <4>4. r + 1 # r
        BY <1>5
      <4> QED
        BY <2>1, <4>3, <4>4
    <3>2. CASE p # r
      <4>1. p # w.path
        BY <1>5, <2>3, <2>4
      <4>2. Kept(p)'
        BY <1>1, <1>3, <2>4, <4>1, KeptBeside DEF SedInv
      <4> QED
        BY <3>2, <4>2
    <3> QED
      BY <3>1, <3>2
  <2>6. Rewriting(r, c)' /\ x2'.pc = "writing"
    BY <1>3, <2>2, <2>5 DEF Rewriting, Write
  <2> QED
    BY <1>3, <2>6 DEF SedInv
<1>8. CASE Rewriting(r, c)
  <2>1. Len(x2.writes) = 1
    BY <1>6, <1>8 DEF Rewriting
  <2>2. x2'.pc = "walking"
    BY <1>3, <2>1
  <2>3. x2.backup => \E p \in Sed!Paths : Kept(p)'
    <3> HIDE DEF w
    <3> QED
      BY <1>1, <1>2, <1>3, KeptBeside DEF SedInv
  <2> QED
    BY <1>3, <2>2, <2>3 DEF SedInv
<1> QED
  BY <1>4, <1>7, <1>8

(* A write that fails or is cut off, a kill, and the end of the walk.      *)
LEMMA SedStops ==
  ASSUME SedInv, Sed!WriteFails \/ Sed!Killed \/ Sed!Finish
  PROVE  SedInv'
<1>1. PICK clean \in BOOLEAN, pc \in {"walking", "done"} :
        x2' = [x2 EXCEPT !.pc = pc, !.writes = <<>>, !.clean = clean]
        \/ x2' = [x2 EXCEPT !.pc = pc]
  BY DEF Sed!WriteFails, Sed!Killed, Sed!Finish
<1>2. <<>> \in Seq(SedWrites)
  OBVIOUS
<1>3. /\ x2' \in [run : Nat, pc : {"walking", "writing", "done"},
                  scope : {"file", "directory"}, backup : BOOLEAN, before : Contents,
                  visited : SUBSET Sed!Paths, writes : Seq(SedWrites), clean : BOOLEAN]
      /\ x2'.pc # "writing" /\ x2'.backup = x2.backup
      /\ x2'.before = x2.before /\ x2'.visited = x2.visited
  BY <1>1, <1>2 DEF SedInv, SedOK
<1>4. CASE x1' = x1
  <2>1. x2.backup => \E p \in Sed!Paths : Kept(p)
    BY SedWriting DEF SedInv
  <2> QED
    BY <1>3, <1>4, <2>1 DEF SedInv, SedOK, Kept
<1>5. CASE x2.pc = "writing" /\ x1' = [x1 EXCEPT ![Head(x2.writes).path] = Sed!TornFile]
  <2> DEFINE r == Head(x2.writes).path
  <2>1. r \in Sed!Paths /\ (x2.backup => \E p \in Sed!Paths : Kept(p) /\ p # r)
    BY <1>5, SedWriting
  <2>2. Sed!TornFile \in Contents
    BY DEF Sed!TornFile, Contents
  <2> HIDE DEF r
  <2>3. SedOK'
    BY <1>3, <1>5, <2>1, <2>2 DEF SedInv, SedOK, r
  <2>4. x2.backup => \E p \in Sed!Paths : Kept(p)'
    BY <1>3, <1>5, <2>1, KeptBeside DEF SedInv, r
  <2> QED
    BY <1>3, <2>3, <2>4 DEF SedInv
<1> QED
  BY <1>4, <1>5 DEF Sed!WriteFails, Sed!Killed, Sed!Finish

LEMMA SedStep == SedInv /\ [Sed!Next]_(Sed!sedVars) => SedInv'
<1> SUFFICES ASSUME SedInv, [Sed!Next]_(Sed!sedVars) PROVE SedInv'
  OBVIOUS
<1>1. CASE UNCHANGED Sed!sedVars
  BY <1>1 DEF Sed!sedVars, SedInv, SedOK, BackingUp, Rewriting, Kept, Write
<1> QED
  BY <1>1, SedBegins, SedVisits, SedWriteStep, SedStops DEF Sed!Next

LEMMA SedKeeps == SedInv => Sed!OriginalSurvives
<1> SUFFICES ASSUME SedInv PROVE Sed!OriginalSurvives
  OBVIOUS
<1>1. x2.backup => \E p \in Sed!Paths : Kept(p)
  BY SedWriting DEF SedInv
<1> QED
  BY <1>1 DEF Kept, Sed!OriginalSurvives

(* The walk has been at every file of the chain before the one that holds  *)
(* the original (sed.rs 101-117, 155-210).                                 *)
THEOREM SedCorrect == Sed!Spec => []SedInv
  BY SedStarts, SedStep, PTL DEF Sed!Spec

-----------------------------------------------------------------------------
(* 2. The cleanup scheduler.                                               *)

scheduled == x1
disk == x2
whole == x3
limiting == x4
sessions == x5
modules == x6
rotation == x7
pruned == x8

USE DEF scheduled, disk, whole, limiting, sessions, modules, rotation, pruned

HistoryFiles == {"history", "archive", "gzip"}

(* Where the history is whole when a rotation reaches a step, unless the   *)
(* file limit took it.                                                     *)
RotationKeeps ==
  \/ pruned
  \/ /\ whole # {}
     /\ rotation = "opening" => "archive" \in whole
     /\ rotation = "compressing" => "archive" \in whole /\ "gzip" \in disk
     /\ rotation \in {"unlinking", "recreating"} => "gzip" \in whole

HistoryInv ==
  /\ whole \subseteq disk \cap HistoryFiles /\ pruned \in BOOLEAN
  /\ RotationKeeps


LEMMA HistoryStarts == Cleanup!Init => HistoryInv
  BY DEF Cleanup!Init, Cleanup!Files, Cleanup!Under, Cleanup!Archives, HistoryInv,
         HistoryFiles, RotationKeeps

(* Files that are not the history's are taken away, whoever does.          *)
LEMMA OthersGone ==
  ASSUME HistoryInv, NEW F, F \cap HistoryFiles = {}, Cleanup!Delete(F),
         UNCHANGED <<rotation, pruned>>
  PROVE  HistoryInv'
  BY DEF HistoryInv, HistoryFiles, RotationKeeps, Cleanup!Delete

LEMMA LimitHistory ==
  ASSUME HistoryInv, Cleanup!LimitStep
  PROVE  HistoryInv'
<1>1. CASE \E f \in Cleanup!Files : Cleanup!LimitDeletes(f)
  <2>1. PICK f \in Cleanup!Files : Cleanup!LimitDeletes(f)
    BY <1>1
  <2>5. CASE UNCHANGED <<disk, whole, rotation, pruned>>
    BY <2>5 DEF HistoryInv, RotationKeeps
  <2>6. UNCHANGED rotation
    BY <2>1 DEF Cleanup!LimitDeletes, Cleanup!limitOnly
  <2> SUFFICES ASSUME /\ Cleanup!Delete({f})
                      /\ pruned' = (pruned \/ f \in disk \cap HistoryFiles)
               PROVE  HistoryInv'
    BY <2>1, <2>5, <2>6 DEF Cleanup!LimitDeletes, HistoryFiles
  <2>2. /\ Cleanup!Delete({f}) /\ UNCHANGED rotation
        /\ pruned' = (pruned \/ f \in disk \cap HistoryFiles)
    BY <2>6
  <2>3. CASE pruned' = TRUE
    BY <2>2, <2>3 DEF HistoryInv, Cleanup!Delete, RotationKeeps
  <2>4. CASE ~pruned /\ f \notin disk \cap HistoryFiles
    <3>1. pruned' = FALSE
      BY <2>2, <2>4
    <3>2. whole' = whole /\ disk \cap HistoryFiles = disk' \cap HistoryFiles
      BY <2>2, <2>4 DEF HistoryInv, Cleanup!Delete
    <3> QED
      BY <2>2, <2>4, <3>1, <3>2 DEF HistoryInv, RotationKeeps, HistoryFiles
  <2> QED
    BY <2>2, <2>3, <2>4 DEF HistoryInv
<1>2. CASE UNCHANGED <<disk, whole, rotation, pruned>>
  BY <1>2 DEF HistoryInv, RotationKeeps
<1> QED
  BY <1>1, <1>2
  DEF Cleanup!LimitStep, Cleanup!LimitBegins, Cleanup!LimitLists, Cleanup!LimitCounts,
      Cleanup!LimitSorts, Cleanup!LimitEnds, Cleanup!limitOnly

LEMMA RotationHistory ==
  ASSUME HistoryInv, Cleanup!RotationStep
  PROVE  HistoryInv'
<1>0. UNCHANGED pruned
  BY DEF Cleanup!RotationStep, Cleanup!rotationOnly, Cleanup!RotationBegins,
         Cleanup!HistoryRenamed, Cleanup!ArchiveOpened, Cleanup!ArchiveCompressed,
         Cleanup!ArchiveUnlinked, Cleanup!HistoryRecreated, Cleanup!RotationFails
<1> USE DEF HistoryInv, HistoryFiles, RotationKeeps, Cleanup!Rotates
<1>1. CASE Cleanup!RotationBegins
  BY <1>0, <1>1 DEF Cleanup!RotationBegins
<1>2. CASE UNCHANGED <<disk, whole>> /\ rotation' = "resting"
  BY <1>0, <1>2
<1>3. CASE /\ "history" \in disk /\ rotation' = "opening"
           /\ disk' = (disk \ {"history"}) \cup {"archive"}
           /\ whole' = {"archive"} \cup (whole \ {"history"})
  BY <1>0, <1>3
<1>4. CASE Cleanup!ArchiveOpened
  <2>1. PICK made \in SUBSET {"gzip"} :
          /\ "archive" \in disk => made # {}
          /\ disk' = disk \cup made /\ whole' = whole \ made
    BY <1>4 DEF Cleanup!ArchiveOpened
  <2>2. /\ rotation = "opening"
        /\ rotation' = IF "archive" \in disk THEN "compressing" ELSE "resting"
    BY <1>4 DEF Cleanup!ArchiveOpened
  <2>3. whole' \subseteq disk' \cap HistoryFiles
    BY <2>1
  <2>4. CASE pruned
    BY <1>0, <2>3, <2>4
  <2>5. CASE ~pruned
    <3>1. "archive" \in whole /\ "archive" \in disk
      BY <2>2, <2>5
    <3>2. "archive" \in whole' /\ "gzip" \in disk' /\ rotation' = "compressing"
      BY <2>1, <2>2, <3>1
    <3> QED
      BY <1>0, <2>3, <3>2
  <2> QED
    BY <2>4, <2>5
<1>5. CASE Cleanup!ArchiveCompressed
  BY <1>0, <1>5 DEF Cleanup!ArchiveCompressed
<1>6. CASE rotation = "unlinking" /\ Cleanup!Vanish({"archive"}) /\ rotation' = "recreating"
  BY <1>0, <1>6 DEF Cleanup!Vanish, Cleanup!Delete
<1>7. CASE Cleanup!HistoryRecreated
  BY <1>0, <1>7 DEF Cleanup!HistoryRecreated
<1> QED
  BY <1>1, <1>2, <1>3, <1>4, <1>5, <1>6, <1>7
  DEF Cleanup!RotationStep, Cleanup!HistoryRenamed, Cleanup!ArchiveUnlinked,
      Cleanup!RotationFails

LEMMA HistoryStep ==
  ASSUME HistoryInv, [Cleanup!Next]_(Cleanup!cleanupVars)
  PROVE  HistoryInv'
<1>1. CASE UNCHANGED Cleanup!cleanupVars
  BY <1>1 DEF Cleanup!cleanupVars, HistoryInv, RotationKeeps
<1>2. CASE \/ Cleanup!Start \/ Cleanup!Stop \/ Cleanup!SessionsBegin \/ Cleanup!ModulesBegin
           \/ Cleanup!SessionsFail \/ Cleanup!ModulesFail
  BY <1>2 DEF Cleanup!Start, Cleanup!Stop, Cleanup!SessionsBegin, Cleanup!ModulesBegin,
              Cleanup!SessionsFail, Cleanup!ModulesFail, HistoryInv, RotationKeeps
<1>3. CASE Cleanup!Crash
  BY <1>3 DEF Cleanup!Crash, HistoryInv, RotationKeeps
<1>4. CASE \E f \in Cleanup!Sessions : Cleanup!SessionsClean(f)
  <2>1. PICK f \in Cleanup!Sessions : Cleanup!SessionsClean(f)
    BY <1>4
  <2>2. CASE f \in OldSessions
    <3>1. \/ UNCHANGED <<disk, whole, rotation, pruned>>
          \/ (Cleanup!Delete({f}) /\ UNCHANGED <<rotation, pruned>>)
      BY <2>1 DEF Cleanup!SessionsClean, Cleanup!Vanish
    <3>2. {f} \cap HistoryFiles = {}
      BY <2>2, CleanupAssumption DEF HistoryFiles
    <3> QED
      BY <3>1, <3>2, OthersGone DEF HistoryInv, RotationKeeps
  <2>3. CASE f \notin OldSessions
    BY <2>1, <2>3 DEF Cleanup!SessionsClean, HistoryInv, RotationKeeps
  <2> QED
    BY <2>2, <2>3
<1>5. CASE Cleanup!ModulesClean \/ Cleanup!PackagesClean
  <2>1. PICK F \in {{f} : f \in Modules} \cup {{"node_modules"}, {"package"}} :
          Cleanup!Delete(F) /\ UNCHANGED <<rotation, pruned>>
    BY <1>5 DEF Cleanup!ModulesClean, Cleanup!PackagesClean, Cleanup!Vanish
  <2>2. F \cap HistoryFiles = {}
    BY CleanupAssumption DEF HistoryFiles
  <2> QED
    BY <2>1, <2>2, OthersGone
<1> QED
  BY <1>1, <1>2, <1>3, <1>4, <1>5, LimitHistory, RotationHistory DEF Cleanup!Next

(* A run of the file limit: every file listed that is there still is among *)
(* those listed, whose number is counted (twice if listed twice).          *)
Runs == [at : {"resting", "listing", "asking", "deleting"},
         dirs : SUBSET {"archive", "modules"}, count : Nat,
         here : SUBSET Cleanup!Files, left : SUBSET Cleanup!Files, kept : SUBSET Cleanup!Files]

LimitInv ==
  /\ limiting \in Runs /\ limiting.here \subseteq disk
  /\ limiting.at = "listing" => Cardinality(limiting.here) <= limiting.count
  /\ limiting.at = "asking" => /\ limiting.here \subseteq limiting.left
                               /\ Cardinality(limiting.left) <= limiting.count
  /\ limiting.at = "deleting"
       => Cardinality(limiting.here \ (limiting.left \cup limiting.kept)) <= MaxFiles

(* The scheduler's module has FiniteSets of its own.                       *)
LEMMA SameCardinality == \A S : Cleanup!Cardinality(S) = Cardinality(S)
  BY DEF Cleanup!Cardinality, Cardinality

LEMMA FilesFinite ==
  /\ IsFiniteSet(Cleanup!Files)
  /\ \A F \in SUBSET Cleanup!Files : IsFiniteSet(F) /\ Cardinality(F) \in Nat
<1>1. IsFiniteSet({"archive", "gzip", "lastMonth", "history", "package"})
  <2>1. IsFiniteSet({})
    BY FS_EmptySet
  <2>2. IsFiniteSet({} \cup {"archive"})
    BY <2>1, FS_AddElement
  <2>3. IsFiniteSet(({} \cup {"archive"}) \cup {"gzip"})
    BY <2>2, FS_AddElement
  <2>4. IsFiniteSet((({} \cup {"archive"}) \cup {"gzip"}) \cup {"lastMonth"})
    BY <2>3, FS_AddElement
  <2>5. IsFiniteSet(((({} \cup {"archive"}) \cup {"gzip"}) \cup {"lastMonth"}) \cup {"history"})
    BY <2>4, FS_AddElement
  <2>6. IsFiniteSet((((({} \cup {"archive"}) \cup {"gzip"}) \cup {"lastMonth"}) \cup {"history"})
                      \cup {"package"})
    BY <2>5, FS_AddElement
  <2>7. {"archive", "gzip", "lastMonth", "history", "package"}
          = (((({} \cup {"archive"}) \cup {"gzip"}) \cup {"lastMonth"}) \cup {"history"})
              \cup {"package"}
    OBVIOUS
  <2> QED
    BY <2>6, <2>7
<1>2. Cleanup!Files = (OldSessions \cup NewSessions \cup Modules \cup Current)
                        \cup {"archive", "gzip", "lastMonth", "history", "package"}
  BY DEF Cleanup!Files, Cleanup!Under, Cleanup!Sessions, Cleanup!Archives
<1>3. IsFiniteSet(Cleanup!Files)
  BY <1>1, <1>2, CleanupAssumption, FS_Union
<1> QED
  BY <1>3, FS_Subset, FS_CardinalityType

LEMMA LimitStarts == Cleanup!Init => LimitInv
<1>1. {} \subseteq Cleanup!Files /\ 0 \in Nat
  OBVIOUS
<1> QED
  BY <1>1 DEF Cleanup!Init, Cleanup!Resting, LimitInv, Runs

LEMMA RestingInv == ASSUME limiting' = Cleanup!Resting PROVE LimitInv'
  BY DEF Cleanup!Resting, LimitInv, Runs

(* Files that vanish during a run leave it no more than it counted.        *)
LEMMA FilesVanish ==
  ASSUME LimitInv, NEW F, limiting' = [limiting EXCEPT !.here = @ \ F],
         limiting.here \ F \subseteq disk'
  PROVE  LimitInv'
<1> DEFINE here == limiting.here
<1> DEFINE mine == limiting.left \cup limiting.kept
<1>1. /\ here \in SUBSET Cleanup!Files /\ limiting.left \in SUBSET Cleanup!Files
      /\ limiting.count \in Nat
  BY DEF LimitInv, Runs
<1>2. /\ limiting' \in Runs /\ limiting'.here = here \ F /\ limiting'.at = limiting.at
      /\ limiting'.count = limiting.count /\ limiting'.left = limiting.left
      /\ limiting'.kept = limiting.kept
  BY DEF LimitInv, Runs
<1>3. /\ Cardinality(here \ F) <= Cardinality(here)
      /\ Cardinality(here \ F) \in Nat /\ Cardinality(here) \in Nat
  <2>1. here \ F \in SUBSET here /\ here \ F \in SUBSET Cleanup!Files
    BY <1>1
  <2> QED
    BY <1>1, <2>1, FilesFinite, FS_Subset
<1>4. /\ Cardinality((here \ F) \ mine) <= Cardinality(here \ mine)
      /\ Cardinality((here \ F) \ mine) \in Nat
      /\ Cardinality(here \ mine) \in Nat
  <2>1. /\ (here \ F) \ mine \in SUBSET (here \ mine)
        /\ (here \ F) \ mine \in SUBSET Cleanup!Files
        /\ here \ mine \in SUBSET Cleanup!Files
    BY <1>1
  <2> QED
    BY <2>1, FilesFinite, FS_Subset
<1> HIDE DEF here, mine
<1>5. limiting.at = "listing" => Cardinality(limiting'.here) <= limiting'.count
  BY <1>1, <1>2, <1>3 DEF LimitInv, here
<1>6. limiting.at = "asking" => /\ limiting'.here \subseteq limiting'.left
                               /\ Cardinality(limiting'.left) <= limiting'.count
  BY <1>1, <1>2 DEF LimitInv, here
<1>7. limiting.at = "deleting" => Cardinality(limiting'.here \ (limiting'.left \cup limiting'.kept)) <= MaxFiles
  <2>1. limiting'.here \ (limiting'.left \cup limiting'.kept) = (here \ F) \ mine
    BY <1>2 DEF mine
  <2>2. limiting.at = "deleting" => Cardinality(here \ mine) <= MaxFiles
    BY DEF LimitInv, here, mine
  <2>3. limiting.at = "deleting" => Cardinality((here \ F) \ mine) <= MaxFiles
    BY <1>4, <2>2, CleanupAssumption
  <2> QED
    BY <2>1, <2>3, Zenon
<1> QED
  BY <1>2, <1>5, <1>6, <1>7 DEF LimitInv, here

LEMMA LimitListing ==
  ASSUME LimitInv, Cleanup!LimitBegins \/ \E dir \in {"archive", "modules"} : Cleanup!LimitLists(dir)
  PROVE  LimitInv'
<1>0. disk' = disk
  BY DEF Cleanup!LimitBegins, Cleanup!LimitLists
<1>1. \A dir \in {"opencode", "archive", "modules"} :
        Cleanup!Under(dir) \cap disk \in SUBSET Cleanup!Files
  BY DEF Cleanup!Files
<1>2. CASE Cleanup!LimitBegins
  <2>1. PICK here \in SUBSET Cleanup!Files : here = Cleanup!Under("opencode") \cap disk
    BY <1>1
  <2>2. PICK dirs \in SUBSET {"archive", "modules"} :
          limiting' = [Cleanup!Resting EXCEPT !.at = "listing", !.count = Cardinality(here),
                                              !.here = here, !.dirs = dirs]
    <3>1. PICK dirs \in SUBSET {"archive", "modules"} :
            dirs = {"archive"} \cup (IF "node_modules" \in disk THEN {"modules"} ELSE {})
      OBVIOUS
    <3>2. limiting' = [Cleanup!Resting EXCEPT !.at = "listing",
                         !.count = Cardinality(Cleanup!Under("opencode") \cap disk),
                         !.here = Cleanup!Under("opencode") \cap disk,
                         !.dirs = {"archive"} \cup
                                  (IF "node_modules" \in disk THEN {"modules"} ELSE {})]
      BY <1>2, SameCardinality DEF Cleanup!LimitBegins
    <3> QED
      BY <2>1, <3>1, <3>2, Zenon
  <2>3. Cardinality(here) \in Nat
    BY FilesFinite
  <2>4. limiting' = [at |-> "listing", dirs |-> dirs, count |-> Cardinality(here),
                     here |-> here, left |-> {}, kept |-> {}]
    BY <2>2 DEF Cleanup!Resting
  <2> QED
    BY <1>0, <2>1, <2>3, <2>4 DEF LimitInv, Runs
<1>3. ASSUME NEW dir \in {"archive", "modules"}, Cleanup!LimitLists(dir)
      PROVE  LimitInv'
  <2>1. PICK here \in SUBSET Cleanup!Files : here = Cleanup!Under(dir) \cap disk
    BY <1>1
  <2>2. CASE limiting' = Cleanup!Resting
    BY <2>2, RestingInv
  <2>3. CASE limiting' = [limiting EXCEPT !.dirs = @ \ {dir}, !.here = @ \cup here,
                                          !.count = @ + Cardinality(here)]
    <3>1. limiting.here \in SUBSET Cleanup!Files /\ limiting.count \in Nat /\ limiting.at = "listing"
      BY <1>3 DEF LimitInv, Runs, Cleanup!LimitLists
    <3>2. Cardinality(limiting.here \cup here) <= Cardinality(limiting.here) + Cardinality(here)
      <4>1. limiting.here \cap here \in SUBSET Cleanup!Files
        BY <3>1
      <4>2. /\ IsFiniteSet(limiting.here) /\ IsFiniteSet(here)
            /\ Cardinality(limiting.here) \in Nat /\ Cardinality(here) \in Nat
            /\ Cardinality(limiting.here \cap here) \in Nat
        BY <3>1, <4>1, FilesFinite
      <4>3. Cardinality(limiting.here \cup here)
              = Cardinality(limiting.here) + Cardinality(here) - Cardinality(limiting.here \cap here)
        BY <4>2, FS_Union
      <4> QED
        BY <4>2, <4>3
    <3>3. /\ Cardinality(limiting.here) \in Nat /\ Cardinality(here) \in Nat
          /\ Cardinality(limiting.here \cup here) \in Nat
      <4>1. limiting.here \cup here \in SUBSET Cleanup!Files
        BY <3>1
      <4> QED
        BY <3>1, <4>1, FilesFinite
    <3>4. limiting.count + Cardinality(here) \in Nat
      BY <3>1, <3>3
    <3>5. /\ limiting' \in Runs /\ limiting'.at = "listing"
          /\ limiting'.here = limiting.here \cup here
          /\ limiting'.count = limiting.count + Cardinality(here)
      BY <2>3, <3>1, <3>4 DEF LimitInv, Runs
    <3>6. Cardinality(limiting.here) <= limiting.count
      BY <3>1 DEF LimitInv
    <3>7. Cardinality(limiting'.here) <= limiting'.count
      BY <3>1, <3>2, <3>3, <3>5, <3>6
    <3>8. limiting'.here \subseteq disk'
      BY <1>0, <2>1, <3>5 DEF LimitInv
    <3> QED
      BY <3>5, <3>7, <3>8 DEF LimitInv
  <2>4. \/ limiting' = Cleanup!Resting
        \/ limiting' = [limiting EXCEPT !.dirs = @ \ {dir}, !.here = @ \cup here,
                                        !.count = @ + Cardinality(here)]
    <3>1. \/ limiting' = Cleanup!Resting
          \/ limiting' = [limiting EXCEPT !.dirs = @ \ {dir},
                            !.here = @ \cup (Cleanup!Under(dir) \cap disk),
                            !.count = @ + Cardinality(Cleanup!Under(dir) \cap disk)]
      BY <1>3, SameCardinality DEF Cleanup!LimitLists
    <3> QED
      BY <2>1, <3>1, Zenon
  <2> QED
    BY <2>2, <2>3, <2>4
<1> QED
  BY <1>2, <1>3

(* What is chosen is the excess of what was counted, or everything.        *)
LEMMA LimitChoosing ==
  ASSUME LimitInv, Cleanup!LimitSorts
  PROVE  LimitInv'
<1>0. PICK gone \in SUBSET (limiting.left \ disk) :
        \E doomed \in SUBSET (limiting.left \ gone) :
          /\ \/ Cardinality(doomed) = limiting.count - MaxFiles
             \/ /\ doomed = limiting.left \ gone
                /\ Cardinality(doomed) < limiting.count - MaxFiles
          /\ limiting' = [limiting EXCEPT !.at = "deleting", !.left = doomed]
  BY SameCardinality, Zenon DEF Cleanup!LimitSorts, Cleanup!Excess
<1>1. PICK doomed \in SUBSET (limiting.left \ gone) :
        /\ \/ Cardinality(doomed) = limiting.count - MaxFiles
           \/ doomed = limiting.left \ gone
        /\ limiting' = [limiting EXCEPT !.at = "deleting", !.left = doomed]
  BY <1>0
<1>2. /\ limiting.at = "asking" /\ disk' = disk
      /\ limiting.here \in SUBSET Cleanup!Files /\ limiting.left \in SUBSET Cleanup!Files
      /\ limiting.count \in Nat /\ limiting.here \subseteq limiting.left \ gone
      /\ Cardinality(limiting.left) <= limiting.count
  BY <1>1 DEF Cleanup!LimitSorts, LimitInv, Runs
<1>3. /\ limiting' \in Runs /\ limiting'.at = "deleting" /\ limiting'.left = doomed
      /\ limiting'.here = limiting.here
  BY <1>1, <1>2 DEF LimitInv, Runs
<1> DEFINE others == limiting.here \ (limiting'.left \cup limiting'.kept)
<1>4. Cardinality(limiting.here \ doomed) <= MaxFiles
  <2> DEFINE kept == limiting.here \ doomed
  <2>1. CASE doomed = limiting.left \ gone
    <3>1. kept = {}
      BY <1>2, <2>1
    <3>2. Cardinality(kept) = 0
      BY <3>1, FS_EmptySet, Zenon
    <3> QED
      BY <3>2, CleanupAssumption
  <2>2. CASE Cardinality(doomed) = limiting.count - MaxFiles
    <3>1. /\ kept \in SUBSET limiting.left /\ doomed \in SUBSET limiting.left
          /\ kept \cap doomed = {} /\ kept \cup doomed \in SUBSET limiting.left
      BY <1>1, <1>2
    <3>2. /\ IsFiniteSet(limiting.left) /\ IsFiniteSet(kept) /\ IsFiniteSet(doomed)
          /\ Cardinality(kept) \in Nat /\ Cardinality(doomed) \in Nat
          /\ Cardinality(limiting.left) \in Nat /\ Cardinality(kept \cup doomed) \in Nat
      <4>1. kept \in SUBSET Cleanup!Files /\ doomed \in SUBSET Cleanup!Files
            /\ kept \cup doomed \in SUBSET Cleanup!Files
        BY <1>2, <3>1
      <4> QED
        BY <1>2, <4>1, FilesFinite
    <3> HIDE DEF kept
    <3>3. Cardinality(kept \cup doomed) = Cardinality(kept) + Cardinality(doomed)
      <4>1. Cardinality(kept \cup doomed)
              = Cardinality(kept) + Cardinality(doomed) - Cardinality(kept \cap doomed)
        BY <3>2, FS_Union
      <4>2. Cardinality(kept \cap doomed) = 0
        BY <3>1, FS_EmptySet, Zenon
      <4> QED
        BY <3>2, <4>1, <4>2
    <3>4. Cardinality(kept \cup doomed) <= Cardinality(limiting.left)
      BY <3>1, <3>2, FS_Subset
    <3>5. Cardinality(kept) <= MaxFiles
      BY <1>2, <2>2, <3>2, <3>3, <3>4, CleanupAssumption
    <3> QED
      BY <3>5 DEF kept
  <2> QED
    BY <1>1, <2>1, <2>2
<1>5. Cardinality(others) <= MaxFiles
  <2>1. /\ others \in SUBSET (limiting.here \ doomed) /\ others \in SUBSET Cleanup!Files
        /\ limiting.here \ doomed \in SUBSET Cleanup!Files
    BY <1>2, <1>3
  <2>2. /\ Cardinality(others) <= Cardinality(limiting.here \ doomed)
        /\ Cardinality(others) \in Nat /\ Cardinality(limiting.here \ doomed) \in Nat
    BY <2>1, FilesFinite, FS_Subset
  <2> QED
    BY <1>4, <2>2, CleanupAssumption
<1> QED
  BY <1>2, <1>3, <1>5 DEF LimitInv

LEMMA LimitRuns ==
  ASSUME LimitInv, Cleanup!LimitStep
  PROVE  LimitInv'
<1>1. CASE Cleanup!LimitCounts
  <2>1. CASE limiting' = Cleanup!Resting
    BY <2>1, RestingInv
  <2>2. CASE limiting' = [limiting EXCEPT !.at = "asking", !.left = limiting.here]
    <3>1. disk' = disk /\ limiting.at = "listing"
      BY <1>1 DEF Cleanup!LimitCounts
    <3>2. /\ limiting' \in Runs /\ limiting'.at = "asking" /\ limiting'.here = limiting.here
          /\ limiting'.left = limiting.here /\ limiting'.count = limiting.count
      BY <2>2 DEF LimitInv, Runs
    <3> QED
      BY <3>1, <3>2 DEF LimitInv
  <2> QED
    BY <1>1, <2>1, <2>2 DEF Cleanup!LimitCounts
<1>2. CASE Cleanup!LimitEnds
  BY <1>2, RestingInv DEF Cleanup!LimitEnds
<1>3. ASSUME NEW f \in Cleanup!Files, Cleanup!LimitDeletes(f)
      PROVE  LimitInv'
  <2> DEFINE others == limiting.here \ (limiting.left \cup limiting.kept)
  <2>1. limiting.at = "deleting" /\ f \in limiting.left
    BY <1>3 DEF Cleanup!LimitDeletes
  <2>2. CASE /\ disk' = disk \ {f}
             /\ limiting' = [limiting EXCEPT !.left = @ \ {f}, !.here = @ \ {f}]
    <3>1. /\ limiting' \in Runs /\ limiting'.at = "deleting" /\ limiting'.kept = limiting.kept
          /\ limiting'.here = limiting.here \ {f} /\ limiting'.left = limiting.left \ {f}
      BY <2>1, <2>2 DEF LimitInv, Runs
    <3>2. limiting'.here \ (limiting'.left \cup limiting'.kept) = others
      BY <2>1, <3>1
    <3> QED
      BY <2>1, <2>2, <3>1, <3>2 DEF LimitInv
  <2>3. CASE disk' = disk /\ limiting' = [limiting EXCEPT !.left = @ \ {f}, !.kept = @ \cup {f}]
    <3>1. /\ limiting' \in Runs /\ limiting'.at = "deleting" /\ limiting'.here = limiting.here
          /\ limiting'.left = limiting.left \ {f} /\ limiting'.kept = limiting.kept \cup {f}
      BY <2>1, <2>3 DEF LimitInv, Runs
    <3>2. limiting'.here \ (limiting'.left \cup limiting'.kept) = others
      BY <2>1, <3>1
    <3> QED
      BY <2>1, <2>3, <3>1, <3>2 DEF LimitInv
  <2> QED
    BY <1>3, <2>2, <2>3 DEF Cleanup!LimitDeletes, Cleanup!Delete
<1> QED
  BY <1>1, <1>2, <1>3, LimitListing, LimitChoosing DEF Cleanup!LimitStep

LEMMA LimitStepKeeps ==
  ASSUME LimitInv, [Cleanup!Next]_(Cleanup!cleanupVars)
  PROVE  LimitInv'
<1>0. limiting.here \subseteq disk
  BY DEF LimitInv
<1>1. CASE UNCHANGED <<disk, limiting>>
  BY <1>1 DEF LimitInv
<1>2. CASE Cleanup!Crash
  BY <1>2, RestingInv DEF Cleanup!Crash
<1>3. ASSUME NEW F, Cleanup!Vanish(F) PROVE LimitInv'
  BY <1>0, <1>3, FilesVanish DEF Cleanup!Vanish, Cleanup!Delete
<1>4. CASE Cleanup!HistoryRenamed
  BY <1>0, <1>4, FilesVanish DEF Cleanup!HistoryRenamed
<1>5. CASE Cleanup!HistoryRecreated
  BY <1>0, <1>5, FilesVanish DEF Cleanup!HistoryRecreated
<1>6. CASE Cleanup!ArchiveOpened
  <2>1. limiting' = limiting /\ disk \subseteq disk'
    BY <1>6 DEF Cleanup!ArchiveOpened
  <2> QED
    BY <1>0, <2>1 DEF LimitInv
<1>7. CASE Cleanup!ArchiveUnlinked
  BY <1>3, <1>7 DEF Cleanup!ArchiveUnlinked
<1>8. CASE Cleanup!RotationBegins \/ Cleanup!ArchiveCompressed \/ Cleanup!Start \/ Cleanup!Stop
           \/ Cleanup!SessionsBegin \/ Cleanup!ModulesBegin
           \/ Cleanup!RotationFails \/ Cleanup!SessionsFail \/ Cleanup!ModulesFail
  BY <1>1, <1>8
  DEF Cleanup!RotationBegins, Cleanup!ArchiveCompressed, Cleanup!Start, Cleanup!Stop,
      Cleanup!SessionsBegin, Cleanup!ModulesBegin, Cleanup!RotationFails,
      Cleanup!SessionsFail, Cleanup!ModulesFail
<1>9. CASE \/ \E f \in Cleanup!Sessions : Cleanup!SessionsClean(f)
           \/ Cleanup!ModulesClean \/ Cleanup!PackagesClean
  BY <1>1, <1>3, <1>9
  DEF Cleanup!SessionsClean, Cleanup!ModulesClean, Cleanup!PackagesClean
<1>10. CASE UNCHANGED Cleanup!cleanupVars
  BY <1>1, <1>10 DEF Cleanup!cleanupVars
<1> QED
  BY <1>2, <1>4, <1>5, <1>6, <1>7, <1>8, <1>9, <1>10, LimitRuns
  DEF Cleanup!Next, Cleanup!RotationStep

CleanupInv == HistoryInv /\ LimitInv

LEMMA CleanupStep == CleanupInv /\ [Cleanup!Next]_(Cleanup!cleanupVars) => CleanupInv'
  BY HistoryStep, LimitStepKeeps DEF CleanupInv

LEMMA CleanupKeeps == CleanupInv => Cleanup!HistorySurvives /\ Cleanup!LimitEnforced
<1> SUFFICES ASSUME CleanupInv PROVE Cleanup!HistorySurvives /\ Cleanup!LimitEnforced
  OBVIOUS
<1>1. Cleanup!HistorySurvives
  BY DEF CleanupInv, HistoryInv, RotationKeeps, Cleanup!HistorySurvives
<1>2. ASSUME limiting.at = "deleting", limiting.left = {}
      PROVE  Cardinality(limiting.here \ limiting.kept) <= MaxFiles
  <2>1. limiting.here \ (limiting.left \cup limiting.kept) = limiting.here \ limiting.kept
    BY <1>2
  <2>2. Cardinality(limiting.here \ (limiting.left \cup limiting.kept)) <= MaxFiles
    BY <1>2 DEF CleanupInv, LimitInv
  <2> QED
    BY <2>1, <2>2, Zenon
<1> QED
  BY <1>1, <1>2, SameCardinality DEF Cleanup!LimitEnforced

(* At every step of a rotation the history is whole in the file that the   *)
(* step leaves alone, unless the file limit has deleted it; and what a run *)
(* of that limit still has to delete is enough, whoever deletes, renames   *)
(* or creates files meanwhile (cleanup-scheduler.ts 102-257).              *)
THEOREM CleanupCorrect == Cleanup!Spec => []CleanupInv
<1>1. Cleanup!Init => CleanupInv
  BY HistoryStarts, LimitStarts DEF CleanupInv
<1> QED
  BY <1>1, CleanupStep, PTL DEF Cleanup!Spec

-----------------------------------------------------------------------------
(* 3. The todo file, whose file is x1, mutex x4, calls x5 and watcher x7.  *)

TodoContents == [TodoItems -> TodoMd!Statuses]
UpdateSteps == {"reading", "writing", "stamping", "renaming"}
CallStates ==
  [pc : {"new", "queued", "done", "failed", "threw"} \cup UpdateSteps, tries : Nat, attempts : Nat,
   expected : Nat, content : TodoContents, hit : BOOLEAN, blind : BOOLEAN]

SyncReloads == [number : Nat, read : Seq(TodoContents)]
SyncStates ==
  [inode : Nat, timer : BOOLEAN, reloads : SUBSET SyncReloads, last : Nat, from : Nat, seen : TodoContents]

TodoFileOK ==
  /\ x1 \in TodoContents /\ x2 \in Nat /\ x3 \in Nat /\ x6 \in Nat
  /\ x4 \in [TodoMd!Processes -> Seq(TodoCalls)]
  /\ x5 \in [TodoCalls -> CallStates]
  /\ x7 \in SyncStates

(* The mutex of a process lists its calls that wait or run, each once, and *)
(* only the first of them runs.                                            *)
InMutex(c) == \E i \in DOMAIN x4[Process[c]] : x4[Process[c]][i] = c
MutexInv ==
  /\ \A p \in TodoMd!Processes : \A i \in DOMAIN x4[p] :
       Process[x4[p][i]] = p /\ \A j \in DOMAIN x4[p] : x4[p][i] = x4[p][j] => i = j
  /\ \A c \in TodoCalls : InMutex(c) <=> x5[c].pc \in UpdateSteps \cup {"queued"}
  /\ \A c \in TodoCalls : x5[c].pc \in UpdateSteps => Head(x4[Process[c]]) = c

(* What an update will write agrees with the file, but for its own item.   *)
UnderWay(c) ==
  LET content == x5[c].content
  IN  /\ \A i \in FirstListed : content[i] # "absent"
      /\ TodoMd!Alone(c) => \A d \in TodoCalls :
           content[Job[d].item] =
             IF Job[d].item = Job[c].item /\ x5[c].pc # "reading" /\ x5[c].hit
               THEN Job[c].status ELSE x1[Job[d].item]
ContentInv ==
  \A c \in TodoCalls : x5[c].pc \in UpdateSteps /\ ~x5[c].blind => UnderWay(c)

(* Reloads are numbered up to the last one; and unless the timer is set,   *)
(* what the last one read is what the watched file holds.                  *)
WatcherInv ==
  /\ x7.inode <= x2
  /\ x7.from <= x7.last /\ \A r \in x7.reloads : r.number <= x7.last
  /\ TodoMd!SyncSeesLastChange

TodoFileInv ==
  /\ TodoFileOK /\ MutexInv /\ WatcherInv
  /\ TodoMd!NoneBlind => ContentInv /\ TodoMd!ReportedUpdatesStay

LEMMA TodoConstants ==
  /\ \A c \in TodoCalls : Process[c] \in TodoMd!Processes
  /\ TodoMd!Nothing \in TodoContents
  /\ \A c \in TodoCalls : Job[c].item \in TodoItems /\ Job[c].under \in TodoItems
                        /\ Job[c].status \in TodoMd!Statuses \ {"absent"}
  /\ \A c \in TodoCalls, content \in TodoContents : TodoMd!Updater(c, content) \in TodoContents
BY TodoFileAssumption, Zenon, SMT
   DEF TodoMd!Processes, TodoMd!Nothing, TodoContents, TodoMd!Statuses, TodoMd!Updater, TodoMd!Wanted

LEMMA TodoFileStarts == TodoMd!Init => TodoFileInv
<1> SUFFICES ASSUME TodoMd!Init PROVE TodoFileInv
  OBVIOUS
<1>1. x1 \in TodoContents
  BY DEF TodoMd!Init, TodoContents, TodoMd!Statuses
<1>2. TodoFileOK
  <2>1. x4 \in [TodoMd!Processes -> Seq(TodoCalls)]
    BY DEF TodoMd!Init
  <2>2. x5 \in [TodoCalls -> CallStates]
    BY TodoConstants, TodoFileAssumption DEF TodoMd!Init, CallStates, UpdateSteps
  <2>3. x7 \in SyncStates
    BY <1>1 DEF TodoMd!Init, SyncStates
  <2> QED
    BY <1>1, <2>1, <2>2, <2>3 DEF TodoMd!Init, TodoFileOK
<1>3. \A c \in TodoCalls : x5[c].pc = "new"
  BY DEF TodoMd!Init
<1>4. MutexInv
  BY <1>3, TodoConstants DEF TodoMd!Init, MutexInv, InMutex, UpdateSteps
<1>5. WatcherInv
  BY DEF TodoMd!Init, WatcherInv, TodoMd!SyncSeesLastChange
<1>6. ContentInv
  BY <1>3 DEF ContentInv, UpdateSteps
<1>7. TodoMd!ReportedUpdatesStay
  BY <1>3, TodoFileAssumption
     DEF TodoMd!ReportedUpdatesStay, TodoMd!Reported, TodoMd!At, TodoMd!Init
<1> QED
  BY <1>2, <1>4, <1>5, <1>6, <1>7 DEF TodoFileInv

(* One call's step, for the types: its new record and the mutex.           *)
LEMMA TodoFileTypes == TodoFileInv /\ [TodoMd!Next]_(TodoMd!todoVars) => TodoFileOK'
<1> SUFFICES ASSUME TodoFileOK, MutexInv, [TodoMd!Next]_(TodoMd!todoVars) PROVE TodoFileOK'
  BY DEF TodoFileInv
<1> USE DEF TodoMd!diskVars, TodoMd!At, TodoMd!Moves, TodoMd!FileFails
<1>1. ASSUME NEW c \in TodoCalls, x4' = [x4 EXCEPT ![Process[c]] = Append(@, c)]
      PROVE  x4' \in [TodoMd!Processes -> Seq(TodoCalls)]
  BY <1>1, TodoConstants DEF TodoFileOK
<1>2. ASSUME NEW c \in TodoCalls, x5[c].pc \in UpdateSteps \cup {"queued"}, TodoMd!LeavesMutex(c)
      PROVE  x4' \in [TodoMd!Processes -> Seq(TodoCalls)]
  <2>1. x4[Process[c]] \in Seq(TodoCalls) /\ x4[Process[c]] # <<>>
    BY <1>2, TodoConstants DEF TodoFileOK, MutexInv, InMutex
  <2>2. Tail(x4[Process[c]]) \in Seq(TodoCalls)
    BY <2>1
  <2> QED
    BY <1>2, <2>2, TodoConstants DEF TodoFileOK, TodoMd!LeavesMutex
<1>3. ASSUME NEW c \in TodoCalls, NEW r \in CallStates, x5' = [x5 EXCEPT ![c] = r]
      PROVE  x5' \in [TodoCalls -> CallStates]
  BY <1>3 DEF TodoFileOK
<1>4. ASSUME NEW c \in TodoCalls, NEW pc \in {"new", "done", "threw"}
      PROVE  TodoMd!Over(c, pc) \in CallStates
  BY TodoConstants DEF TodoFileOK, TodoMd!Over, CallStates
<1>5. \A c \in TodoCalls : x5[c] \in CallStates
  BY DEF TodoFileOK
<1>6. CASE \E c \in TodoCalls : TodoMd!CallStep(c)
  <2> PICK c \in TodoCalls : TodoMd!CallStep(c)
    BY <1>6
  <2> x5[c] \in CallStates
    BY <1>5
  <2>1. CASE TodoMd!Begin(c)
    <3> PICK found \in {x3, 0} : TodoMd!Moves(c, [x5[c] EXCEPT !.pc = "queued", !.tries = @ - 1,
                                   !.attempts = 0, !.expected = found])
      BY <2>1 DEF TodoMd!Begin
    <3>1. [x5[c] EXCEPT !.pc = "queued", !.tries = @ - 1, !.attempts = 0, !.expected = found] \in CallStates
      <4>1. x5[c].tries \in Nat /\ x5[c].tries > 0 /\ x5[c].tries - 1 \in Nat
        BY <2>1, <1>5 DEF TodoMd!Begin, CallStates
      <4>2. found \in Nat
        BY DEF TodoFileOK
      <4> QED
        BY <4>1, <4>2, <1>5 DEF CallStates
    <3>2. x6' \in Nat
      BY <2>1 DEF TodoMd!Begin, TodoFileOK
    <3> QED
      BY <1>1, <1>3, <2>1, <3>1, <3>2 DEF TodoMd!Begin, TodoFileOK
  <2>2. CASE TodoMd!GivesUp(c)
    BY <1>3, <1>5, <2>2 DEF TodoMd!GivesUp, TodoFileOK, CallStates
  <2>3. CASE TodoMd!ReadContent(c)
    BY <1>3, <1>5, <2>3 DEF TodoMd!ReadContent, TodoFileOK, CallStates, UpdateSteps
  <2>4. CASE TodoMd!Conflict(c)
    BY <1>2, <1>3, <1>4, <2>4 DEF TodoMd!Conflict, TodoFileOK, UpdateSteps
  <2>5. CASE TodoMd!Prepare(c)
    <3>1. TodoMd!Updater(c, x5[c].content) \in TodoContents
      BY TodoConstants, <1>5 DEF CallStates
    <3>2. TodoMd!Applies(c, x5[c].content) \in BOOLEAN
      BY DEF TodoMd!Applies
    <3>3. [x5[c] EXCEPT !.pc = "writing", !.hit = TodoMd!Applies(c, x5[c].content),
                        !.content = TodoMd!Updater(c, x5[c].content)] \in CallStates
      BY <1>5, <3>1, <3>2 DEF CallStates, UpdateSteps
    <3> QED
      BY <1>3, <2>5, <3>3 DEF TodoMd!Prepare, TodoFileOK
  <2>6. CASE TodoMd!TruncateVersion(c)
    BY <1>3, <1>5, <2>6 DEF TodoMd!TruncateVersion, TodoFileOK, CallStates, UpdateSteps
  <2>7. CASE TodoMd!WriteVersion(c)
    <3>1. x3' \in Nat
      BY <1>5, <2>7 DEF TodoMd!WriteVersion, CallStates
    <3>2. [x5[c] EXCEPT !.pc = "renaming"] \in CallStates
      BY <1>5 DEF CallStates, UpdateSteps
    <3> QED
      BY <1>3, <2>7, <3>1, <3>2 DEF TodoMd!WriteVersion, TodoFileOK
  <2>8. CASE TodoMd!Rename(c)
    <3>1. x1' \in TodoContents /\ x2' \in Nat
      BY <1>5, <2>8 DEF TodoMd!Rename, CallStates, TodoFileOK
    <3>2. x7' \in SyncStates
      BY <2>8 DEF TodoMd!Rename, TodoMd!Noticed, TodoFileOK, SyncStates
    <3>3. x5' \in [TodoCalls -> CallStates]
      BY <1>3, <1>4, <2>8 DEF TodoMd!Rename
    <3>4. x4' \in [TodoMd!Processes -> Seq(TodoCalls)]
      BY <1>2, <2>8 DEF TodoMd!Rename, UpdateSteps
    <3> QED
      BY <2>8, <3>1, <3>2, <3>3, <3>4 DEF TodoMd!Rename, TodoFileOK
  <2> QED
    BY <2>1, <2>2, <2>3, <2>4, <2>5, <2>6, <2>7, <2>8 DEF TodoMd!CallStep
<1>7. CASE \E c \in TodoCalls : TodoMd!ReadFails(c)
  <2> PICK c \in TodoCalls : TodoMd!ReadFails(c)
    BY <1>7
  <2>1. x6' \in Nat /\ UNCHANGED <<x1, x2, x3, x7>>
    BY DEF TodoMd!ReadFails, TodoFileOK
  <2>2. CASE x5[c].expected # 0
    BY <1>2, <1>3, <1>4, <2>1, <2>2 DEF TodoMd!ReadFails, TodoMd!MyTurn, TodoFileOK
  <2>3. CASE x5[c].expected = 0
    <3>1. TodoMd!Updater(c, TodoMd!Nothing) \in TodoContents
      BY TodoConstants
    <3>2. TodoMd!Applies(c, TodoMd!Nothing) \in BOOLEAN
      BY DEF TodoMd!Applies
    <3>3. [x5[c] EXCEPT !.pc = "writing", !.hit = TodoMd!Applies(c, TodoMd!Nothing),
                        !.content = TodoMd!Updater(c, TodoMd!Nothing), !.blind = TRUE] \in CallStates
      BY <1>5, <3>1, <3>2 DEF CallStates, UpdateSteps
    <3> QED
      BY <1>3, <2>1, <2>3, <3>3 DEF TodoMd!ReadFails, TodoFileOK
  <2> QED
    BY <2>2, <2>3
<1>8. CASE \E c \in TodoCalls : TodoMd!OperationFails(c)
  <2> PICK c \in TodoCalls : TodoMd!OperationFails(c)
    BY <1>8
  <2>1. x6' \in Nat /\ UNCHANGED <<x1, x2, x3, x7>>
    BY DEF TodoMd!OperationFails, TodoFileOK
  <2>2. [x5[c] EXCEPT !.pc = "queued", !.attempts = @ + 1, !.content = TodoMd!Nothing] \in CallStates
    <3>1. x5[c] \in CallStates /\ x5[c].attempts + 1 \in Nat
      BY <1>5 DEF CallStates
    <3>2. TodoMd!Nothing \in TodoContents
      BY TodoConstants
    <3> QED
      BY <3>1, <3>2 DEF CallStates
  <2>3. x5[c].pc \in UpdateSteps \cup {"queued"}
    BY DEF TodoMd!OperationFails, UpdateSteps
  <2> QED
    BY <1>2, <1>3, <1>4, <2>1, <2>2, <2>3 DEF TodoMd!OperationFails, TodoFileOK
<1>9. CASE \E p \in TodoMd!Processes : TodoMd!Crash(p)
  <2> PICK p \in TodoMd!Processes : TodoMd!Crash(p)
    BY <1>9
  <2>1. x5' \in [TodoCalls -> CallStates]
    BY <1>4, <1>5 DEF TodoMd!Crash
  <2>2. x4' \in [TodoMd!Processes -> Seq(TodoCalls)]
    BY DEF TodoMd!Crash, TodoFileOK
  <2> QED
    BY <2>1, <2>2 DEF TodoMd!Crash, TodoFileOK
<1>10. CASE \E i \in TodoItems : TodoMd!AgentEdits(i)
  <2> PICK i \in TodoItems : TodoMd!AgentEdits(i)
    BY <1>10
  <2>1. x1' \in TodoContents
    BY DEF TodoMd!AgentEdits, TodoFileOK, TodoContents, TodoMd!Statuses
  <2>2. x7' \in SyncStates
    BY DEF TodoMd!AgentEdits, TodoMd!Noticed, TodoFileOK, SyncStates
  <2> QED
    BY <2>1, <2>2 DEF TodoMd!AgentEdits, TodoFileOK
<1>11. CASE TodoMd!TimerFires
  <2> DEFINE new == [number |-> x7.last + 1, read |-> TodoMd!Unread]
  <2>1. x7.last + 1 \in Nat /\ TodoMd!Unread \in Seq(TodoContents) /\ x7 \in SyncStates
    BY DEF TodoFileOK, SyncStates, TodoMd!Unread
  <2>2. new \in SyncReloads
    BY <2>1 DEF SyncReloads
  <2>3. x7' = [x7 EXCEPT !.timer = FALSE, !.last = x7.last + 1, !.reloads = x7.reloads \cup {new}]
    BY <1>11 DEF TodoMd!TimerFires
  <2> HIDE DEF new
  <2>4. x7' \in SyncStates
    BY <2>1, <2>2, <2>3 DEF SyncStates
  <2> QED
    BY <1>11, <2>4 DEF TodoMd!TimerFires, TodoFileOK
<1>12. CASE \E r \in x7.reloads : TodoMd!ReloadReads(r) \/ TodoMd!Reloaded(r) \/ TodoMd!ReloadFails(r)
  <2> PICK r \in x7.reloads : TodoMd!ReloadReads(r) \/ TodoMd!Reloaded(r) \/ TodoMd!ReloadFails(r)
    BY <1>12
  <2>1. r \in SyncReloads
    BY DEF TodoFileOK, SyncStates
  <2>2. CASE TodoMd!ReloadReads(r)
    <3> <<x1>> \in Seq(TodoContents)
      BY DEF TodoFileOK
    <3>1. [r EXCEPT !.read = <<x1>>] \in SyncReloads
      BY <2>1 DEF SyncReloads
    <3>2. x7' \in SyncStates
      BY <2>2, <3>1 DEF TodoMd!ReloadReads, TodoFileOK, SyncStates
    <3> QED
      BY <2>2, <3>2 DEF TodoMd!ReloadReads, TodoFileOK
  <2>3. CASE TodoMd!Reloaded(r)
    <3>1. Head(r.read) \in TodoContents /\ r.number \in Nat
      BY <2>1, <2>3 DEF TodoMd!Reloaded, TodoMd!Unread, SyncReloads
    <3>2. x7' \in SyncStates
      BY <2>3, <3>1 DEF TodoMd!Reloaded, TodoFileOK, SyncStates
    <3> QED
      BY <2>3, <3>2 DEF TodoMd!Reloaded, TodoFileOK
  <2>4. CASE TodoMd!ReloadFails(r)
    BY <2>4 DEF TodoMd!ReloadFails, TodoFileOK, SyncStates
  <2> QED
    BY <2>2, <2>3, <2>4
<1>13. CASE UNCHANGED TodoMd!todoVars
  BY <1>13 DEF TodoMd!todoVars, TodoFileOK
<1> QED
  BY <1>6, <1>7, <1>8, <1>9, <1>10, <1>11, <1>12, <1>13 DEF TodoMd!Next

(* How a call enters the mutex, and how the first one leaves it.           *)
LEMMA MutexEntered ==
  ASSUME TodoFileOK, MutexInv, NEW c \in TodoCalls, x5[c].pc = "new",
         x4' = [x4 EXCEPT ![Process[c]] = Append(@, c)],
         x5' \in [TodoCalls -> CallStates], x5'[c].pc = "queued",
         \A d \in TodoCalls \ {c} : x5'[d] = x5[d]
  PROVE  MutexInv'
<1> DEFINE q == x4[Process[c]]
<1>1. q \in Seq(TodoCalls) /\ Process[c] \in TodoMd!Processes
  BY TodoConstants DEF TodoFileOK
<1>2. \A i \in DOMAIN q : q[i] # c
  BY DEF MutexInv, InMutex, UpdateSteps
<1>3. /\ x4'[Process[c]] = Append(q, c)
      /\ \A p \in TodoMd!Processes : p # Process[c] => x4'[p] = x4[p]
  BY <1>1 DEF TodoFileOK
<1>4. /\ DOMAIN Append(q, c) = 1 .. Len(q) + 1 /\ DOMAIN q = 1 .. Len(q) /\ Len(q) \in Nat
      /\ Append(q, c)[Len(q) + 1] = c /\ \A i \in 1 .. Len(q) : Append(q, c)[i] = q[i]
  BY <1>1
<1>5. \A p \in TodoMd!Processes : \A i \in DOMAIN x4'[p] :
        Process[x4'[p][i]] = p /\ \A j \in DOMAIN x4'[p] : x4'[p][i] = x4'[p][j] => i = j
  <2> SUFFICES ASSUME NEW p \in TodoMd!Processes, NEW i \in DOMAIN x4'[p], NEW j \in DOMAIN x4'[p]
               PROVE  Process[x4'[p][i]] = p /\ (x4'[p][i] = x4'[p][j] => i = j)
    OBVIOUS
  <2>1. CASE p # Process[c]
    BY <1>3, <2>1 DEF MutexInv
  <2>2. CASE p = Process[c]
    <3>1. i \in 1 .. Len(q) + 1 /\ j \in 1 .. Len(q) + 1
      BY <1>3, <1>4, <2>2
    <3>2. \A k \in 1 .. Len(q) : Process[q[k]] = p /\ \A l \in 1 .. Len(q) : q[k] = q[l] => k = l
      BY <1>1, <1>4, <2>2 DEF MutexInv
    <3>3. \A k \in 1 .. Len(q) : q[k] # c
      BY <1>2, <1>4
    <3> HIDE DEF q
    <3> QED
      BY <1>3, <1>4, <2>2, <3>1, <3>2, <3>3
  <2> QED
    BY <2>1, <2>2
<1>6. \A d \in TodoCalls : InMutex(d)' <=> InMutex(d) \/ d = c
  <2> SUFFICES ASSUME NEW d \in TodoCalls PROVE InMutex(d)' <=> InMutex(d) \/ d = c
    OBVIOUS
  <2>1. CASE Process[d] # Process[c]
    <3>1. Process[d] \in TodoMd!Processes
      BY TodoConstants
    <3> QED
      BY <1>3, <2>1, <3>1 DEF InMutex
  <2>2. CASE Process[d] = Process[c]
    <3>1. InMutex(d)' <=> \E i \in 1 .. Len(q) + 1 : Append(q, c)[i] = d
      BY <1>3, <1>4, <2>2 DEF InMutex
    <3>2. InMutex(d) <=> \E i \in 1 .. Len(q) : q[i] = d
      BY <1>4, <2>2 DEF InMutex
    <3> HIDE DEF q
    <3> QED
      BY <1>4, <3>1, <3>2
  <2> QED
    BY <2>1, <2>2
<1>7. \A d \in TodoCalls : x5'[d].pc \in UpdateSteps => Head(x4'[Process[d]]) = d
  <2> SUFFICES ASSUME NEW d \in TodoCalls, x5'[d].pc \in UpdateSteps PROVE Head(x4'[Process[d]]) = d
    OBVIOUS
  <2>1. d # c /\ x5[d].pc \in UpdateSteps /\ Head(x4[Process[d]]) = d /\ InMutex(d)
    BY DEF UpdateSteps, MutexInv
  <2>2. Process[d] \in TodoMd!Processes
    BY TodoConstants
  <2>3. CASE Process[d] # Process[c]
    BY <1>3, <2>1, <2>2, <2>3
  <2>4. CASE Process[d] = Process[c]
    <3>1. 1 \in 1 .. Len(q) /\ Head(q) = d
      BY <1>4, <2>1, <2>4 DEF InMutex
    <3> QED
      BY <1>1, <1>3, <1>4, <2>4, <3>1
  <2> QED
    BY <2>3, <2>4
<1>8. \A d \in TodoCalls : InMutex(d)' <=> x5'[d].pc \in UpdateSteps \cup {"queued"}
  BY <1>6 DEF MutexInv
<1> QED
  BY <1>5, <1>7, <1>8 DEF MutexInv

LEMMA MutexLeft ==
  ASSUME TodoFileOK, MutexInv, NEW c \in TodoCalls,
         x5[c].pc \in UpdateSteps \cup {"queued"}, Head(x4[Process[c]]) = c,
         TodoMd!LeavesMutex(c), x5' \in [TodoCalls -> CallStates],
         x5'[c].pc \notin UpdateSteps \cup {"queued"},
         \A d \in TodoCalls \ {c} : x5'[d] = x5[d]
  PROVE  MutexInv'
<1> DEFINE q == x4[Process[c]]
<1>1. q \in Seq(TodoCalls) /\ q # <<>> /\ Process[c] \in TodoMd!Processes /\ q[1] = c
  BY TodoConstants DEF TodoFileOK, MutexInv, InMutex
<1>2. /\ x4'[Process[c]] = Tail(q)
      /\ \A p \in TodoMd!Processes : p # Process[c] => x4'[p] = x4[p]
  BY <1>1 DEF TodoFileOK, TodoMd!LeavesMutex
<1>3. /\ DOMAIN Tail(q) = 1 .. Len(q) - 1 /\ DOMAIN q = 1 .. Len(q) /\ Len(q) \in Nat /\ Len(q) > 0
      /\ \A i \in 1 .. Len(q) - 1 : Tail(q)[i] = q[i + 1]
  BY <1>1
<1>4. \A k \in 1 .. Len(q) : Process[q[k]] = Process[c] /\ \A l \in 1 .. Len(q) : q[k] = q[l] => k = l
  BY <1>1, <1>3 DEF MutexInv
<1>5. \A p \in TodoMd!Processes : \A i \in DOMAIN x4'[p] :
        Process[x4'[p][i]] = p /\ \A j \in DOMAIN x4'[p] : x4'[p][i] = x4'[p][j] => i = j
  <2> SUFFICES ASSUME NEW p \in TodoMd!Processes, NEW i \in DOMAIN x4'[p], NEW j \in DOMAIN x4'[p]
               PROVE  Process[x4'[p][i]] = p /\ (x4'[p][i] = x4'[p][j] => i = j)
    OBVIOUS
  <2>1. CASE p # Process[c]
    BY <1>2, <2>1 DEF MutexInv
  <2>2. CASE p = Process[c]
    <3>1. i \in 1 .. Len(q) - 1 /\ j \in 1 .. Len(q) - 1
      BY <1>2, <1>3, <2>2
    <3> HIDE DEF q
    <3>2. i + 1 \in 1 .. Len(q) /\ j + 1 \in 1 .. Len(q)
      BY <1>3, <3>1
    <3> QED
      BY <1>2, <1>3, <1>4, <2>2, <3>1, <3>2
  <2> QED
    BY <2>1, <2>2
<1>6. \A d \in TodoCalls : InMutex(d)' <=> InMutex(d) /\ d # c
  <2> SUFFICES ASSUME NEW d \in TodoCalls PROVE InMutex(d)' <=> InMutex(d) /\ d # c
    OBVIOUS
  <2>1. CASE Process[d] # Process[c]
    <3>1. Process[d] \in TodoMd!Processes
      BY TodoConstants
    <3> QED
      BY <1>2, <2>1, <3>1 DEF InMutex
  <2>2. CASE Process[d] = Process[c]
    <3>1. InMutex(d)' <=> \E i \in 1 .. Len(q) - 1 : q[i + 1] = d
      <4>1. InMutex(d)' <=> \E i \in DOMAIN Tail(q) : Tail(q)[i] = d
        BY <1>2, <2>2 DEF InMutex
      <4> HIDE DEF q
      <4> QED
        BY <1>3, <4>1
    <3>2. InMutex(d) <=> \E i \in 1 .. Len(q) : q[i] = d
      BY <1>3, <2>2 DEF InMutex
    <3>3. q[1] = c
      BY <1>1
    <3> HIDE DEF q
    <3>4. ASSUME NEW i \in 1 .. Len(q), q[i] = d, d # c PROVE \E j \in 1 .. Len(q) - 1 : q[j + 1] = d
      <4>1. i # 1 /\ i - 1 \in 1 .. Len(q) - 1 /\ (i - 1) + 1 = i
        BY <1>3, <3>3, <3>4
      <4> QED
        BY <3>4, <4>1
    <3>5. ASSUME NEW j \in 1 .. Len(q) - 1, q[j + 1] = d PROVE d # c /\ \E i \in 1 .. Len(q) : q[i] = d
      BY <1>3, <1>4, <3>3, <3>5
    <3> QED
      BY <3>1, <3>2, <3>4, <3>5
  <2> QED
    BY <2>1, <2>2
<1>7. \A d \in TodoCalls : InMutex(d)' <=> x5'[d].pc \in UpdateSteps \cup {"queued"}
  BY <1>6 DEF MutexInv
<1>8. \A d \in TodoCalls : x5'[d].pc \in UpdateSteps => Head(x4'[Process[d]]) = d
  <2> SUFFICES ASSUME NEW d \in TodoCalls, x5'[d].pc \in UpdateSteps PROVE Head(x4'[Process[d]]) = d
    OBVIOUS
  <2>1. d # c /\ x5[d].pc \in UpdateSteps /\ Head(x4[Process[d]]) = d
    BY DEF MutexInv
  <2>2. Process[d] \in TodoMd!Processes /\ Process[d] # Process[c]
    BY <2>1, TodoConstants
  <2> QED
    BY <1>2, <2>1, <2>2
<1> QED
  BY <1>5, <1>7, <1>8 DEF MutexInv

(* A call that is the first of its queue goes on, or is tried again.       *)
LEMMA MutexKept ==
  ASSUME TodoFileOK, MutexInv, x4' = x4, x5' \in [TodoCalls -> CallStates],
         \A d \in TodoCalls : \/ x5'[d].pc = x5[d].pc
                              \/ /\ x5[d].pc \in UpdateSteps \cup {"queued"}
                                 /\ x5'[d].pc \in UpdateSteps \cup {"queued"}
                                 /\ Head(x4[Process[d]]) = d
                              \/ {x5[d].pc, x5'[d].pc} \cap (UpdateSteps \cup {"queued"}) = {}
  PROVE  MutexInv'
<1>1. \A d \in TodoCalls : InMutex(d)' <=> InMutex(d)
  BY DEF InMutex
<1>2. \A d \in TodoCalls : x5'[d].pc \in UpdateSteps \cup {"queued"} <=> x5[d].pc \in UpdateSteps \cup {"queued"}
  OBVIOUS
<1>3. \A d \in TodoCalls : x5'[d].pc \in UpdateSteps => Head(x4'[Process[d]]) = d
  BY DEF MutexInv
<1> QED
  BY <1>1, <1>2, <1>3 DEF MutexInv

LEMMA MutexStep == TodoFileInv /\ [TodoMd!Next]_(TodoMd!todoVars) => MutexInv'
<1> SUFFICES ASSUME TodoFileOK, TodoFileOK', MutexInv, [TodoMd!Next]_(TodoMd!todoVars)
             PROVE  MutexInv'
  BY TodoFileTypes DEF TodoFileInv
<1> USE DEF TodoMd!diskVars, TodoMd!At, TodoMd!Moves
<1>1. x5 \in [TodoCalls -> CallStates] /\ x5' \in [TodoCalls -> CallStates]
  BY DEF TodoFileOK
<1>2. \A c \in TodoCalls : x5[c].pc \in UpdateSteps => Head(x4[Process[c]]) = c
  BY DEF MutexInv
<1>3. CASE \E c \in TodoCalls : TodoMd!CallStep(c) \/ TodoMd!ReadFails(c) \/ TodoMd!OperationFails(c)
  <2> PICK c \in TodoCalls : TodoMd!CallStep(c) \/ TodoMd!ReadFails(c) \/ TodoMd!OperationFails(c)
    BY <1>3
  <2>1. \A d \in TodoCalls \ {c} : x5'[d] = x5[d]
    BY <1>1 DEF TodoMd!CallStep, TodoMd!Begin, TodoMd!GivesUp, TodoMd!ReadContent, TodoMd!Conflict,
         TodoMd!Prepare, TodoMd!TruncateVersion, TodoMd!WriteVersion, TodoMd!Rename,
         TodoMd!ReadFails, TodoMd!OperationFails
  <2>2. CASE TodoMd!Begin(c)
    <3>1. x5[c].pc = "new" /\ x5'[c].pc = "queued"
      BY <1>1, <2>2 DEF TodoMd!Begin, CallStates
    <3> QED
      BY <1>1, <2>1, <2>2, <3>1, MutexEntered DEF TodoMd!Begin
  <2>3. CASE TodoMd!GivesUp(c)
    <3>1. x4' = x4 /\ x5[c].pc = "new" /\ x5'[c].pc = "failed"
      BY <1>1, <2>3 DEF TodoMd!GivesUp, CallStates
    <3>2. {x5[c].pc, x5'[c].pc} \cap (UpdateSteps \cup {"queued"}) = {}
      BY <3>1 DEF UpdateSteps
    <3> QED
      BY <1>1, <2>1, <3>1, <3>2, MutexKept
  <2>4. CASE TodoMd!LeavesMutex(c) /\ x5[c].pc \in UpdateSteps \cup {"queued"}
             /\ Head(x4[Process[c]]) = c /\ \E pc \in {"new", "done", "threw"} : TodoMd!Moves(c, TodoMd!Over(c, pc))
    <3>1. x5'[c].pc \in {"new", "done", "threw"}
      BY <1>1, <2>4 DEF TodoMd!Over, CallStates
    <3>2. x5'[c].pc \notin UpdateSteps \cup {"queued"}
      BY <3>1 DEF UpdateSteps
    <3> QED
      BY <1>1, <2>1, <2>4, <3>2, MutexLeft
  <2>5. CASE x4' = x4 /\ x5[c].pc \in UpdateSteps \cup {"queued"}
             /\ x5'[c].pc \in UpdateSteps \cup {"queued"} /\ Head(x4[Process[c]]) = c
    BY <1>1, <2>1, <2>5, MutexKept
  <2>6. CASE TodoMd!ReadContent(c)
    <3>1. x5'[c].pc = "reading" /\ x5[c].pc = "queued" /\ Head(x4[Process[c]]) = c /\ x4' = x4
      BY <1>1, <2>6 DEF TodoMd!ReadContent, TodoMd!MyTurn, CallStates
    <3> QED
      BY <2>5, <3>1 DEF UpdateSteps
  <2>7. CASE TodoMd!Conflict(c)
    <3>1. x5[c].pc \in UpdateSteps /\ TodoMd!LeavesMutex(c) /\ TodoMd!Moves(c, TodoMd!Over(c, "new"))
      BY <2>7 DEF TodoMd!Conflict, UpdateSteps
    <3> QED
      BY <1>2, <2>4, <3>1
  <2>8. CASE TodoMd!Prepare(c) \/ TodoMd!TruncateVersion(c) \/ TodoMd!WriteVersion(c)
    <3>1. x5'[c].pc \in {"writing", "stamping", "renaming"} /\ x4' = x4 /\ x5[c].pc \in UpdateSteps
      BY <1>1, <2>8 DEF TodoMd!Prepare, TodoMd!TruncateVersion, TodoMd!WriteVersion, CallStates, UpdateSteps
    <3> QED
      BY <1>2, <2>5, <3>1 DEF UpdateSteps
  <2>9. CASE TodoMd!Rename(c)
    <3>1. x5[c].pc \in UpdateSteps /\ TodoMd!LeavesMutex(c) /\ TodoMd!Moves(c, TodoMd!Over(c, "done"))
      BY <2>9 DEF TodoMd!Rename, UpdateSteps
    <3> QED
      BY <1>2, <2>4, <3>1
  <2>10. CASE TodoMd!ReadFails(c)
    <3>1. x5[c].pc = "queued" /\ Head(x4[Process[c]]) = c
      BY <2>10 DEF TodoMd!ReadFails, TodoMd!MyTurn
    <3>2. CASE x5[c].expected # 0
      BY <2>4, <2>10, <3>1, <3>2 DEF TodoMd!ReadFails
    <3>3. CASE x5[c].expected = 0
      <4>1. x5'[c].pc = "writing" /\ x4' = x4
        <5>1. x4' = x4 /\ \E content \in TodoContents, hit \in BOOLEAN :
                x5' = [x5 EXCEPT ![c] = [x5[c] EXCEPT !.pc = "writing", !.hit = hit,
                                                    !.content = content, !.blind = TRUE]]
          BY <2>10, <3>3, TodoConstants DEF TodoMd!ReadFails, TodoMd!Applies
        <5> QED
          BY <1>1, <5>1 DEF CallStates
      <4> QED
        BY <2>5, <3>1, <4>1 DEF UpdateSteps
    <3> QED
      BY <3>2, <3>3
  <2>11. CASE TodoMd!OperationFails(c)
    <3>1. x5[c].pc \in UpdateSteps
      BY <2>11 DEF TodoMd!OperationFails, UpdateSteps
    <3>2. CASE x5[c].attempts = Attempts - 1
      BY <1>2, <2>4, <2>11, <3>1, <3>2 DEF TodoMd!OperationFails
    <3>3. CASE x5[c].attempts # Attempts - 1
      <4>1. x5'[c].pc = "queued" /\ x4' = x4
        <5>1. /\ x4' = x4
              /\ \E k, content : x5' = [x5 EXCEPT ![c] = [x5[c] EXCEPT !.pc = "queued",
                                             !.attempts = k, !.content = content]]
          BY <2>11, <3>3, Zenon DEF TodoMd!OperationFails
        <5>2. DOMAIN x5 = TodoCalls /\ x5[c] \in CallStates
          BY <1>1
        <5> QED
          BY <5>1, <5>2 DEF CallStates
      <4> QED
        BY <1>2, <2>5, <3>1, <4>1
    <3> QED
      BY <3>2, <3>3
  <2> QED
    BY <2>2, <2>3, <2>6, <2>7, <2>8, <2>9, <2>10, <2>11 DEF TodoMd!CallStep
<1>4. CASE \E p \in TodoMd!Processes : TodoMd!Crash(p)
  <2> PICK p \in TodoMd!Processes : TodoMd!Crash(p)
    BY <1>4
  <2>1. /\ x4' \in [TodoMd!Processes -> Seq(TodoCalls)]
        /\ x4'[p] = <<>> /\ \A r \in TodoMd!Processes : r # p => x4'[r] = x4[r]
    BY DEF TodoMd!Crash, TodoFileOK
  <2>2. \A c \in TodoCalls : Process[c] # p => x5'[c] = x5[c]
    BY DEF TodoMd!Crash
  <2>3. \A c \in TodoCalls : Process[c] = p => x5'[c].pc \in {"done", "failed", "threw"}
    <3> SUFFICES ASSUME NEW c \in TodoCalls, Process[c] = p
                 PROVE  x5'[c].pc \in {"done", "failed", "threw"}
      OBVIOUS
    <3>1. x5'[c] = IF x5[c].pc \notin {"done", "failed", "threw"}
                     THEN TodoMd!Over(c, "threw") ELSE x5[c]
      BY DEF TodoMd!Crash
    <3>2. TodoMd!Over(c, "threw").pc = "threw"
      BY <1>1 DEF TodoMd!Over, CallStates
    <3> QED
      BY <3>1, <3>2
  <2>4. \A c \in TodoCalls : Process[c] = p => x5'[c].pc \notin UpdateSteps \cup {"queued"} /\ ~InMutex(c)'
    BY <2>1, <2>3 DEF UpdateSteps, InMutex
  <2>5. \A c \in TodoCalls : Process[c] # p =>
          /\ InMutex(c)' <=> x5'[c].pc \in UpdateSteps \cup {"queued"}
          /\ x5'[c].pc \in UpdateSteps => Head(x4'[Process[c]]) = c
    <3> SUFFICES ASSUME NEW c \in TodoCalls, Process[c] # p
                 PROVE  /\ InMutex(c)' <=> x5'[c].pc \in UpdateSteps \cup {"queued"}
                        /\ x5'[c].pc \in UpdateSteps => Head(x4'[Process[c]]) = c
      OBVIOUS
    <3>1. x4'[Process[c]] = x4[Process[c]] /\ x5'[c] = x5[c]
      BY <2>1, <2>2, TodoConstants
    <3>2. InMutex(c)' <=> InMutex(c)
      BY <3>1 DEF InMutex
    <3> QED
      BY <3>1, <3>2 DEF MutexInv
  <2>6. \A r \in TodoMd!Processes : \A i \in DOMAIN x4'[r] :
          Process[x4'[r][i]] = r /\ \A j \in DOMAIN x4'[r] : x4'[r][i] = x4'[r][j] => i = j
    <3> SUFFICES ASSUME NEW r \in TodoMd!Processes, NEW i \in DOMAIN x4'[r]
                 PROVE  Process[x4'[r][i]] = r /\ \A j \in DOMAIN x4'[r] : x4'[r][i] = x4'[r][j] => i = j
      OBVIOUS
    <3>1. r # p
      BY <2>1
    <3> QED
      BY <2>1, <3>1 DEF MutexInv
  <2> QED
    BY <2>4, <2>5, <2>6 DEF MutexInv
<1>5. CASE \/ (\E i \in TodoItems : TodoMd!AgentEdits(i)) \/ TodoMd!TimerFires
           \/ \E r \in x7.reloads : TodoMd!ReloadReads(r) \/ TodoMd!Reloaded(r) \/ TodoMd!ReloadFails(r)
           \/ UNCHANGED TodoMd!todoVars
  <2>1. x4' = x4 /\ x5' = x5
    BY <1>5 DEF TodoMd!AgentEdits, TodoMd!TimerFires, TodoMd!ReloadReads, TodoMd!Reloaded,
         TodoMd!ReloadFails, TodoMd!todoVars
  <2> QED
    BY <1>1, <2>1, MutexKept
<1> QED
  BY <1>3, <1>4, <1>5 DEF TodoMd!Next

LEMMA WatcherStep == TodoFileInv /\ [TodoMd!Next]_(TodoMd!todoVars) => WatcherInv'
<1> SUFFICES ASSUME TodoFileOK, WatcherInv, [TodoMd!Next]_(TodoMd!todoVars) PROVE WatcherInv'
  BY DEF TodoFileInv
<1> USE DEF TodoMd!diskVars
<1>1. x7 \in SyncStates /\ x2 \in Nat
  BY DEF TodoFileOK
<1>2. CASE UNCHANGED <<x1, x2, x7>>
  BY <1>2 DEF WatcherInv, TodoMd!SyncSeesLastChange
<1>3. CASE \E c \in TodoCalls : TodoMd!Rename(c)
  <2>1. /\ x2' = x2 + 1 /\ x7'.inode = x7.inode
        /\ x7'.reloads = x7.reloads /\ x7'.from = x7.from /\ x7'.last = x7.last
    BY <1>1, <1>3 DEF TodoMd!Rename, TodoMd!Noticed, SyncStates
  <2>2. x7.inode \in Nat /\ x2 \in Nat /\ x7.inode <= x2
    BY <1>1 DEF SyncStates, WatcherInv
  <2>3. x7'.inode <= x2' /\ x2' # x7'.inode
    BY <2>1, <2>2
  <2> QED
    BY <2>1, <2>3 DEF WatcherInv, TodoMd!SyncSeesLastChange
<1>4. CASE \E i \in TodoItems : TodoMd!AgentEdits(i)
  <2>1. /\ x2' = x2 /\ x7'.inode = x7.inode /\ (x2 = x7.inode => x7'.timer)
        /\ x7'.reloads = x7.reloads /\ x7'.from = x7.from /\ x7'.last = x7.last
    BY <1>1, <1>4 DEF TodoMd!AgentEdits, TodoMd!Noticed, SyncStates
  <2> QED
    BY <2>1 DEF WatcherInv, TodoMd!SyncSeesLastChange
<1>5. CASE TodoMd!TimerFires
  <2> DEFINE new == [number |-> x7.last + 1, read |-> TodoMd!Unread]
  <2>1. /\ x2' = x2 /\ x7'.inode = x7.inode /\ x7'.reloads = x7.reloads \cup {new}
        /\ x7'.from = x7.from /\ x7'.last = x7.last + 1
    BY <1>1, <1>5 DEF TodoMd!TimerFires, SyncStates
  <2>2. new.number = x7.last + 1 /\ new.read = TodoMd!Unread
    OBVIOUS
  <2>3. x7.last \in Nat /\ x7.from \in Nat /\ \A r \in x7.reloads : r.number \in Nat
    BY <1>1 DEF SyncStates, SyncReloads
  <2> HIDE DEF new
  <2>4. x7'.from # x7'.last /\ \A r \in x7'.reloads : r = new \/ r.number # x7'.last
    BY <2>1, <2>3 DEF WatcherInv
  <2>5. x7'.from <= x7'.last /\ \A r \in x7'.reloads : r.number <= x7'.last
    BY <2>1, <2>2, <2>3 DEF WatcherInv
  <2> QED
    BY <2>1, <2>2, <2>4, <2>5 DEF WatcherInv, TodoMd!SyncSeesLastChange
<1>6. ASSUME NEW r \in x7.reloads, TodoMd!ReloadReads(r) PROVE WatcherInv'
  <2> DEFINE read == [r EXCEPT !.read = <<x1>>]
  <2>1. /\ UNCHANGED <<x1, x2>> /\ x7'.inode = x7.inode /\ x7'.timer = x7.timer /\ x7'.seen = x7.seen
        /\ x7'.from = x7.from /\ x7'.last = x7.last /\ x7'.reloads = (x7.reloads \ {r}) \cup {read}
    BY <1>1, <1>6 DEF TodoMd!ReloadReads, SyncStates
  <2>2. read.number = r.number /\ read.read = <<x1>>
    BY <1>1 DEF SyncStates, SyncReloads
  <2> HIDE DEF read
  <2> QED
    BY <2>1, <2>2 DEF WatcherInv, TodoMd!SyncSeesLastChange
<1>7. ASSUME NEW r \in x7.reloads, TodoMd!Reloaded(r) PROVE WatcherInv'
  <2>1. /\ UNCHANGED <<x1, x2>> /\ x7'.inode = x7.inode /\ x7'.timer = x7.timer
        /\ x7'.seen = Head(r.read) /\ x7'.from = r.number /\ x7'.last = x7.last
        /\ x7'.reloads = x7.reloads \ {r} /\ r.read # TodoMd!Unread
    BY <1>1, <1>7 DEF TodoMd!Reloaded, SyncStates
  <2>2. Head(<<x1>>) = x1
    OBVIOUS
  <2> QED
    BY <2>1, <2>2 DEF WatcherInv, TodoMd!SyncSeesLastChange
<1>8. ASSUME NEW r \in x7.reloads, TodoMd!ReloadFails(r) PROVE WatcherInv'
  <2>1. /\ UNCHANGED <<x1, x2>> /\ x7'.inode = x7.inode /\ x7'.timer = x7.timer /\ x7'.seen = x7.seen
        /\ x7'.from = x7.from /\ x7'.last = x7.last /\ x7'.reloads = x7.reloads \ {r}
    BY <1>1, <1>8 DEF TodoMd!ReloadFails, SyncStates
  <2> QED
    BY <2>1 DEF WatcherInv, TodoMd!SyncSeesLastChange
<1>9. \/ \E c \in TodoCalls : TodoMd!Rename(c)
      \/ \E i \in TodoItems : TodoMd!AgentEdits(i)
      \/ TodoMd!TimerFires
      \/ \E r \in x7.reloads : TodoMd!ReloadReads(r) \/ TodoMd!Reloaded(r) \/ TodoMd!ReloadFails(r)
      \/ UNCHANGED <<x1, x2, x7>>
  BY DEF TodoMd!Next, TodoMd!todoVars, TodoMd!CallStep, TodoMd!Begin, TodoMd!GivesUp, TodoMd!ReadContent,
       TodoMd!Conflict, TodoMd!Prepare, TodoMd!TruncateVersion, TodoMd!WriteVersion,
       TodoMd!ReadFails, TodoMd!OperationFails, TodoMd!Crash
<1> QED
  BY <1>2, <1>3, <1>4, <1>5, <1>6, <1>7, <1>8, <1>9

(* A call that is done stays so, and only a rename makes one done.         *)
LEMMA DoneCalls ==
  ASSUME TodoFileOK, [TodoMd!Next]_(TodoMd!todoVars)
  PROVE  /\ \A c \in TodoCalls : x5[c].pc = "done" => x5'[c] = x5[c]
         /\ \A c \in TodoCalls : x5'[c].pc = "done" /\ ~TodoMd!Rename(c) => x5[c].pc = "done"
<1> USE DEF TodoMd!diskVars, TodoMd!At, TodoMd!Moves, TodoMd!Over
<1> DEFINE Fine(c) == /\ x5[c].pc = "done" => x5'[c] = x5[c]
                      /\ x5'[c].pc = "done" /\ ~TodoMd!Rename(c) => x5[c].pc = "done"
<1>1. \A c \in TodoCalls : x5[c] \in CallStates
  BY DEF TodoFileOK
<1>2. ASSUME NEW c \in TodoCalls, NEW r, x5' = [x5 EXCEPT ![c] = r], x5[c].pc # "done",
             r.pc = "done" => TodoMd!Rename(c)
      PROVE  \A d \in TodoCalls : Fine(d)
  BY <1>2 DEF TodoFileOK
<1>3. CASE UNCHANGED x5
  BY <1>3
<1>4. ASSUME NEW c \in TodoCalls, TodoMd!CallStep(c) PROVE \A d \in TodoCalls : Fine(d)
  <2> x5[c] \in CallStates
    BY <1>1
  <2>1. CASE TodoMd!Begin(c)
    <3> PICK found : TodoMd!Moves(c, [x5[c] EXCEPT !.pc = "queued", !.tries = @ - 1,
                                   !.attempts = 0, !.expected = found])
      BY <2>1 DEF TodoMd!Begin
    <3> QED
      BY <1>2, <2>1 DEF TodoMd!Begin, CallStates
  <2>2. CASE TodoMd!GivesUp(c)
    BY <1>2, <2>2 DEF TodoMd!GivesUp, CallStates
  <2>3. CASE TodoMd!ReadContent(c)
    BY <1>2, <2>3 DEF TodoMd!ReadContent, TodoMd!MyTurn, CallStates
  <2>4. CASE TodoMd!Conflict(c)
    BY <1>2, <2>4 DEF TodoMd!Conflict, CallStates
  <2>5. CASE TodoMd!Prepare(c)
    <3> DEFINE r == [x5[c] EXCEPT !.pc = "writing", !.hit = TodoMd!Applies(c, x5[c].content),
                                  !.content = TodoMd!Updater(c, x5[c].content)]
    <3>1. r.pc = "writing"
      BY DEF CallStates
    <3>2. x5' = [x5 EXCEPT ![c] = r] /\ x5[c].pc = "reading"
      BY <2>5 DEF TodoMd!Prepare
    <3> HIDE DEF r
    <3> QED
      BY <1>2, <3>1, <3>2
  <2>6. CASE TodoMd!TruncateVersion(c)
    BY <1>2, <2>6 DEF TodoMd!TruncateVersion, CallStates
  <2>7. CASE TodoMd!WriteVersion(c)
    BY <1>2, <2>7 DEF TodoMd!WriteVersion, CallStates
  <2>8. CASE TodoMd!Rename(c)
    BY <1>2, <2>8 DEF TodoMd!Rename, CallStates
  <2> QED
    BY <1>4, <2>1, <2>2, <2>3, <2>4, <2>5, <2>6, <2>7, <2>8 DEF TodoMd!CallStep
<1>5. ASSUME NEW c \in TodoCalls, TodoMd!ReadFails(c) PROVE \A d \in TodoCalls : Fine(d)
  <2> x5[c] \in CallStates
    BY <1>1
  <2>1. x5[c].pc = "queued"
    BY <1>5 DEF TodoMd!ReadFails, TodoMd!MyTurn
  <2>2. CASE x5[c].expected # 0
    BY <1>2, <1>5, <2>1, <2>2 DEF TodoMd!ReadFails, CallStates
  <2>3. CASE x5[c].expected = 0
    <3> DEFINE r == [x5[c] EXCEPT !.pc = "writing", !.hit = TodoMd!Applies(c, TodoMd!Nothing),
                                  !.content = TodoMd!Updater(c, TodoMd!Nothing), !.blind = TRUE]
    <3>1. r.pc = "writing"
      BY DEF CallStates
    <3>2. x5' = [x5 EXCEPT ![c] = r]
      BY <1>5, <2>3 DEF TodoMd!ReadFails
    <3> HIDE DEF r
    <3> QED
      BY <1>2, <2>1, <3>1, <3>2
  <2> QED
    BY <2>2, <2>3
<1>6. ASSUME NEW c \in TodoCalls, TodoMd!OperationFails(c) PROVE \A d \in TodoCalls : Fine(d)
  <2> x5[c] \in CallStates
    BY <1>1
  <2>1. x5[c].pc # "done"
    BY <1>6 DEF TodoMd!OperationFails
  <2>2. CASE x5[c].attempts = Attempts - 1
    BY <1>2, <1>6, <2>1, <2>2 DEF TodoMd!OperationFails, CallStates
  <2>3. CASE x5[c].attempts # Attempts - 1
    BY <1>2, <1>6, <2>1, <2>3 DEF TodoMd!OperationFails, CallStates
  <2> QED
    BY <2>2, <2>3
<1>7. ASSUME NEW p \in TodoMd!Processes, TodoMd!Crash(p) PROVE \A d \in TodoCalls : Fine(d)
  BY <1>1, <1>7 DEF TodoMd!Crash, CallStates
<1>8. \/ \E c \in TodoCalls : TodoMd!CallStep(c) \/ TodoMd!ReadFails(c) \/ TodoMd!OperationFails(c)
      \/ (\E p \in TodoMd!Processes : TodoMd!Crash(p)) \/ UNCHANGED x5
  BY DEF TodoMd!Next, TodoMd!todoVars, TodoMd!AgentEdits, TodoMd!TimerFires, TodoMd!ReloadReads,
       TodoMd!Reloaded, TodoMd!ReloadFails
<1> QED
  BY <1>3, <1>4, <1>5, <1>6, <1>7, <1>8

(* What a step that leaves the file alone makes of an update.              *)
LEMMA UpdateGoesOn ==
  ASSUME TodoFileOK, [TodoMd!Next]_(TodoMd!todoVars), NEW c \in TodoCalls, ~TodoMd!Rename(c),
         x5'[c].pc \in UpdateSteps, ~x5'[c].blind
  PROVE  \/ x5'[c] = x5[c]
         \/ x5'[c].pc = "reading" /\ x5'[c].content = x1
         \/ /\ x5[c].pc = "reading" /\ x5'[c].pc # "reading" /\ ~x5[c].blind
            /\ x5'[c].hit = TodoMd!Applies(c, x5[c].content)
            /\ x5'[c].content = TodoMd!Updater(c, x5[c].content)
         \/ /\ x5[c].pc \in UpdateSteps \ {"reading"} /\ x5'[c].pc # "reading" /\ ~x5[c].blind
            /\ x5'[c].content = x5[c].content /\ x5'[c].hit = x5[c].hit
<1> USE DEF TodoMd!diskVars, TodoMd!At, TodoMd!Moves
<1> SUFFICES ASSUME x5'[c] # x5[c]
             PROVE  \/ x5'[c].pc = "reading" /\ x5'[c].content = x1
                    \/ /\ x5[c].pc = "reading" /\ x5'[c].pc # "reading" /\ ~x5[c].blind
                       /\ x5'[c].hit = TodoMd!Applies(c, x5[c].content)
                       /\ x5'[c].content = TodoMd!Updater(c, x5[c].content)
                    \/ /\ x5[c].pc \in UpdateSteps \ {"reading"} /\ x5'[c].pc # "reading" /\ ~x5[c].blind
                       /\ x5'[c].content = x5[c].content /\ x5'[c].hit = x5[c].hit
  OBVIOUS
<1>1. x5[c] \in CallStates /\ DOMAIN x5 = TodoCalls
  BY DEF TodoFileOK
<1>2. \/ TodoMd!CallStep(c) \/ TodoMd!ReadFails(c) \/ TodoMd!OperationFails(c)
      \/ \E p \in TodoMd!Processes : TodoMd!Crash(p)
  <2>1. \A d \in TodoCalls : TodoMd!CallStep(d) \/ TodoMd!ReadFails(d) \/ TodoMd!OperationFails(d) =>
          \E r : x5' = [x5 EXCEPT ![d] = r]
    BY DEF TodoMd!CallStep, TodoMd!Begin, TodoMd!GivesUp, TodoMd!ReadContent, TodoMd!Conflict,
         TodoMd!Prepare, TodoMd!TruncateVersion, TodoMd!WriteVersion, TodoMd!Rename,
         TodoMd!ReadFails, TodoMd!OperationFails
  <2>2. \A d \in TodoCalls \ {c} : ~(\E r : x5' = [x5 EXCEPT ![d] = r])
    BY <1>1
  <2>3. x5' # x5
    OBVIOUS
  <2> QED
    BY <2>1, <2>2, <2>3
       DEF TodoMd!Next, TodoMd!todoVars, TodoMd!AgentEdits, TodoMd!TimerFires, TodoMd!ReloadReads,
       TodoMd!Reloaded, TodoMd!ReloadFails
<1>3. ASSUME NEW pc \in {"new", "done", "threw"} PROVE TodoMd!Over(c, pc).pc = pc
  BY <1>1 DEF TodoMd!Over, CallStates
<1>4. ASSUME x5'[c] = TodoMd!Over(c, "new") \/ x5'[c] = TodoMd!Over(c, "threw") PROVE FALSE
  BY <1>3, <1>4 DEF UpdateSteps
<1>5. CASE TodoMd!Begin(c) \/ TodoMd!GivesUp(c) \/ TodoMd!Conflict(c)
  <2>1. CASE TodoMd!Begin(c)
    <3> PICK found : TodoMd!Moves(c, [x5[c] EXCEPT !.pc = "queued", !.tries = @ - 1,
                                   !.attempts = 0, !.expected = found])
      BY <2>1 DEF TodoMd!Begin
    <3> QED
      BY <1>1 DEF CallStates, UpdateSteps
  <2>2. CASE TodoMd!GivesUp(c)
    BY <1>1, <2>2 DEF TodoMd!GivesUp, CallStates, UpdateSteps
  <2>3. CASE TodoMd!Conflict(c)
    BY <1>1, <1>4, <2>3 DEF TodoMd!Conflict
  <2> QED
    BY <1>5, <2>1, <2>2, <2>3
<1>6. CASE TodoMd!ReadContent(c)
  BY <1>1, <1>6 DEF TodoMd!ReadContent, CallStates
<1>7. CASE TodoMd!Prepare(c)
  <2>1. PICK hit, content : /\ hit = TodoMd!Applies(c, x5[c].content)
                            /\ content = TodoMd!Updater(c, x5[c].content)
    OBVIOUS
  <2>2. x5'[c] = [x5[c] EXCEPT !.pc = "writing", !.hit = hit, !.content = content]
    BY <1>1, <1>7, <2>1 DEF TodoMd!Prepare
  <2>3. x5[c].pc = "reading"
    BY <1>7 DEF TodoMd!Prepare
  <2>4. x5'[c].pc = "writing" /\ x5'[c].hit = hit /\ x5'[c].content = content /\ x5'[c].blind = x5[c].blind
    BY <1>1, <2>2 DEF CallStates
  <2> QED
    BY <2>1, <2>3, <2>4
<1>8. CASE TodoMd!TruncateVersion(c) \/ TodoMd!WriteVersion(c)
  BY <1>1, <1>8 DEF TodoMd!TruncateVersion, TodoMd!WriteVersion, CallStates, UpdateSteps
<1>9. CASE TodoMd!ReadFails(c)
  <2>1. CASE x5[c].expected # 0
    BY <1>1, <1>4, <1>9, <2>1 DEF TodoMd!ReadFails
  <2>2. CASE x5[c].expected = 0
    <3>1. \E hit, content : x5'[c] = [x5[c] EXCEPT !.pc = "writing", !.hit = hit,
                                                  !.content = content, !.blind = TRUE]
      BY <1>1, <1>9, <2>2 DEF TodoMd!ReadFails
    <3>2. x5'[c].blind
      BY <1>1, <3>1 DEF CallStates
    <3> QED
      BY <3>2
  <2> QED
    BY <2>1, <2>2
<1>10. CASE TodoMd!OperationFails(c)
  <2>1. CASE x5[c].attempts = Attempts - 1
    BY <1>1, <1>4, <1>10, <2>1 DEF TodoMd!OperationFails
  <2>2. CASE x5[c].attempts # Attempts - 1
    <3>1. x5'[c].pc = "queued"
      BY <1>1, <1>10, <2>2 DEF TodoMd!OperationFails, CallStates
    <3> QED
      BY <3>1 DEF UpdateSteps
  <2> QED
    BY <2>1, <2>2
<1>11. CASE \E p \in TodoMd!Processes : TodoMd!Crash(p)
  BY <1>1, <1>4, <1>11 DEF TodoMd!Crash
<1> QED
  BY <1>2, <1>5, <1>6, <1>7, <1>8, <1>9, <1>10, <1>11 DEF TodoMd!CallStep

LEMMA ContentStep ==
  ASSUME TodoFileInv, [TodoMd!Next]_(TodoMd!todoVars), TodoMd!NoneBlind'
  PROVE  ContentInv' /\ TodoMd!ReportedUpdatesStay'
<1> USE DEF TodoMd!At
<1>1. TodoFileOK /\ TodoFileOK' /\ MutexInv
  BY TodoFileTypes DEF TodoFileInv
<1>2. /\ \A c \in TodoCalls : x5[c].pc = "done" => x5'[c] = x5[c]
      /\ \A c \in TodoCalls : x5'[c].pc = "done" /\ ~TodoMd!Rename(c) => x5[c].pc = "done"
  BY <1>1, DoneCalls
<1>3. TodoMd!NoneBlind
  BY <1>2 DEF TodoMd!NoneBlind
<1>4. /\ ContentInv
      /\ \A c \in TodoCalls : TodoMd!Reported(c) /\ TodoMd!Alone(c) => x1[Job[c].item] \in TodoMd!ReportedOf(Job[c].item)
      /\ \A i \in FirstListed : x1[i] # "absent"
  BY <1>3 DEF TodoFileInv, TodoMd!ReportedUpdatesStay
<1>5. \A c \in TodoCalls : TodoMd!Reported(c) => TodoMd!Reported(c)'
  BY <1>2 DEF TodoMd!Reported
<1>6. \A i : TodoMd!ReportedOf(i) \subseteq TodoMd!ReportedOf(i)'
  BY <1>5 DEF TodoMd!ReportedOf, TodoMd!Wanted
<1>7. CASE \E c \in TodoCalls : TodoMd!Rename(c)
  <2> PICK r \in TodoCalls : TodoMd!Rename(r)
    BY <1>7
  <2>1. /\ x5[r].pc = "renaming" /\ x1' = x5[r].content
        /\ x5'[r].pc = "done" /\ x5'[r].hit = x5[r].hit /\ x5'[r].blind = x5[r].blind
        /\ \A c \in TodoCalls \ {r} : x5'[c] = x5[c]
    BY <1>1 DEF TodoMd!Rename, TodoMd!Moves, TodoMd!Over, TodoFileOK, CallStates
  <2>2. ~x5[r].blind
    BY <2>1 DEF TodoMd!NoneBlind
  <2>3. UnderWay(r)
    BY <1>4, <2>1, <2>2 DEF ContentInv, UpdateSteps
  <2>4. ASSUME NEW c \in TodoCalls, TodoMd!Reported(c)', TodoMd!Alone(c)
        PROVE  x1'[Job[c].item] \in TodoMd!ReportedOf(Job[c].item)'
    <3>1. TodoMd!Alone(r)
      BY <2>4 DEF TodoMd!Alone
    <3>2. x1'[Job[c].item] = IF Job[c].item = Job[r].item /\ x5[r].hit
                               THEN Job[r].status ELSE x1[Job[c].item]
      BY <2>1, <2>3, <3>1 DEF UnderWay
    <3>3. CASE Job[c].item = Job[r].item /\ x5[r].hit
      <4>1. TodoMd!Reported(r)'
        BY <2>1, <3>3 DEF TodoMd!Reported
      <4>2. Job[r].status \in TodoMd!ReportedOf(Job[c].item)'
        BY <3>3, <4>1 DEF TodoMd!ReportedOf, TodoMd!Wanted
      <4> QED
        BY <3>2, <3>3, <4>2
    <3>4. CASE ~(Job[c].item = Job[r].item /\ x5[r].hit)
      <4>1. TodoMd!Reported(c)
        BY <2>1, <2>4, <3>4 DEF TodoMd!Reported
      <4> QED
        BY <1>4, <1>6, <2>4, <3>2, <3>4, <4>1
    <3> QED
      BY <3>3, <3>4
  <2>5. \A i \in FirstListed : x1'[i] # "absent"
    BY <2>1, <2>3 DEF UnderWay
  <2>6. ASSUME NEW c \in TodoCalls, x5'[c].pc \in UpdateSteps, ~x5'[c].blind PROVE UnderWay(c)'
    <3>1. c # r
      BY <2>1, <2>6 DEF UpdateSteps
    <3>2. x5'[c] = x5[c] /\ UnderWay(c)
      BY <1>4, <2>1, <2>6, <3>1 DEF ContentInv
    <3>3. ~TodoMd!Alone(c)
      BY <1>1, <2>1, <2>6, <3>1, <3>2 DEF MutexInv, TodoMd!Alone, UpdateSteps
    <3> QED
      BY <3>2, <3>3 DEF UnderWay, TodoMd!Alone
  <2> QED
    BY <2>4, <2>5, <2>6 DEF ContentInv, TodoMd!ReportedUpdatesStay, TodoMd!Alone
<1>8. CASE \E i \in TodoItems : TodoMd!AgentEdits(i)
  <2> PICK i \in TodoItems : TodoMd!AgentEdits(i)
    BY <1>8
  <2>1. /\ x5' = x5 /\ x1'[i] # "absent" /\ \A j \in TodoItems \ {i} : x1'[j] = x1[j]
        /\ \A c \in TodoCalls : Job[c].item # i
    BY <1>1 DEF TodoMd!AgentEdits, TodoFileOK, TodoContents
  <2>2. \A c \in TodoCalls : x1'[Job[c].item] = x1[Job[c].item]
    BY <2>1, TodoConstants
  <2>3. \A j \in FirstListed : x1'[j] # "absent"
    BY <1>4, <2>1, TodoFileAssumption
  <2>4. \A c \in TodoCalls : UnderWay(c) => UnderWay(c)'
    BY <2>1, <2>2 DEF UnderWay, TodoMd!Alone
  <2>5. ContentInv'
    BY <1>4, <2>1, <2>4 DEF ContentInv
  <2>6. \A c \in TodoCalls : TodoMd!Reported(c)' <=> TodoMd!Reported(c)
    BY <2>1 DEF TodoMd!Reported
  <2> QED
    BY <1>4, <1>6, <2>2, <2>3, <2>5, <2>6 DEF TodoMd!ReportedUpdatesStay, TodoMd!Alone
<1>9. CASE ~(\E c \in TodoCalls : TodoMd!Rename(c)) /\ ~(\E i \in TodoItems : TodoMd!AgentEdits(i))
  <2>1. x1' = x1
    BY <1>9 DEF TodoMd!Next, TodoMd!todoVars, TodoMd!diskVars, TodoMd!CallStep, TodoMd!Begin,
         TodoMd!GivesUp, TodoMd!ReadContent, TodoMd!Conflict, TodoMd!Prepare, TodoMd!TruncateVersion,
         TodoMd!WriteVersion, TodoMd!ReadFails, TodoMd!OperationFails, TodoMd!Crash,
         TodoMd!TimerFires, TodoMd!ReloadReads, TodoMd!Reloaded, TodoMd!ReloadFails
  <2>2. \A c \in TodoCalls : TodoMd!Reported(c)' => TodoMd!Reported(c)
    BY <1>2, <1>9 DEF TodoMd!Reported
  <2>3. TodoMd!ReportedUpdatesStay'
    BY <1>4, <1>6, <2>1, <2>2 DEF TodoMd!ReportedUpdatesStay, TodoMd!Alone
  <2>4. ASSUME NEW c \in TodoCalls, x5'[c].pc \in UpdateSteps, ~x5'[c].blind PROVE UnderWay(c)'
    <3>1. CASE x5'[c] = x5[c]
      <4>1. UnderWay(c)
        BY <1>4, <2>4, <3>1 DEF ContentInv
      <4> QED
        BY <2>1, <3>1, <4>1 DEF UnderWay, TodoMd!Alone
    <3>2. CASE x5'[c].pc = "reading" /\ x5'[c].content = x1
      BY <1>4, <2>1, <3>2 DEF UnderWay
    <3>3. CASE /\ x5[c].pc = "reading" /\ x5'[c].pc # "reading" /\ ~x5[c].blind
               /\ x5'[c].hit = TodoMd!Applies(c, x5[c].content)
               /\ x5'[c].content = TodoMd!Updater(c, x5[c].content)
      <4>1. UnderWay(c) /\ x5[c].content \in TodoContents
        BY <1>1, <1>4, <3>3 DEF ContentInv, UpdateSteps, TodoFileOK, CallStates
      <4>2. CASE TodoMd!Applies(c, x5[c].content)
        <5>1. x5'[c].content = [x5[c].content EXCEPT ![Job[c].item] = Job[c].status] /\ x5'[c].hit
          BY <3>3, <4>2 DEF TodoMd!Updater, TodoMd!Wanted
        <5>2. /\ x5'[c].content[Job[c].item] = Job[c].status
              /\ \A i \in TodoItems \ {Job[c].item} : x5'[c].content[i] = x5[c].content[i]
          BY <4>1, <5>1, TodoConstants DEF TodoContents
        <5>3. \A i \in FirstListed : x5'[c].content[i] # "absent"
          BY <4>1, <5>2, TodoFileAssumption, TodoConstants DEF UnderWay
        <5>4. TodoMd!Alone(c) => \A d \in TodoCalls :
                x5'[c].content[Job[d].item] = IF Job[d].item = Job[c].item THEN Job[c].status ELSE x1[Job[d].item]
          BY <3>3, <4>1, <5>2, TodoConstants DEF UnderWay
        <5> QED
          BY <2>1, <3>3, <5>1, <5>3, <5>4 DEF UnderWay, TodoMd!Alone
      <4>3. CASE ~TodoMd!Applies(c, x5[c].content)
        <5>1. x5'[c].content = x5[c].content /\ ~x5'[c].hit
          BY <3>3, <4>3 DEF TodoMd!Updater
        <5> QED
          BY <2>1, <3>3, <4>1, <5>1 DEF UnderWay, TodoMd!Alone
      <4> QED
        BY <4>2, <4>3
    <3>4. CASE /\ x5[c].pc \in UpdateSteps \ {"reading"} /\ x5'[c].pc # "reading" /\ ~x5[c].blind
               /\ x5'[c].content = x5[c].content /\ x5'[c].hit = x5[c].hit
      <4>1. UnderWay(c)
        BY <1>4, <3>4 DEF ContentInv
      <4> QED
        BY <2>1, <3>4, <4>1 DEF UnderWay, TodoMd!Alone
    <3> QED
      BY <1>1, <1>9, <2>4, <3>1, <3>2, <3>3, <3>4, UpdateGoesOn
  <2> QED
    BY <2>3, <2>4 DEF ContentInv
<1> QED
  BY <1>7, <1>8, <1>9

LEMMA TodoFileStep == TodoFileInv /\ [TodoMd!Next]_(TodoMd!todoVars) => TodoFileInv'
<1> SUFFICES ASSUME TodoFileInv, [TodoMd!Next]_(TodoMd!todoVars) PROVE TodoFileInv'
  OBVIOUS
<1>1. TodoMd!NoneBlind' => ContentInv' /\ TodoMd!ReportedUpdatesStay'
  BY ContentStep
<1> QED
  BY <1>1, TodoFileTypes, MutexStep, WatcherStep DEF TodoFileInv

(* Updates of a process wait for each other, whatever fails in them, and   *)
(* what one writes differs from the file it replaces only in its own item  *)
(* (todo-manager.ts 86-155); and after a change of the watched file there  *)
(* is a timer, or a reload that began later than the change and is the     *)
(* last one (todo-sync-service.ts 51-65).                                  *)
THEOREM TodoFileCorrect == TodoMd!Spec => []TodoFileInv
BY TodoFileStarts, TodoFileStep, PTL DEF TodoMd!Spec

LEMMA TodoFileShows == TodoFileInv => TodoMd!ReportedUpdatesStay /\ TodoMd!SyncSeesLastChange
<1>1. TodoFileInv => TodoMd!ReportedUpdatesStay
  BY DEF TodoFileInv, TodoMd!ReportedUpdatesStay
<1>2. TodoFileInv => TodoMd!SyncSeesLastChange
  BY DEF TodoFileInv, WatcherInv
<1> QED
  BY <1>1, <1>2

-----------------------------------------------------------------------------
(* 4. The installer, whose files are x1, backups x2, and script x5.        *)

Settings == [kind : {"absent", "empty"} \cup Setup!Whole, ours : BOOLEAN, user : 0 .. MaxEdits]
Scripts ==
  [kind : {"none", "install", "uninstall"},
   at : {"end", "read", "backup", "backupOnly", "skip", "write", "verify", "restore", "fill", "prune"},
   todo : Seq(Setup!Directories), file : Setup!Files, backup : Nat, restores : Nat]

InstallerOK ==
  /\ x1 \in [Setup!Files -> Settings] /\ x2 \in [Setup!Files -> Seq(Settings)]
  /\ x3 \in [Setup!Files -> 0 .. MaxEdits] /\ x4 \in [Setup!Files -> Nat]
  /\ x5 \in Scripts

(* The user's settings are in the file; after a rollback that was cut      *)
(* short, in one of the backups no older than the one it was to restore.   *)
SettingsSafe(f) ==
  \/ x3[f] = 0
  \/ x4[f] = 0 /\ x1[f].user = x3[f]
  \/ x4[f] > KeptBackups
  \/ x4[f] > 0 /\ \E i \in DOMAIN x2[f] : i > Len(x2[f]) - x4[f] /\ x2[f][i].user = x3[f]

(* The backup a script may go back to is its file's last one.              *)
BackupInv ==
  LET f == x5.file
  IN  /\ x5.kind = "none" => x5.at = "end"
      /\ x5.at \in {"end", "read", "backup", "backupOnly"} => x5.backup = 0
      /\ x5.backup # 0 =>
           /\ x5.backup = Len(x2[f])
           /\ x3[f] # 0 /\ x4[f] = 0 => x2[f][x5.backup].user = x3[f]
      /\ x5.at = "fill" => x5.backup # 0 /\ x4[f] > 0

InstallerInv == InstallerOK /\ BackupInv /\ \A f \in Setup!Files : SettingsSafe(f)

LEMMA CountTo == ASSUME NEW m \in Nat PROVE IsFiniteSet(1 .. m) /\ Cardinality(1 .. m) = m
<1>1. 1 \in Int /\ m \in Int
  OBVIOUS
<1>2. IsFiniteSet(1 .. m) /\ Cardinality(1 .. m) = IF 1 > m THEN 0 ELSE m - 1 + 1
  BY <1>1, FS_Interval
<1> QED
  BY <1>2

(* The i-th of a set of indices is the one that has i - 1 others before it. *)
Below(K, j) == {k \in K : k < j}

LEMMA NthIndex ==
  ASSUME NEW n \in Nat, NEW K \in SUBSET (1 .. n)
  PROVE  /\ Cardinality(K) \in Nat /\ IsFiniteSet(K)
         /\ \A j \in K : Cardinality(Below(K, j)) \in 0 .. Cardinality(K) - 1
         /\ \A i, j \in K : i # j => Cardinality(Below(K, i)) # Cardinality(Below(K, j))
         /\ \A i \in 1 .. Cardinality(K) : \E j \in K : Cardinality(Below(K, j)) = i - 1
<1>1. IsFiniteSet(1 .. n)
  BY FS_Interval
<1>2. IsFiniteSet(K) /\ Cardinality(K) \in Nat
  BY <1>1, FS_Subset, FS_CardinalityType
<1>3. ASSUME NEW j \in K
      PROVE  IsFiniteSet(Below(K, j)) /\ Cardinality(Below(K, j)) \in 0 .. Cardinality(K) - 1
  <2>1. Below(K, j) \in SUBSET (K \ {j})
    BY DEF Below
  <2>2. IsFiniteSet(K \ {j}) /\ Cardinality(K \ {j}) = Cardinality(K) - 1
    BY <1>2, FS_RemoveElement
  <2>3. IsFiniteSet(Below(K, j)) /\ Cardinality(Below(K, j)) <= Cardinality(K) - 1
    BY <2>1, <2>2, FS_Subset
  <2>4. Cardinality(Below(K, j)) \in Nat
    BY <2>3, FS_CardinalityType
  <2> QED
    BY <1>2, <2>3, <2>4
<1>4. ASSUME NEW i \in K, NEW j \in K, i < j
      PROVE  Cardinality(Below(K, i)) # Cardinality(Below(K, j))
  <2>1. Below(K, i) \in SUBSET Below(K, j) /\ i \in Below(K, j) /\ i \notin Below(K, i)
    <3>1. i \in Nat /\ j \in Nat /\ \A k \in K : k \in Nat
      OBVIOUS
    <3>2. \A k \in K : k < i => k < j
      BY <1>4, <3>1
    <3>3. ~(i < i)
      BY <3>1
    <3> QED
      BY <1>4, <3>2, <3>3 DEF Below
  <2>2. IsFiniteSet(Below(K, j))
    BY <1>3
  <2>3. Cardinality(Below(K, j)) = Cardinality(Below(K, i)) => Below(K, j) = Below(K, i)
    BY <2>1, <2>2, FS_Subset
  <2> QED
    BY <2>1, <2>3
<1>5. \A i, j \in K : i # j => Cardinality(Below(K, i)) # Cardinality(Below(K, j))
  <2> SUFFICES ASSUME NEW i \in K, NEW j \in K, i # j
               PROVE  Cardinality(Below(K, i)) # Cardinality(Below(K, j))
    OBVIOUS
  <2>1. i < j \/ j < i
    OBVIOUS
  <2> QED
    BY <1>4, <2>1
<1>6. ASSUME NEW i \in 1 .. Cardinality(K) PROVE \E j \in K : Cardinality(Below(K, j)) = i - 1
  <2> DEFINE f == [j \in K |-> Cardinality(Below(K, j)) + 1]
  <2>1. f \in [K -> 1 .. Cardinality(K)]
    BY <1>2, <1>3
  <2>2. \A a, b \in K : f[a] = f[b] => a = b
    <3> SUFFICES ASSUME NEW a \in K, NEW b \in K, f[a] = f[b] PROVE a = b
      OBVIOUS
    <3>1. /\ Cardinality(Below(K, a)) + 1 = Cardinality(Below(K, b)) + 1
          /\ Cardinality(Below(K, a)) \in Nat /\ Cardinality(Below(K, b)) \in Nat
      BY <1>2, <1>3
    <3>2. Cardinality(Below(K, a)) = Cardinality(Below(K, b))
      BY <3>1
    <3> QED
      BY <1>5, <3>2
  <2>3. f \in Injection(K, 1 .. Cardinality(K))
    BY <2>1, <2>2 DEF Injection, IsInjective
  <2>4. IsFiniteSet(1 .. Cardinality(K)) /\ Cardinality(1 .. Cardinality(K)) = Cardinality(K)
    BY <1>2, FS_Interval
  <2>5. f \in Surjection(K, 1 .. Cardinality(K))
    BY <2>3, <2>4, FS_Injection
  <2>6. PICK j \in K : f[j] = i
    BY <2>5 DEF Surjection
  <2>7. Cardinality(Below(K, j)) + 1 = i /\ Cardinality(Below(K, j)) \in Nat
    BY <1>2, <1>3, <2>6
  <2>8. Cardinality(Below(K, j)) = i - 1
    BY <2>7
  <2> QED
    BY <2>8
<1> QED
  BY <1>2, <1>3, <1>5, <1>6

(* What is left of a sequence without some of its first n elements.        *)
LEMMA Shifted ==
  /\ \A i, c, d \in Int : (i - 1) - c \in 0 .. d - 1 => i - c \in 1 .. d
  /\ \A i, c, l, m \in Int : i > l - m => i - c > (l - c) - m
OBVIOUS

Lasting(q, gone) ==
  LET left == DOMAIN q \ gone
  IN  [i \in 1 .. (Len(q) - Cardinality(gone)) |->
         q[CHOOSE j \in left : Cardinality({k \in left : k < j}) = i - 1]]

LEMMA LastingIsLeft == \A q, gone : Setup!Lasting(q, gone) = Lasting(q, gone)
BY DEF Setup!Lasting, Setup!Cardinality, Lasting, Cardinality

LEMMA FirstOnesGone ==
  ASSUME NEW S, NEW q \in Seq(S), NEW n \in Int, n <= Len(q), NEW gone \in SUBSET (1 .. n),
         NEW r, r = Lasting(q, gone)
  PROVE  /\ r \in Seq(S) /\ Cardinality(gone) \in Nat
         /\ Len(r) = Len(q) - Cardinality(gone)
         /\ \A j \in DOMAIN q : j > n => /\ j - Cardinality(gone) \in DOMAIN r
                                       /\ r[j - Cardinality(gone)] = q[j]
<1> PICK K : K = DOMAIN q \ gone
  OBVIOUS
<1>0. r = [i \in 1 .. (Len(q) - Cardinality(gone)) |->
             q[CHOOSE j \in K : Cardinality(Below(K, j)) = i - 1]]
  BY DEF Lasting, Below
<1>1. DOMAIN q = 1 .. Len(q) /\ Len(q) \in Nat
  OBVIOUS
<1>2. K \in SUBSET (1 .. Len(q)) /\ gone \in SUBSET (1 .. Len(q))
  BY <1>1
<1>3. IsFiniteSet(1 .. Len(q)) /\ Cardinality(1 .. Len(q)) = Len(q)
  BY <1>1, CountTo
<1>4. IsFiniteSet(gone) /\ Cardinality(gone) \in Nat
  BY <1>2, <1>3, FS_Subset, FS_CardinalityType
<1>5. Cardinality(K) = Len(q) - Cardinality(gone) /\ Cardinality(K) \in Nat
  <2>1. Cardinality((1 .. Len(q)) \ gone) = Len(q) - Cardinality((1 .. Len(q)) \cap gone)
    BY <1>3, FS_Difference
  <2>2. (1 .. Len(q)) \cap gone = gone
    BY <1>2
  <2>3. Cardinality(K) \in Nat
    BY <1>1, <1>2, NthIndex
  <2> QED
    BY <1>1, <2>1, <2>2, <2>3
<1> DEFINE Nth(i) == CHOOSE j \in K : Cardinality(Below(K, j)) = i - 1
<1>6. /\ \A i, j \in K : i # j => Cardinality(Below(K, i)) # Cardinality(Below(K, j))
      /\ \A i \in 1 .. Cardinality(K) : \E j \in K : Cardinality(Below(K, j)) = i - 1
      /\ \A j \in K : Cardinality(Below(K, j)) \in 0 .. Cardinality(K) - 1
  BY <1>1, <1>2, NthIndex
<1>7. \A i \in 1 .. Cardinality(K) : Nth(i) \in K /\ Cardinality(Below(K, Nth(i))) = i - 1
  BY <1>6
<1>8. r \in Seq(S) /\ Len(r) = Cardinality(K) /\ DOMAIN r = 1 .. Cardinality(K)
  <2>1. r = [i \in 1 .. Cardinality(K) |-> q[Nth(i)]]
    BY <1>0, <1>5
  <2> HIDE DEF Nth
  <2>2. \A i \in 1 .. Cardinality(K) : q[Nth(i)] \in S
    BY <1>1, <1>2, <1>7
  <2>3. r \in [1 .. Cardinality(K) -> S]
    BY <2>1, <2>2
  <2>4. PICK m \in Nat : m = Cardinality(K)
    BY <1>5
  <2>5. r \in Seq(S) /\ Len(r) = m
    <3>1. r \in Seq(S) /\ DOMAIN r = 1 .. m
      <4>1. r \in [1 .. m -> S]
        BY <2>3, <2>4
      <4>2. r \in UNION {[1 .. k -> S] : k \in Nat}
        BY <4>1
      <4> QED
        BY <4>1, <4>2, SeqDef, Zenon
    <3>2. DOMAIN r = 1 .. Len(r) /\ Len(r) \in Nat
      BY <3>1, LenProperties
    <3>3. PICK l \in Nat : l = Len(r)
      BY <3>2, Zenon
    <3>4. \A k \in Nat : k \in 1 .. m <=> k \in 1 .. l
      BY <3>1, <3>2, <3>3
    <3>5. m = l
      <4>1. m \in 1 .. m \/ m = 0
        OBVIOUS
      <4>2. l \in 1 .. l \/ l = 0
        OBVIOUS
      <4> QED
        BY <3>4, <4>1, <4>2
    <3> QED
      BY <3>1, <3>3, <3>5
  <2>6. DOMAIN r = 1 .. m
    BY <2>3, <2>4
  <2> QED
    BY <2>4, <2>5, <2>6
<1>9. ASSUME NEW j \in DOMAIN q, j > n
      PROVE  j - Cardinality(gone) \in DOMAIN r /\ r[j - Cardinality(gone)] = q[j]
  <2>1. j \in K /\ j \in 1 .. Len(q)
    BY <1>1, <1>9
  <2>2. Below(K, j) = (1 .. j - 1) \ gone
    BY <1>1, <1>2, <2>1 DEF Below
  <2>3. Cardinality(Below(K, j)) = (j - 1) - Cardinality(gone)
    <3> j - 1 \in Nat
      BY <2>1
    <3>1. IsFiniteSet(1 .. j - 1) /\ Cardinality(1 .. j - 1) = j - 1
      BY CountTo
    <3>2. (1 .. j - 1) \cap gone = gone
      <4>1. \A k \in gone : k \in 1 .. j - 1
        BY <1>9, <2>1
      <4> QED
        BY <4>1
    <3> QED
      BY <2>2, <3>1, <3>2, FS_Difference
  <2>4. j - Cardinality(gone) \in 1 .. Cardinality(K)
    <3>1. (j - 1) - Cardinality(gone) \in 0 .. Cardinality(K) - 1
      BY <1>6, <2>1, <2>3
    <3>2. j \in Int /\ Cardinality(gone) \in Int /\ Cardinality(K) \in Int
      BY <1>4, <1>5, <2>1
    <3> PICK c \in Int, d \in Int : c = Cardinality(gone) /\ d = Cardinality(K)
      BY <3>2
    <3>3. (j - 1) - c \in 0 .. d - 1
      BY <3>1
    <3>4. j - c \in 1 .. d
      BY <3>2, <3>3, Shifted
    <3> QED
      BY <3>4
  <2>5. Nth(j - Cardinality(gone)) = j
    <3>1. Cardinality(Below(K, Nth(j - Cardinality(gone)))) = (j - Cardinality(gone)) - 1
      BY <1>7, <2>4
    <3>2. (j - Cardinality(gone)) - 1 = (j - 1) - Cardinality(gone)
      BY <1>4, <2>1
    <3>3. Nth(j - Cardinality(gone)) \in K
      BY <1>7, <2>4
    <3> HIDE DEF Nth
    <3> QED
      BY <1>6, <2>1, <2>3, <3>1, <3>2, <3>3
  <2>6. DOMAIN r = 1 .. Cardinality(K)
    BY <1>8
  <2>7. r[j - Cardinality(gone)] = q[Nth(j - Cardinality(gone))]
    <3>1. r = [i \in 1 .. Cardinality(K) |-> q[Nth(i)]]
      BY <1>0, <1>5
    <3> HIDE DEF Nth
    <3> QED
      BY <2>4, <3>1
  <2> HIDE DEF Nth
  <2> QED
    BY <2>4, <2>5, <2>6, <2>7
<1> QED
  BY <1>4, <1>5, <1>8, <1>9

LEMMA InstallerData ==
  /\ \A dir \in Setup!Directories : Setup!ResolveConfigFile(dir) \in Setup!Files
  /\ \A machine \in Machines : Setup!ConfigPaths(machine) \in Seq(Setup!Directories)
                              /\ Setup!ConfigPaths(machine) # <<>>
  /\ Setup!NoScript \in Scripts /\ Setup!NoScript.backup = 0 /\ Setup!NoScript.at = "end"
  /\ Setup!Absent \in Settings /\ Setup!Torn \subseteq Settings
<1>1. \A dir \in Setup!Directories : Setup!ResolveConfigFile(dir) \in Setup!Files
  BY DEF Setup!ResolveConfigFile, Setup!Files, Setup!Names
<1>2. ASSUME NEW machine \in Machines
      PROVE  Setup!ConfigPaths(machine) \in Seq(Setup!Directories) /\ Setup!ConfigPaths(machine) # <<>>
  <2>1. /\ <<>> \in Seq(Setup!Directories) /\ <<"xdg">> \in Seq(Setup!Directories)
        /\ <<"home">> \in Seq(Setup!Directories) /\ <<"wsl">> \in Seq(Setup!Directories)
        /\ <<"appdata", "home">> \in Seq(Setup!Directories)
    BY DEF Setup!Directories
  <2>2. PICK first, second : /\ first = (IF machine.xdg THEN <<"xdg">> ELSE <<>>)
                             /\ second = (IF machine.windows THEN <<"appdata", "home">>
                                  ELSE <<"home">> \o Setup!DetectWSLWindowsConfigDir(machine))
    OBVIOUS
  <2>3. /\ first \in Seq(Setup!Directories) /\ second \in Seq(Setup!Directories) /\ Len(second) > 0
    BY <2>1, <2>2 DEF Setup!DetectWSLWindowsConfigDir
  <2>4. Setup!ConfigPaths(machine) = first \o second
    BY <2>2 DEF Setup!ConfigPaths
  <2>5. first \o second \in Seq(Setup!Directories) /\ Len(first \o second) = Len(first) + Len(second)
    BY <2>3, ConcatProperties
  <2>6. Len(first) \in Nat /\ Len(second) \in Nat
    BY <2>3
  <2> QED
    BY <2>3, <2>4, <2>5, <2>6
<1>3. Setup!NoScript \in Scripts
  <2>1. <<>> \in Seq(Setup!Directories) /\ <<"home", "jsonc">> \in Setup!Files
    BY DEF Setup!Files, Setup!Directories
  <2> QED
    BY <2>1 DEF Setup!NoScript, Scripts
<1>4. Setup!Absent \in Settings /\ Setup!Torn \subseteq Settings
  BY InstallerAssumption DEF Setup!Absent, Setup!Torn, Setup!Content, Settings, Setup!Whole
<1> QED
  BY <1>1, <1>2, <1>3, <1>4 DEF Setup!NoScript

LEMMA InstallerStarts == Setup!Init => InstallerInv
<1> SUFFICES ASSUME Setup!Init PROVE InstallerInv
  OBVIOUS
<1>1. InstallerOK
  <2>1. <<>> \in Seq(Settings)
    OBVIOUS
  <2> QED
    BY <2>1, InstallerData, InstallerAssumption DEF Setup!Init, InstallerOK
<1>2. BackupInv
  BY InstallerData DEF Setup!Init, BackupInv
<1>3. \A f \in Setup!Files : SettingsSafe(f)
  BY DEF Setup!Init, SettingsSafe
<1> QED
  BY <1>1, <1>2, <1>3 DEF InstallerInv

(* The script goes on to another step, or leaves the file it was at.       *)
LEMMA ScriptGoesOn ==
  ASSUME InstallerInv, UNCHANGED <<x1, x2, x3, x4>>,
         NEW at \in {"backup", "backupOnly", "skip", "write", "verify", "restore", "prune"},
         Setup!Goto(at), x5.at # "end",
         at \in {"backup", "backupOnly"} => x5.backup = 0
  PROVE  InstallerInv'
<1>1. /\ x5' \in Scripts /\ x5'.at = at /\ x5'.file = x5.file /\ x5'.backup = x5.backup
      /\ x5'.kind = x5.kind
  BY DEF InstallerInv, InstallerOK, Setup!Goto, Scripts
<1>2. InstallerOK'
  BY <1>1 DEF InstallerInv, InstallerOK
<1>3. BackupInv'
  BY <1>1 DEF InstallerInv, BackupInv
<1> QED
  BY <1>2, <1>3 DEF InstallerInv, SettingsSafe

Fresh(s) == s \in Scripts /\ s.backup = 0 /\ s.at # "fill" /\ (s.kind = "none" => s.at = "end")

Started(kind, todo, f) ==
  [Setup!NoScript EXCEPT !.kind = kind, !.at = "read", !.todo = todo, !.file = f]

LEMMA ScriptBegins ==
  ASSUME NEW kind \in {"install", "uninstall"}, NEW todo \in Seq(Setup!Directories), NEW f \in Setup!Files
  PROVE  Fresh(Started(kind, todo, f))
<1>1. Setup!NoScript \in Scripts /\ Setup!NoScript.backup = 0
  BY InstallerData
<1>2. Started(kind, todo, f) \in Scripts
  BY <1>1 DEF Scripts, Started
<1>3. /\ Started(kind, todo, f).backup = Setup!NoScript.backup
      /\ Started(kind, todo, f).at = "read" /\ Started(kind, todo, f).kind = kind
  BY <1>1 DEF Scripts, Started
<1> QED
  BY <1>1, <1>2, <1>3 DEF Fresh

LEMMA ScriptLeaves ==
  ASSUME InstallerInv
  PROVE  /\ x5.at # "end" /\ Setup!NextDirectory => Fresh(x5')
         /\ \A kind \in {"install", "uninstall"}, todo \in Seq(Setup!Directories), f \in Setup!Files :
              Setup!Begin(kind, "read", todo, f) => Fresh(x5')
         /\ x5' = Setup!NoScript => Fresh(x5')
<1>0. Fresh(Setup!NoScript)
  BY InstallerData DEF Fresh
<1>2. ASSUME x5.at # "end", Setup!NextDirectory PROVE Fresh(x5')
  <2>1. x5.todo \in Seq(Setup!Directories) /\ x5.kind \in {"install", "uninstall"}
    BY <1>2 DEF InstallerInv, InstallerOK, Scripts, BackupInv
  <2>2. CASE x5.todo = <<>>
    BY <1>0, <1>2, <2>2 DEF Setup!NextDirectory
  <2>3. CASE x5.todo # <<>>
    <3>1. Head(x5.todo) \in Setup!Directories /\ Tail(x5.todo) \in Seq(Setup!Directories)
      BY <2>1, <2>3
    <3>2. Setup!ResolveConfigFile(Head(x5.todo)) \in Setup!Files
      BY <3>1, InstallerData
    <3>3. PICK kind, todo, f : kind = x5.kind /\ todo = Tail(x5.todo)
                               /\ f = Setup!ResolveConfigFile(Head(x5.todo))
      OBVIOUS
    <3>4. x5' = Started(kind, todo, f)
      BY <1>2, <2>3, <3>3 DEF Setup!NextDirectory, Started
    <3>5. kind \in {"install", "uninstall"} /\ todo \in Seq(Setup!Directories) /\ f \in Setup!Files
      BY <2>1, <3>1, <3>2, <3>3
    <3>6. Fresh(Started(kind, todo, f))
      BY <3>5, ScriptBegins
    <3> QED
      BY <3>4, <3>6
  <2> QED
    BY <2>2, <2>3
<1>3. ASSUME NEW kind \in {"install", "uninstall"}, NEW todo \in Seq(Setup!Directories), NEW f \in Setup!Files,
             Setup!Begin(kind, "read", todo, f)
      PROVE  Fresh(x5')
  <2>1. x5' = Started(kind, todo, f)
    BY <1>3 DEF Setup!Begin, Started
  <2> QED
    BY <2>1, ScriptBegins
<1> QED
  BY <1>0, <1>2, <1>3

LEMMA FileIsLeft ==
  ASSUME InstallerInv, UNCHANGED <<x1, x2, x3, x4>>, Fresh(x5')
  PROVE  InstallerInv'
BY DEF InstallerInv, InstallerOK, BackupInv, SettingsSafe, Fresh

(* The steps of a script that only read.                                   *)
LEMMA ScriptReads ==
  ASSUME InstallerInv,
         \/ \E machine \in Machines : Setup!StartInstall(machine) \/ Setup!StartUninstall(machine)
         \/ Setup!ReadToRegister \/ Setup!ReadToRemove \/ Setup!SkipCorrupt \/ Setup!Killed
  PROVE  InstallerInv'
<1>1. CASE \E machine \in Machines : Setup!StartInstall(machine)
  <2> PICK machine \in Machines : Setup!StartInstall(machine)
    BY <1>1
  <2>1. PICK paths : paths = Setup!ConfigPaths(machine)
    OBVIOUS
  <2>2. paths \in Seq(Setup!Directories) /\ paths # <<>>
    BY <2>1, InstallerData
  <2>3. PICK found : found = {i \in DOMAIN paths : Setup!ReadExistingConfig(paths[i]) # Setup!Absent}
    OBVIOUS
  <2>4. found = {} \/ Setup!Max(found) \in DOMAIN paths
    <3>1. found \subseteq 1 .. Len(paths) /\ Len(paths) \in Nat
      BY <2>2, <2>3
    <3>2. ASSUME found # {} PROVE \E x \in found : \A y \in found : x >= y
      <4>1. Len(paths) <= 3
        BY <2>1, InstallerAssumption DEF Setup!ConfigPaths, Setup!DetectWSLWindowsConfigDir
      <4>2. found \subseteq {1, 2, 3}
        BY <3>1, <4>1
      <4>3. CASE 3 \in found
        BY <4>2, <4>3
      <4>4. CASE 3 \notin found /\ 2 \in found
        BY <4>2, <4>4
      <4>5. CASE 3 \notin found /\ 2 \notin found
        <5>1. found = {1}
          BY <3>2, <4>2, <4>5
        <5> QED
          BY <5>1
      <4> QED
        BY <4>3, <4>4, <4>5
    <3> QED
      BY <2>3, <3>2 DEF Setup!Max
  <2>5. PICK target : target = IF found = {} THEN paths[1] ELSE paths[Setup!Max(found)]
    OBVIOUS
  <2>6. target \in Setup!Directories
    BY <2>2, <2>4, <2>5
  <2>7. \/ UNCHANGED x5
        \/ Setup!Begin("install", "read", <<>>, Setup!ResolveConfigFile(target))
    BY <2>1, <2>3, <2>5 DEF Setup!StartInstall
  <2>8. UNCHANGED <<x1, x2, x3, x4>>
    BY DEF Setup!StartInstall
  <2>9. CASE UNCHANGED x5
    BY <2>8, <2>9 DEF InstallerInv, InstallerOK, BackupInv, SettingsSafe
  <2>10. CASE Setup!Begin("install", "read", <<>>, Setup!ResolveConfigFile(target))
    <3>1. <<>> \in Seq(Setup!Directories) /\ Setup!ResolveConfigFile(target) \in Setup!Files
      BY <2>6, InstallerData
    <3> QED
      BY <2>8, <2>10, <3>1, ScriptLeaves, FileIsLeft
  <2> QED
    BY <2>7, <2>9, <2>10
<1>2. CASE \E machine \in Machines : Setup!StartUninstall(machine)
  <2> PICK machine \in Machines : Setup!StartUninstall(machine)
    BY <1>2
  <2>1. PICK paths : paths = Setup!ConfigPaths(machine)
    OBVIOUS
  <2>2. paths \in Seq(Setup!Directories) /\ paths # <<>>
    BY <2>1, InstallerData
  <2>3. paths[1] \in Setup!Directories /\ Tail(paths) \in Seq(Setup!Directories)
    BY <2>2
  <2>4. Setup!ResolveConfigFile(paths[1]) \in Setup!Files
    BY <2>3, InstallerData
  <2>5. /\ UNCHANGED <<x1, x2, x3, x4>>
        /\ Setup!Begin("uninstall", "read", Tail(paths), Setup!ResolveConfigFile(paths[1]))
    BY <2>1 DEF Setup!StartUninstall
  <2> QED
    BY <2>3, <2>4, <2>5, ScriptLeaves, FileIsLeft
<1>3. CASE Setup!ReadToRegister \/ Setup!ReadToRemove \/ Setup!SkipCorrupt
  <2>1. UNCHANGED <<x1, x2, x3, x4>>
    BY <1>3 DEF Setup!ReadToRegister, Setup!ReadToRemove, Setup!SkipCorrupt
  <2>2. CASE x5.at \in {"read", "skip"} /\ Setup!NextDirectory
    BY <2>1, <2>2, ScriptLeaves, FileIsLeft
  <2>3. CASE \E at \in {"backup", "backupOnly", "write"} : x5.at = "read" /\ Setup!Goto(at)
    BY <2>1, <2>3, ScriptGoesOn DEF InstallerInv, BackupInv
  <2>4. \/ x5.at \in {"read", "skip"} /\ Setup!NextDirectory
        \/ \E at \in {"backup", "backupOnly", "write"} : x5.at = "read" /\ Setup!Goto(at)
    BY <1>3 DEF Setup!ReadToRegister, Setup!ReadToRemove, Setup!SkipCorrupt, Setup!At
  <2> QED
    BY <2>2, <2>3, <2>4
<1>4. CASE Setup!Killed
  BY <1>4, ScriptLeaves, FileIsLeft DEF Setup!Killed
<1> QED
  BY <1>1, <1>2, <1>3, <1>4

LEMMA FileEdited ==
  ASSUME InstallerInv, NEW f \in Setup!Files, NEW edit \in Setup!Edited, NEW version \in 1 .. MaxEdits,
         Setup!Edits(f, edit, version)
  PROVE  InstallerInv'
<1>1. PICK content : content = Setup!Content(edit[1], edit[2], version)
  OBVIOUS
<1>2. content \in Settings /\ content.user = version
  <2>1. edit[1] \in Setup!Whole /\ edit[2] \in BOOLEAN
    <3>1. \E k \in Setup!Whole, o \in BOOLEAN : edit = <<k, o>>
      BY Zenon DEF Setup!Edited, Setup!Whole
    <3> QED
      BY <3>1
  <2> QED
    BY <1>1, <2>1, InstallerAssumption DEF Setup!Content, Settings
<1>3. /\ x1' = [x1 EXCEPT ![f] = content] /\ x3' = [x3 EXCEPT ![f] = version]
      /\ x4' = [x4 EXCEPT ![f] = 0] /\ UNCHANGED <<x2, x5>> /\ x5.kind = "none"
  BY <1>1 DEF Setup!Edits
<1>4. InstallerOK'
  BY <1>2, <1>3 DEF InstallerInv, InstallerOK
<1>5. \A g \in Setup!Files : SettingsSafe(g)'
  BY <1>2, <1>3 DEF InstallerInv, InstallerOK, SettingsSafe
<1>6. BackupInv'
  BY <1>3 DEF InstallerInv, BackupInv
<1> QED
  BY <1>4, <1>5, <1>6 DEF InstallerInv

(* A backup is made, of the file or of what a cut copy left of it.         *)
LEMMA BackupMade ==
  ASSUME InstallerInv, Setup!CreateBackup
  PROVE  InstallerInv'
<1> PICK f \in Setup!Files : f = x5.file
  BY DEF InstallerInv, InstallerOK, Scripts
<1> PICK after \in {"write", "skip"} : after = IF x5.at = "backup" THEN "write" ELSE "skip"
  OBVIOUS
<1>1. /\ x5.at \in {"backup", "backupOnly"} /\ UNCHANGED <<x1, x3>> /\ x5.backup = 0 /\ x5.kind # "none"
  BY DEF Setup!CreateBackup, InstallerInv, BackupInv
<1>2. /\ x1 \in [Setup!Files -> Settings] /\ x2 \in [Setup!Files -> Seq(Settings)]
      /\ x3 \in [Setup!Files -> 0 .. MaxEdits] /\ x4 \in [Setup!Files -> Nat] /\ x5 \in Scripts
      /\ SettingsSafe(f) /\ \A g \in Setup!Files : SettingsSafe(g)
  BY DEF InstallerInv, InstallerOK
<1>3. ASSUME NEW c \in Settings, x2' = [x2 EXCEPT ![f] = Append(@, c)],
             x4' = [x4 EXCEPT ![f] = IF @ = 0 THEN 0 ELSE @ + 1]
      PROVE  /\ x2' \in [Setup!Files -> Seq(Settings)] /\ x4' \in [Setup!Files -> Nat]
             /\ x2'[f] = Append(x2[f], c) /\ Len(x2'[f]) = Len(x2[f]) + 1
             /\ x2'[f][Len(x2[f]) + 1] = c /\ (x4'[f] = 0 <=> x4[f] = 0)
             /\ \A g \in Setup!Files : SettingsSafe(g)'
  <2> PICK q \in Seq(Settings), n \in Nat : q = x2[f] /\ n = x4[f]
    BY <1>2
  <2>1. x2' \in [Setup!Files -> Seq(Settings)] /\ x4' \in [Setup!Files -> Nat]
    <3>1. Append(q, c) \in Seq(Settings) /\ (IF n = 0 THEN 0 ELSE n + 1) \in Nat
      OBVIOUS
    <3> QED
      BY <1>2, <1>3, <3>1
  <2>2. x2'[f] = Append(q, c) /\ x4'[f] = IF n = 0 THEN 0 ELSE n + 1
    BY <1>2, <1>3
  <2>3. /\ Len(q) \in Nat /\ DOMAIN q = 1 .. Len(q) /\ Len(Append(q, c)) = Len(q) + 1
        /\ DOMAIN Append(q, c) = 1 .. Len(q) + 1
        /\ Append(q, c)[Len(q) + 1] = c /\ \A i \in 1 .. Len(q) : Append(q, c)[i] = q[i]
    OBVIOUS
  <2>4. SettingsSafe(f)'
    <3>1. CASE x3[f] = 0 \/ (x4[f] = 0 /\ x1[f].user = x3[f]) \/ x4[f] > KeptBackups
      BY <1>1, <1>2, <2>2, <3>1, InstallerAssumption DEF SettingsSafe
    <3>2. CASE x4[f] > 0 /\ \E i \in DOMAIN x2[f] : i > Len(x2[f]) - x4[f] /\ x2[f][i].user = x3[f]
      <4> PICK i \in 1 .. Len(q) : i > Len(q) - n /\ q[i].user = x3[f]
        BY <2>3, <3>2
      <4>1. i \in DOMAIN Append(q, c) /\ i > Len(Append(q, c)) - (n + 1) /\ Append(q, c)[i].user = x3[f]
        BY <2>3
      <4> QED
        BY <1>1, <2>2, <3>2, <4>1 DEF SettingsSafe
    <3> QED
      BY <1>2, <3>1, <3>2 DEF SettingsSafe
  <2>5. \A g \in Setup!Files : g # f => SettingsSafe(g)'
    BY <1>1, <1>2, <1>3 DEF SettingsSafe
  <2> QED
    BY <2>1, <2>2, <2>3, <2>4, <2>5
<1>4. CASE /\ x2' = [x2 EXCEPT ![f] = Append(@, x1[f])] /\ x4' = [x4 EXCEPT ![f] = IF @ = 0 THEN 0 ELSE @ + 1]
           /\ x5' = [x5 EXCEPT !.at = after, !.backup = Len(x2[f]) + 1]
  <2>1. x1[f] \in Settings /\ Len(x2[f]) \in Nat
    BY <1>2
  <2>2. PICK c \in Settings : c = x1[f]
    BY <2>1
  <2>3. /\ x2' \in [Setup!Files -> Seq(Settings)] /\ x4' \in [Setup!Files -> Nat]
        /\ Len(x2'[f]) = Len(x2[f]) + 1 /\ x2'[f][Len(x2[f]) + 1] = c /\ (x4'[f] = 0 <=> x4[f] = 0)
        /\ \A g \in Setup!Files : SettingsSafe(g)'
    BY <1>3, <1>4, <2>2
  <2>4. /\ x5' \in Scripts /\ x5'.backup = Len(x2[f]) + 1 /\ x5'.at = after /\ x5'.file = f
        /\ x5'.kind = x5.kind
    <3>1. PICK b \in Nat : b = Len(x2[f]) + 1
      BY <2>1
    <3>2. x5' = [x5 EXCEPT !.at = after, !.backup = b]
      BY <1>4, <3>1
    <3> QED
      BY <1>2, <3>1, <3>2 DEF Scripts
  <2>5. x3[f] # 0 /\ x4[f] = 0 => x1[f].user = x3[f]
    BY <1>2, InstallerAssumption DEF SettingsSafe
  <2>6. BackupInv'
    BY <1>1, <2>2, <2>3, <2>4, <2>5 DEF BackupInv
  <2>7. InstallerOK'
    BY <1>1, <1>2, <2>3, <2>4 DEF InstallerOK
  <2> QED
    BY <2>3, <2>6, <2>7 DEF InstallerInv
<1>5. CASE /\ \E torn \in Setup!Torn : x2' = [x2 EXCEPT ![f] = Append(@, torn)]
           /\ x4' = [x4 EXCEPT ![f] = IF @ = 0 THEN 0 ELSE @ + 1]
           /\ x5' = Setup!NoScript \/ Setup!Goto(after)
  <2>1. PICK c \in Settings : x2' = [x2 EXCEPT ![f] = Append(@, c)]
    BY <1>5, InstallerData
  <2>2. /\ x2' \in [Setup!Files -> Seq(Settings)] /\ x4' \in [Setup!Files -> Nat]
        /\ \A g \in Setup!Files : SettingsSafe(g)'
    BY <1>3, <1>5, <2>1
  <2>3. x5' \in Scripts /\ x5'.backup = 0 /\ x5'.at # "fill" /\ (x5'.kind = "none" => x5'.at = "end")
    <3>1. CASE x5' = Setup!NoScript
      BY <3>1, ScriptLeaves DEF Fresh
    <3>2. CASE Setup!Goto(after)
      BY <1>1, <1>2, <3>2 DEF Setup!Goto, Scripts
    <3> QED
      BY <1>5, <3>1, <3>2
  <2> QED
    BY <1>1, <1>2, <2>2, <2>3 DEF InstallerInv, InstallerOK, BackupInv
<1>6. CASE Setup!Goto(after) /\ UNCHANGED <<x2, x4>>
  BY <1>1, <1>6, ScriptGoesOn
<1> QED
  BY <1>4, <1>5, <1>6 DEF Setup!CreateBackup

(* The file is written, emptied or filled again: x1, and x4, change.       *)
LEMMA FileWritten ==
  ASSUME InstallerInv, Setup!AtomicWrite
  PROVE  InstallerInv'
<1> PICK f \in Setup!Files : f = x5.file
  BY DEF InstallerInv, InstallerOK, Scripts
<1>1. /\ x5.at = "write" /\ UNCHANGED <<x2, x3, x4>>
      /\ x1 \in [Setup!Files -> Settings] /\ x5 \in Scripts /\ x5.kind # "none"
  BY DEF Setup!AtomicWrite, InstallerInv, InstallerOK, BackupInv
<1>2. PICK c : c \in {Setup!Written(f), x1[f]} /\ x1' = [x1 EXCEPT ![f] = c]
  BY DEF Setup!AtomicWrite, Setup!FailedWrite
<1>3. c \in Settings /\ c.user = x1[f].user
  <2>1. x1[f] \in Settings /\ x1[f].user \in 0 .. MaxEdits
    BY <1>1 DEF Settings
  <2>2. Setup!Written(f) \in Settings /\ Setup!Written(f).user = x1[f].user
    BY <2>1 DEF Setup!Written, Setup!Content, Settings, Setup!Whole
  <2> QED
    BY <1>2, <2>1, <2>2
<1>4. x1' \in [Setup!Files -> Settings] /\ \A g \in Setup!Files : x1'[g].user = x1[g].user
  BY <1>1, <1>2, <1>3
<1>5. /\ x5' \in Scripts /\ x5'.at \in {"verify", "restore"} /\ x5'.file = x5.file
      /\ x5'.backup = x5.backup /\ x5'.kind = x5.kind
  <2>1. CASE x5' = [x5 EXCEPT !.at = "verify"]
    BY <1>1, <2>1 DEF Scripts
  <2>2. CASE x5' = [x5 EXCEPT !.at = "restore", !.restores = 1]
    BY <1>1, <2>2 DEF Scripts
  <2> QED
    BY <2>1, <2>2 DEF Setup!AtomicWrite, Setup!Goto
<1>6. InstallerOK'
  BY <1>1, <1>4, <1>5 DEF InstallerInv, InstallerOK
<1>7. BackupInv'
  BY <1>1, <1>5 DEF InstallerInv, BackupInv
<1>8. \A g \in Setup!Files : SettingsSafe(g)'
  BY <1>1, <1>4 DEF InstallerInv, SettingsSafe
<1> QED
  BY <1>6, <1>7, <1>8 DEF InstallerInv

LEMMA WriteVerified ==
  ASSUME InstallerInv, Setup!Verify
  PROVE  InstallerInv'
<1>1. UNCHANGED <<x1, x2, x3, x4>> /\ x5.at = "verify"
  BY DEF Setup!Verify
<1>2. CASE Setup!Goto("prune")
  BY <1>1, <1>2, ScriptGoesOn
<1>3. CASE x5' = [x5 EXCEPT !.at = "restore", !.restores = 2]
  <2>1. /\ x5' \in Scripts /\ x5'.at = "restore" /\ x5'.file = x5.file
        /\ x5'.backup = x5.backup /\ x5'.kind = x5.kind /\ x5.kind # "none"
    BY <1>1, <1>3 DEF InstallerInv, InstallerOK, Scripts, BackupInv
  <2> QED
    BY <1>1, <2>1 DEF InstallerInv, InstallerOK, BackupInv, SettingsSafe
<1> QED
  BY <1>2, <1>3 DEF Setup!Verify

LEMMA RestoreStarted ==
  ASSUME InstallerInv, Setup!Restore
  PROVE  InstallerInv'
<1> PICK f \in Setup!Files : f = x5.file
  BY DEF InstallerInv, InstallerOK, Scripts
<1>1. x5.at = "restore" /\ UNCHANGED <<x2, x3>> /\ x5 \in Scripts /\ x5.kind # "none"
  BY DEF Setup!Restore, InstallerInv, InstallerOK, BackupInv
<1>2. CASE Setup!NextDirectory /\ UNCHANGED <<x1, x4>>
  BY <1>1, <1>2, ScriptLeaves, FileIsLeft
<1>3. CASE x5.restores > 0 /\ x5' = [x5 EXCEPT !.restores = @ - 1] /\ UNCHANGED <<x1, x4>>
  <2>1. /\ x5' \in Scripts /\ x5'.at = "restore" /\ x5'.file = x5.file
        /\ x5'.backup = x5.backup /\ x5'.kind = x5.kind
    BY <1>1, <1>3 DEF Scripts
  <2> QED
    BY <1>1, <1>3, <2>1 DEF InstallerInv, InstallerOK, BackupInv, SettingsSafe
<1>4. CASE /\ x5.backup # 0 /\ x5.restores > 0
           /\ \E torn \in Setup!Torn : x1' = [x1 EXCEPT ![f] = torn]
           /\ x4' = [x4 EXCEPT ![f] = IF @ = 0 THEN 1 ELSE @]
           /\ x5' = [x5 EXCEPT !.at = "fill", !.restores = @ - 1]
  <2>1. PICK c \in Settings : x1' = [x1 EXCEPT ![f] = c]
    BY <1>4, InstallerData
  <2>2. /\ x1 \in [Setup!Files -> Settings] /\ x2 \in [Setup!Files -> Seq(Settings)]
        /\ x3 \in [Setup!Files -> 0 .. MaxEdits] /\ x4 \in [Setup!Files -> Nat]
    BY DEF InstallerInv, InstallerOK
  <2>3. /\ x1' \in [Setup!Files -> Settings] /\ x4' \in [Setup!Files -> Nat]
        /\ \A g \in Setup!Files : g # f => x1'[g] = x1[g] /\ x4'[g] = x4[g]
        /\ x4'[f] = (IF x4[f] = 0 THEN 1 ELSE x4[f]) /\ x4[f] \in Nat
    BY <1>4, <2>1, <2>2
  <2>4. /\ x5' \in Scripts /\ x5'.at = "fill" /\ x5'.file = x5.file
        /\ x5'.backup = x5.backup /\ x5'.kind = x5.kind
    <3>1. PICK n \in Nat : n = x5.restores - 1
      BY <1>1, <1>4 DEF Scripts
    <3>2. x5' = [x5 EXCEPT !.at = "fill", !.restores = n]
      BY <1>4, <3>1
    <3> QED
      BY <1>1, <3>1, <3>2 DEF Scripts
  <2>5. InstallerOK'
    BY <1>1, <2>2, <2>3, <2>4 DEF InstallerOK
  <2>6. BackupInv'
    BY <1>1, <1>4, <2>3, <2>4 DEF InstallerInv, BackupInv
  <2>7. SettingsSafe(f)'
    <3>1. CASE x3[f] # 0 /\ x4[f] = 0
      <4>1. x5.backup = Len(x2[f]) /\ x2[f][x5.backup].user = x3[f] /\ x5.backup # 0
        BY <1>4, <3>1 DEF InstallerInv, BackupInv
      <4>2. Len(x2[f]) \in DOMAIN x2[f] /\ Len(x2[f]) > Len(x2[f]) - 1
        BY <2>2, <4>1
      <4>3. x4'[f] = 1
        BY <2>3, <3>1
      <4> QED
        BY <1>1, <4>1, <4>2, <4>3 DEF SettingsSafe
    <3>2. CASE x3[f] = 0
      BY <1>1, <3>2 DEF SettingsSafe
    <3>3. CASE x4[f] # 0
      <4>1. x4'[f] = x4[f]
        BY <2>3, <3>3
      <4> QED
        BY <1>1, <3>3, <4>1 DEF InstallerInv, SettingsSafe
    <3> QED
      BY <3>1, <3>2, <3>3
  <2>8. \A g \in Setup!Files : g # f => SettingsSafe(g)'
    BY <1>1, <2>3 DEF InstallerInv, SettingsSafe
  <2> QED
    BY <2>5, <2>6, <2>7, <2>8 DEF InstallerInv
<1> QED
  BY <1>2, <1>3, <1>4 DEF Setup!Restore

LEMMA RestoreEnded ==
  ASSUME InstallerInv, Setup!FillRestored
  PROVE  InstallerInv'
<1> PICK f \in Setup!Files : f = x5.file
  BY DEF InstallerInv, InstallerOK, Scripts
<1>1. x5.at = "fill" /\ UNCHANGED <<x2, x3>> /\ Setup!Goto("restore")
  BY DEF Setup!FillRestored
<1>2. CASE UNCHANGED <<x1, x4>>
  BY <1>1, <1>2, ScriptGoesOn
<1>3. CASE /\ x1' = [x1 EXCEPT ![f] = x2[f][x5.backup]]
           /\ x4' = [x4 EXCEPT ![f] = IF x1'[f].user = x3[f] THEN 0 ELSE @]
  <2>1. /\ x1 \in [Setup!Files -> Settings] /\ x2 \in [Setup!Files -> Seq(Settings)]
        /\ x3 \in [Setup!Files -> 0 .. MaxEdits] /\ x4 \in [Setup!Files -> Nat] /\ x5 \in Scripts
        /\ x5.backup # 0 /\ x5.backup = Len(x2[f]) /\ x4[f] > 0 /\ x5.kind # "none"
    BY <1>1 DEF InstallerInv, InstallerOK, BackupInv
  <2>2. PICK c \in Settings : c = x2[f][x5.backup]
    BY <2>1
  <2>3. /\ x1' \in [Setup!Files -> Settings] /\ x1'[f] = c
        /\ \A g \in Setup!Files : g # f => x1'[g] = x1[g]
    BY <1>3, <2>1, <2>2
  <2>4. /\ x4' \in [Setup!Files -> Nat] /\ x4'[f] = (IF c.user = x3[f] THEN 0 ELSE x4[f])
        /\ \A g \in Setup!Files : g # f => x4'[g] = x4[g]
    <3>1. x4' = [x4 EXCEPT ![f] = IF c.user = x3[f] THEN 0 ELSE @]
      BY <1>3, <2>3
    <3> QED
      BY <2>1, <3>1
  <2>5. /\ x5' \in Scripts /\ x5'.at = "restore" /\ x5'.file = f
        /\ x5'.backup = x5.backup /\ x5'.kind = x5.kind
    BY <1>1, <2>1 DEF Setup!Goto, Scripts
  <2>6. InstallerOK'
    BY <1>1, <2>1, <2>3, <2>4, <2>5 DEF InstallerOK
  <2>7. BackupInv'
    <3>1. x4'[f] = 0 => c.user = x3[f]
      BY <2>1, <2>4
    <3> QED
      BY <1>1, <2>1, <2>2, <2>5, <3>1 DEF BackupInv
  <2>8. SettingsSafe(f)'
    <3>1. CASE c.user = x3[f]
      BY <1>1, <2>3, <2>4, <3>1 DEF SettingsSafe
    <3>2. CASE c.user # x3[f]
      <4>1. x4'[f] = x4[f] /\ x4[f] # 0
        BY <2>1, <2>4, <3>2
      <4> QED
        BY <1>1, <4>1 DEF InstallerInv, SettingsSafe
    <3> QED
      BY <3>1, <3>2
  <2>9. \A g \in Setup!Files : g # f => SettingsSafe(g)'
    BY <1>1, <2>3, <2>4 DEF InstallerInv, SettingsSafe
  <2> QED
    BY <2>6, <2>7, <2>8, <2>9 DEF InstallerInv
<1> QED
  BY <1>2, <1>3 DEF Setup!FillRestored

(* The backups that go are none of the KeptBackups newest.                 *)
LEMMA BackupsPruned ==
  ASSUME InstallerInv, Setup!CleanupOldBackups
  PROVE  InstallerInv'
<1> PICK f \in Setup!Files : f = x5.file
  BY DEF InstallerInv, InstallerOK, Scripts
<1>1. x5.at = "prune" /\ UNCHANGED <<x1, x3, x4>> /\ Setup!NextDirectory
  BY DEF Setup!CleanupOldBackups
<1>2. Fresh(x5')
  BY <1>1, ScriptLeaves
<1>3. /\ x2 \in [Setup!Files -> Seq(Settings)] /\ x4 \in [Setup!Files -> Nat]
  BY DEF InstallerInv, InstallerOK
<1> PICK q \in Seq(Settings), n \in Int : q = x2[f] /\ n = Len(q) - KeptBackups
  BY <1>3, InstallerAssumption
<1>5. PICK gone, r : gone \in SUBSET (1 .. n) /\ r = Lasting(q, gone) /\ x2' = [x2 EXCEPT ![f] = r]
  <2>1. \E gone \in SUBSET (1 .. n) : x2' = [x2 EXCEPT ![f] = Setup!Lasting(@, gone)]
    BY DEF Setup!CleanupOldBackups, Setup!Surplus
  <2> QED
    BY <1>3, <2>1, LastingIsLeft
<1>6. n <= Len(q)
  BY InstallerAssumption
<1>7. /\ Len(q) \in Nat /\ r \in Seq(Settings) /\ Cardinality(gone) \in Nat /\ Len(r) = Len(q) - Cardinality(gone)
      /\ \A j \in DOMAIN q : j > n => /\ j - Cardinality(gone) \in DOMAIN r
                                    /\ r[j - Cardinality(gone)] = q[j]
  <2>1. Len(q) \in Nat
    OBVIOUS
  <2> QED
    BY <1>5, <1>6, <2>1, FirstOnesGone
<1>8. x2' \in [Setup!Files -> Seq(Settings)] /\ x2'[f] = r /\ \A g \in Setup!Files : g # f => x2'[g] = x2[g]
  BY <1>3, <1>5, <1>7
<1>9. InstallerOK' /\ BackupInv'
  BY <1>1, <1>2, <1>8 DEF InstallerInv, InstallerOK, BackupInv, Fresh
<1>10. \A g \in Setup!Files : g # f => SettingsSafe(g)'
  BY <1>1, <1>8 DEF InstallerInv, SettingsSafe
<1>11. SettingsSafe(f)'
  <2>1. CASE x3[f] = 0 \/ (x4[f] = 0 /\ x1[f].user = x3[f]) \/ x4[f] > KeptBackups
    BY <1>1, <2>1 DEF SettingsSafe
  <2>2. CASE /\ x4[f] > 0 /\ ~(x4[f] > KeptBackups)
             /\ \E i \in DOMAIN x2[f] : i > Len(x2[f]) - x4[f] /\ x2[f][i].user = x3[f]
    <3> PICK i \in DOMAIN q : i > Len(q) - x4[f] /\ q[i].user = x3[f]
      BY <2>2
    <3>1. i \in Nat /\ Len(q) \in Nat /\ x4[f] \in Nat
      BY <1>3
    <3>2. i > n
      BY <2>2, <3>1, InstallerAssumption
    <3>3. i - Cardinality(gone) \in DOMAIN r /\ r[i - Cardinality(gone)] = q[i]
      BY <1>7, <3>2
    <3>4. i - Cardinality(gone) > Len(r) - x4[f]
      <4> PICK k \in Int, c \in Int, l \in Int, m \in Int :
                 k = i /\ c = Cardinality(gone) /\ l = Len(q) /\ m = x4[f]
        BY <1>7, <3>1
      <4>1. k > l - m
        OBVIOUS
      <4>2. k - c > (l - c) - m
        BY <4>1, Shifted, Zenon
      <4> QED
        BY <1>7, <4>2
    <3> QED
      BY <1>1, <1>8, <2>2, <3>3, <3>4 DEF SettingsSafe
  <2> QED
    BY <2>1, <2>2 DEF InstallerInv, SettingsSafe
<1> QED
  BY <1>9, <1>10, <1>11 DEF InstallerInv

LEMMA InstallerStep ==
  ASSUME InstallerInv, Setup!Next \/ UNCHANGED <<x1, x2, x3, x4, x5>>
  PROVE  InstallerInv'
<1>1. CASE \E f \in Setup!Files, edit \in Setup!Edited, version \in 1 .. MaxEdits :
             Setup!Edits(f, edit, version)
  BY <1>1, FileEdited
<1>2. CASE UNCHANGED <<x1, x2, x3, x4, x5>>
  BY <1>2 DEF InstallerInv, InstallerOK, BackupInv, SettingsSafe
<1> QED
  BY <1>1, <1>2, ScriptReads, BackupMade, FileWritten, WriteVerified, RestoreStarted, RestoreEnded,
     BackupsPruned DEF Setup!Next

(* Whatever fails and wherever a script is killed, the user's last edit    *)
(* stays in the file or in a backup that the next prunings leave (x1 to    *)
(* x6 are the variables of Installer).                                     *)
THEOREM InstallerCorrect == Setup!Spec => []InstallerInv
<1>1. InstallerInv /\ [Setup!Next]_(Setup!installerVars) => InstallerInv'
  BY InstallerStep DEF Setup!installerVars
<1> QED
  BY <1>1, InstallerStarts, PTL DEF Setup!Spec

LEMMA SettingsShow == InstallerInv => Setup!SettingsSurvive
<1> SUFFICES ASSUME InstallerInv, NEW f \in Setup!Files
             PROVE  \/ x3[f] = 0 \/ x1[f].user = x3[f]
                    \/ x4[f] > KeptBackups
                    \/ x4[f] > 0 /\ \E i \in DOMAIN x2[f] : x2[f][i].user = x3[f]
  BY Zenon DEF Setup!SettingsSurvive
<1> QED
  BY DEF InstallerInv, SettingsSafe

-----------------------------------------------------------------------------
(* 5. The document cache: index x1, torn x2, documents x3, calls x5, and   *)
(* the names that failures spoiled, x8.                                    *)

Entries ==
  [url : Urls, fetchedAt : 0 .. MaxClock, expiresAt : 0 .. MaxClock] \cup {Docs!NoEntry}
Indices == [Docs!Names -> Entries]
OnDisk == Urls \cup {"none", "cut"}
Fetching ==
  [at : {"idle", "get", "peek", "readDoc", "answered", "fetch", "add", "unlink", "delete",
         "clear", "write", "fill", "stats", "list"},
   url : Urls \cup {"none"}, metadata : Indices, doomed : Seq(Urls),
   fetches : BOOLEAN, answer : OnDisk, now : 0 .. MaxClock]
FetchOK(r) ==
  /\ r \in Fetching
  /\ r.at \in {"get", "peek", "readDoc", "fetch", "add", "unlink", "delete"} \/ r.fetches
       => r.url \in Urls
  /\ r.at = "clear" => r.url = "none" /\ r.metadata = Docs!Empty
  /\ r.at \in {"write", "fill"} /\ r.url = "none" => r.metadata = Docs!Empty

DocsOK ==
  /\ x1 \in Indices /\ x2 \in BOOLEAN /\ x3 \in [Docs!Names -> OnDisk]
  /\ x4 \in 0 .. MaxClock /\ x6 \in 0 .. MaxFetches /\ x7 \in BOOLEAN
  /\ x5 \in [Fetchers -> Fetching] /\ \A c \in Fetchers : FetchOK(x5[c])
  /\ x8 \subseteq Docs!Names

(* The one call that runs, what it leaves untrue until it has written, and *)
(* what it knows of the disk, names that a failure spoiled left aside.     *)
OneAtATime == \A c, d \in Fetchers : x5[c].at # "idle" /\ x5[d].at # "idle" => c = d
Owes(r, name, listing) ==
  \/ r.at = "fill"
  \/ r.at \in {"add", "delete", "write"} /\ r.url # "none" /\ FileName[r.url] = name
  \/ r.at = "write" /\ r.url = "none" /\ listing[name] # Docs!NoEntry
KnowsDisk(r, onDisk, unknown) ==
  /\ r.at \in {"write", "fill"} => \A name \in Docs!Names :
       \/ r.metadata[name].url = onDisk[name]
       \/ name \in unknown /\ (r.url = "none" \/ FileName[r.url] # name)
  /\ r.at = "add" => onDisk[FileName[r.url]] = r.url
  /\ r.at = "delete" => onDisk[FileName[r.url]] = "none"
InTurn ==
  /\ OneAtATime
  /\ x2 => x8 = Docs!Names \/ \E c \in Fetchers : x5[c].at = "fill"
  /\ \A name \in Docs!Names \ x8 :
       x1[name].url = x3[name] \/ \E c \in Fetchers : Owes(x5[c], name, x1)
  /\ \A c \in Fetchers : KnowsDisk(x5[c], x3, x8)

DocsInv == DocsOK /\ (~x7 => InTurn)

LEMMA DocsData ==
  /\ Docs!NoEntry \in Entries /\ Docs!NoEntry.url = "none"
  /\ Docs!Empty \in Indices /\ \A name \in Docs!Names : Docs!Empty[name].url = "none"
  /\ FetchOK(Docs!Idle) /\ Docs!Idle.at = "idle"
  /\ Docs!Idle.metadata = Docs!Empty /\ Docs!Idle.fetches = FALSE /\ Docs!Idle.doomed = <<>>
  /\ Docs!Idle.url = "none"
  /\ \A url \in Urls : FileName[url] \in Docs!Names /\ url # "none"
<1>1. Docs!NoEntry \in Entries /\ Docs!NoEntry.url = "none"
  BY DEF Docs!NoEntry, Entries
<1>2. Docs!Empty \in Indices /\ \A name \in Docs!Names : Docs!Empty[name].url = "none"
  BY <1>1 DEF Docs!Empty, Indices
<1>3. <<>> \in Seq(Urls) /\ 0 \in 0 .. MaxClock
  BY DocsAssumption
<1>4. FetchOK(Docs!Idle) /\ Docs!Idle.at = "idle" /\ Docs!Idle.metadata = Docs!Empty
      /\ Docs!Idle.fetches = FALSE /\ Docs!Idle.doomed = <<>> /\ Docs!Idle.url = "none"
  BY <1>2, <1>3 DEF Docs!Idle, FetchOK, Fetching, OnDisk
<1> QED
  BY <1>1, <1>2, <1>4, DocsAssumption DEF Docs!Names

LEMMA DocsStart == Docs!Init => DocsInv
<1> SUFFICES ASSUME Docs!Init PROVE DocsInv
  OBVIOUS
<1>1. /\ x1 = Docs!Empty /\ x2 = FALSE /\ x3 = [name \in Docs!Names |-> "none"] /\ x4 = 0
      /\ x5 = [c \in Fetchers |-> Docs!Idle] /\ x6 = 0 /\ x7 = FALSE
      /\ x8 = {}
  BY DEF Docs!Init
<1>2. Docs!Idle \in Fetching
  BY DocsData DEF FetchOK
<1>3. DocsOK
  <2>1. \A c \in Fetchers : FetchOK(x5[c])
    BY <1>1, DocsData
  <2>2. x1 \in Indices /\ x3 \in [Docs!Names -> OnDisk] /\ x5 \in [Fetchers -> Fetching]
    BY <1>1, <1>2, DocsData DEF OnDisk
  <2> QED
    <3>1. MaxClock \in Nat /\ MaxFetches \in Nat
      BY DocsAssumption
    <3>2. x4 \in 0 .. MaxClock /\ x6 \in 0 .. MaxFetches
      BY <1>1, <3>1
    <3>3. x2 \in BOOLEAN /\ x7 \in BOOLEAN /\ x8 \subseteq Docs!Names
      BY <1>1
    <3> QED
      BY <2>1, <2>2, <3>2, <3>3 DEF DocsOK
<1>4. InTurn
  BY <1>1, DocsData DEF InTurn, OneAtATime, KnowsDisk
<1> QED
  BY <1>3, <1>4 DEF DocsInv

(* One call moves; what its step needs to keep the invariant.              *)
InTurnAfter(r) ==
  /\ x2' => r.at = "fill" \/ x8' = Docs!Names
  /\ \A name \in Docs!Names \ x8' : x1'[name].url = x3'[name] \/ Owes(r, name, x1')
  /\ KnowsDisk(r, x3', x8')

LEMMA FetchMoves ==
  ASSUME DocsInv, NEW c \in Fetchers, NEW r, FetchOK(r), x5' = [x5 EXCEPT ![c] = r],
         x5[c].at # "idle", UNCHANGED <<x4, x6, x7>>,
         x1' \in Indices, x2' \in BOOLEAN, x3' \in [Docs!Names -> OnDisk], x8' \subseteq Docs!Names,
         ~x7 /\ InTurn => InTurnAfter(r)
  PROVE  DocsInv'
<1>1. x5 \in [Fetchers -> Fetching] /\ r \in Fetching
  BY DEF DocsInv, DocsOK, FetchOK
<1>2. x5' \in [Fetchers -> Fetching] /\ x5'[c] = r /\ \A d \in Fetchers : d # c => x5'[d] = x5[d]
  BY <1>1
<1>3. DocsOK'
  <2>1. \A d \in Fetchers : FetchOK(x5'[d])
    BY <1>2 DEF DocsInv, DocsOK
  <2>2. x4' \in 0 .. MaxClock /\ x6' \in 0 .. MaxFetches /\ x7' \in BOOLEAN
    BY DEF DocsInv, DocsOK
  <2> QED
    BY <1>2, <2>1, <2>2 DEF DocsOK, FetchOK
<1>4. ASSUME ~x7' PROVE InTurn'
  <2>1. ~x7 /\ InTurn
    BY <1>4 DEF DocsInv
  <2>2. \A d \in Fetchers : d # c => x5'[d].at = "idle"
    BY <1>2, <2>1 DEF InTurn, OneAtATime
  <2>3. OneAtATime'
    BY <2>2 DEF OneAtATime
  <2>4. \A d \in Fetchers : d # c => KnowsDisk(x5'[d], x3', x8')
    BY <2>2 DEF KnowsDisk
  <2>5. \A d \in Fetchers : KnowsDisk(x5'[d], x3', x8')
    BY <1>2, <2>1, <2>4 DEF InTurnAfter
  <2>6. x2' => x8' = Docs!Names \/ \E d \in Fetchers : x5'[d].at = "fill"
    BY <1>2, <2>1 DEF InTurnAfter
  <2>7. \A name \in Docs!Names \ x8' :
          x1'[name].url = x3'[name] \/ \E d \in Fetchers : Owes(x5'[d], name, x1')
    BY <1>2, <2>1 DEF InTurnAfter
  <2> QED
    BY <2>3, <2>5, <2>6, <2>7 DEF InTurn
<1> QED
  BY <1>3, <1>4 DEF DocsInv

(* While the one call that runs writes nothing, the index is true.         *)
Writing == {"write", "fill", "add", "delete"}
LEMMA TrueWhileReading ==
  ASSUME InTurn, NEW c \in Fetchers, x5[c].at \notin Writing \cup {"idle"}
  PROVE  /\ x2 => x8 = Docs!Names
         /\ \A name \in Docs!Names \ x8 : x1[name].url = x3[name]
<1>1. \A d \in Fetchers : d # c => x5[d].at = "idle"
  BY DEF InTurn, OneAtATime
<1>2. \A d \in Fetchers : x5[d].at \notin Writing
  BY <1>1 DEF Writing
<1> QED
  BY <1>2 DEF InTurn, Owes, Writing

(* A call that only reads, and is not about to write.                      *)
LEMMA FetchReads ==
  ASSUME DocsInv, NEW c \in Fetchers, NEW r, FetchOK(r), Docs!Goes(c, r), x5[c].at # "idle",
         UNCHANGED <<x1, x2, x3, x4, x6, x7, x8>>,
         x5[c].at \notin Writing, r.at \notin Writing
  PROVE  DocsInv'
<1>1. ASSUME InTurn
      PROVE  /\ x2 => x8 = Docs!Names
             /\ \A name \in Docs!Names \ x8 : x1[name].url = x3[name]
  BY <1>1, TrueWhileReading
<1>2. KnowsDisk(r, x3', x8')
  BY DEF KnowsDisk, Writing
<1>3. x5' = [x5 EXCEPT ![c] = r]
  BY DEF Docs!Goes
<1>4. /\ x1' \in Indices /\ x2' \in BOOLEAN /\ x3' \in [Docs!Names -> OnDisk]
      /\ x8' \subseteq Docs!Names
  BY DEF DocsInv, DocsOK
<1>5. InTurn => InTurnAfter(r)
  BY <1>1, <1>2 DEF InTurnAfter
<1> QED
  BY <1>3, <1>4, <1>5, FetchMoves

LEMMA FetchGoesOn ==
  ASSUME DocsInv, NEW c \in Fetchers, NEW doomed \in Seq(Urls)
  PROVE  /\ FetchOK(Docs!Continue(c, doomed)) /\ Docs!Continue(c, doomed).at \in {"fetch", "idle", "unlink"}
         /\ \A at \in {"readDoc", "fetch", "unlink", "delete"} :
              x5[c].url \in Urls => FetchOK([x5[c] EXCEPT !.at = at])
         /\ \A at \in {"idle", "list"} : FetchOK([x5[c] EXCEPT !.at = at])
         /\ \A at \in {"write", "fill"} :
              x5[c].at \in {"clear", "write"} => FetchOK([x5[c] EXCEPT !.at = at])
<1> PICK r \in Fetching : r = x5[c] /\ FetchOK(r)
  BY DEF DocsInv, DocsOK
<1>1. \A at \in {"readDoc", "fetch", "unlink", "delete"} : r.url \in Urls => FetchOK([r EXCEPT !.at = at])
  BY DEF FetchOK, Fetching
<1>2. /\ \A at \in {"idle", "list"} : FetchOK([r EXCEPT !.at = at])
      /\ \A at \in {"write", "fill"} : r.at \in {"clear", "write"} => FetchOK([r EXCEPT !.at = at])
  BY DEF FetchOK, Fetching
<1>3. CASE r.fetches
  <2>1. Docs!Continue(c, doomed) = [r EXCEPT !.at = "fetch"]
    BY <1>3 DEF Docs!Continue
  <2>2. r.url \in Urls /\ [r EXCEPT !.at = "fetch"].at = "fetch"
    BY <1>3 DEF FetchOK, Fetching
  <2> QED
    BY <1>1, <1>2, <2>1, <2>2
<1>4. CASE ~r.fetches /\ doomed = <<>>
  <2>1. Docs!Continue(c, doomed) = Docs!Idle
    BY <1>4 DEF Docs!Continue
  <2> QED
    BY <1>1, <1>2, <2>1, DocsData
<1>5. CASE ~r.fetches /\ doomed # <<>>
  <2>0. Head(doomed) \in Urls /\ Tail(doomed) \in Seq(Urls)
    BY <1>5
  <2> PICK u \in Urls, rest \in Seq(Urls) : u = Head(doomed) /\ rest = Tail(doomed)
    BY <2>0
  <2>1. Docs!Continue(c, doomed) = [r EXCEPT !.at = "unlink", !.url = u, !.doomed = rest]
    BY <1>5 DEF Docs!Continue
  <2>2. FetchOK([r EXCEPT !.at = "unlink", !.url = u, !.doomed = rest])
    BY DEF FetchOK, Fetching
  <2>3. [r EXCEPT !.at = "unlink", !.url = u, !.doomed = rest].at = "unlink"
    BY DEF Fetching
  <2> QED
    BY <1>1, <1>2, <2>1, <2>2, <2>3
<1> QED
  BY <1>3, <1>4, <1>5

LEMMA ReadIndex == DocsInv => Docs!ReadMetadata \in Indices /\ (~x2 => Docs!ReadMetadata = x1)
BY DocsData DEF DocsInv, DocsOK, Docs!ReadMetadata

(* Calls that find what they look for, or not, and answer.                 *)
LEMMA FetchLooks ==
  ASSUME DocsInv, NEW c \in Fetchers,
         Docs!Get(c) \/ Docs!GetByFilename(c) \/ Docs!ReadDoc(c) \/ Docs!Answered(c) \/ Docs!Stats(c)
  PROVE  DocsInv'
<1> USE DEF Docs!diskVars, Docs!ghostVars
<1> PICK r \in Fetching : r = x5[c] /\ FetchOK(r)
  BY DEF DocsInv, DocsOK
<1>0. r.doomed \in Seq(Urls) /\ <<>> \in Seq(Urls)
  BY DEF Fetching
<1>1. CASE Docs!Get(c)
  <2>1. r.at = "get" /\ r.url \in Urls /\ UNCHANGED <<x1, x2, x3, x4, x6, x7, x8>>
    BY <1>1 DEF Docs!Get, FetchOK
  <2>2. PICK at \in {"readDoc", "fetch", "unlink"} : Docs!Goes(c, [r EXCEPT !.at = at])
    <3>1. PICK at : /\ at \in {"readDoc", "fetch", "unlink"}
                    /\ at = IF Docs!ReadMetadata[FileName[x5[c].url]] = Docs!NoEntry THEN "fetch"
                            ELSE IF Docs!Expired(Docs!ReadMetadata[FileName[x5[c].url]]) THEN "unlink"
                            ELSE "readDoc"
      OBVIOUS
    <3>2. Docs!Goes(c, [r EXCEPT !.at = at])
      BY <1>1, <3>1 DEF Docs!Get
    <3> QED
      BY <3>1, <3>2
  <2>3. FetchOK([r EXCEPT !.at = at]) /\ [r EXCEPT !.at = at].at = at
    BY <1>0, <2>1, FetchGoesOn DEF Fetching
  <2> QED
    BY <2>1, <2>2, <2>3, FetchReads DEF Writing
<1>2. CASE Docs!GetByFilename(c)
  <2>1. r.at = "peek" /\ r.url \in Urls /\ UNCHANGED <<x1, x2, x3, x4, x6, x7, x8>>
    BY <1>2 DEF Docs!GetByFilename, FetchOK
  <2>2. Docs!Goes(c, Docs!Idle) \/ Docs!Goes(c, [r EXCEPT !.at = "readDoc"])
    BY <1>2 DEF Docs!GetByFilename
  <2>3. FetchOK([r EXCEPT !.at = "readDoc"]) /\ [r EXCEPT !.at = "readDoc"].at = "readDoc"
    BY <1>0, <2>1, FetchGoesOn DEF Fetching
  <2> QED
    BY <2>1, <2>2, <2>3, FetchReads, DocsData DEF Writing
<1>3. CASE Docs!ReadDoc(c)
  <2>1. r.at = "readDoc" /\ r.url \in Urls /\ UNCHANGED <<x1, x2, x3, x4, x6, x7, x8>>
    BY <1>3 DEF Docs!ReadDoc, FetchOK
  <2>2. PICK found \in OnDisk : found = x3[FileName[r.url]]
    BY <2>1, DocsData DEF DocsInv, DocsOK
  <2>3. \/ Docs!Goes(c, Docs!Continue(c, <<>>))
        \/ Docs!Goes(c, [r EXCEPT !.at = "answered", !.answer = found])
    BY <1>3, <2>2 DEF Docs!ReadDoc
  <2>4. /\ FetchOK([r EXCEPT !.at = "answered", !.answer = found])
        /\ [r EXCEPT !.at = "answered", !.answer = found].at = "answered"
    BY <2>1 DEF FetchOK, Fetching
  <2>5. FetchOK(Docs!Continue(c, <<>>)) /\ Docs!Continue(c, <<>>).at \in {"fetch", "idle", "unlink"}
    BY <1>0, FetchGoesOn
  <2>6. CASE Docs!Goes(c, Docs!Continue(c, <<>>))
    BY <2>1, <2>5, <2>6, FetchReads DEF Writing
  <2>7. CASE Docs!Goes(c, [r EXCEPT !.at = "answered", !.answer = found])
    <3> PICK s : s = [r EXCEPT !.at = "answered", !.answer = found]
      OBVIOUS
    <3> QED
      BY <2>1, <2>4, <2>7, FetchReads DEF Writing
  <2> QED
    BY <2>3, <2>6, <2>7
<1>4. CASE Docs!Answered(c)
  <2>1. r.at = "answered" /\ UNCHANGED <<x1, x2, x3, x4, x6, x7, x8>> /\ Docs!Goes(c, Docs!Idle)
    BY <1>4 DEF Docs!Answered
  <2> QED
    BY <2>1, FetchReads, DocsData DEF Writing
<1>5. CASE Docs!Stats(c)
  <2>1. r.at = "stats" /\ UNCHANGED <<x1, x2, x3, x4, x6, x7, x8>>
    BY <1>5 DEF Docs!Stats
  <2>2. Docs!Goes(c, Docs!Idle) \/ Docs!Goes(c, [r EXCEPT !.at = "list"])
    BY <1>5 DEF Docs!Stats
  <2>3. FetchOK([r EXCEPT !.at = "list"]) /\ [r EXCEPT !.at = "list"].at = "list"
    BY <1>0, FetchGoesOn DEF Fetching
  <2> QED
    BY <2>1, <2>2, <2>3, FetchReads, DocsData DEF Writing
<1> QED
  BY <1>1, <1>2, <1>3, <1>4, <1>5

LEMMA FetchLists ==
  ASSUME DocsInv, NEW c \in Fetchers, Docs!ListOlderHalf(c)
  PROVE  DocsInv'
<1> USE DEF Docs!diskVars, Docs!ghostVars
<1>1. x5[c].at = "list" /\ UNCHANGED <<x1, x2, x3, x4, x6, x7, x8>>
  BY DEF Docs!ListOlderHalf
<1>2. PICK metadata \in Indices : metadata = Docs!ReadMetadata
  BY ReadIndex
<1>3. PICK half \in Docs!OlderHalves(metadata) :
        Docs!Goes(c, Docs!Continue(c, [i \in DOMAIN half |-> metadata[half[i]].url]))
  BY <1>2 DEF Docs!ListOlderHalf
<1>4. PICK n : half \in [1 .. n -> Docs!Listed(metadata)] /\ n \in Nat
  <2>1. half \in [1 .. (Docs!Cardinality(Docs!Listed(metadata)) \div 2) -> Docs!Listed(metadata)]
    BY DEF Docs!OlderHalves
  <2>2. IsFiniteSet(Docs!Names)
    <3>1. [url \in Urls |-> FileName[url]] \in Surjection(Urls, Docs!Names)
      BY DEF Surjection, Docs!Names
    <3> QED
      BY <3>1, DocsAssumption, FS_Surjection
  <2>3. IsFiniteSet(Docs!Listed(metadata))
    BY <2>2, FS_Subset DEF Docs!Listed
  <2>4. Cardinality(Docs!Listed(metadata)) \in Nat
    BY <2>3, FS_CardinalityType
  <2>5. Docs!Cardinality(Docs!Listed(metadata)) = Cardinality(Docs!Listed(metadata))
    BY DEF Docs!Cardinality, Cardinality
  <2>6. Docs!Cardinality(Docs!Listed(metadata)) \div 2 \in Nat
    BY <2>4, <2>5
  <2> QED
    BY <2>1, <2>6
<1>5. PICK doomed : doomed = [i \in DOMAIN half |-> metadata[half[i]].url]
  OBVIOUS
<1>6. doomed \in Seq(Urls)
  <2>1. \A i \in 1 .. n : metadata[half[i]].url \in Urls
    BY <1>2, <1>4, DocsData DEF Docs!Listed, Indices, Entries
  <2> QED
    BY <1>4, <1>5, <2>1
<1>7. FetchOK(Docs!Continue(c, doomed)) /\ Docs!Continue(c, doomed).at \in {"fetch", "idle", "unlink"}
  BY <1>6, FetchGoesOn
<1> QED
  BY <1>1, <1>3, <1>5, <1>7, FetchReads DEF Writing

(* set(): the document is written, then the index read and written.        *)
LEMMA FetchAnswered ==
  ASSUME DocsInv, NEW c \in Fetchers, Docs!Fetch(c)
  PROVE  DocsInv'
<1> PICK r \in Fetching : r = x5[c] /\ FetchOK(r)
  BY DEF DocsInv, DocsOK
<1>1. r.at = "fetch" /\ r.url \in Urls /\ UNCHANGED <<x1, x2, x4, x6, x7, x8>>
  BY DEF Docs!Fetch, FetchOK, Docs!ghostVars
<1>2. CASE Docs!Goes(c, Docs!Idle) /\ UNCHANGED x3
  BY <1>1, <1>2, FetchReads, DocsData DEF Writing
<1>3. CASE /\ x3' = [x3 EXCEPT ![FileName[r.url]] = r.url]
           /\ Docs!Goes(c, [r EXCEPT !.at = "add", !.fetches = FALSE, !.now = x4])
  <2> PICK s : s = [r EXCEPT !.at = "add", !.fetches = FALSE, !.now = x4]
    OBVIOUS
  <2>1. FetchOK(s) /\ s.at = "add" /\ s.url = r.url
    <3>1. x4 \in 0 .. MaxClock
      BY DEF DocsInv, DocsOK
    <3> QED
      BY <1>1, <3>1 DEF FetchOK, Fetching
  <2>2. /\ x3 \in [Docs!Names -> OnDisk] /\ FileName[r.url] \in Docs!Names /\ r.url \in OnDisk
        /\ x1 \in Indices /\ x2 \in BOOLEAN /\ x8 \subseteq Docs!Names /\ r.url # "none"
    BY <1>1, DocsData DEF DocsInv, DocsOK, OnDisk
  <2>3. x3' \in [Docs!Names -> OnDisk] /\ x3'[FileName[s.url]] = s.url
        /\ \A name \in Docs!Names : name # FileName[s.url] => x3'[name] = x3[name]
    BY <1>1, <1>3, <2>1, <2>2
  <2>4. ASSUME InTurn PROVE InTurnAfter(s)
    <3>1. /\ x2 => x8 = Docs!Names
          /\ \A name \in Docs!Names \ x8 : x1[name].url = x3[name]
      BY <1>1, <2>4, TrueWhileReading DEF Writing
    <3>2. KnowsDisk(s, x3', x8')
      BY <2>1, <2>3 DEF KnowsDisk
    <3>3. \A name \in Docs!Names : x3'[name] = x3[name] \/ Owes(s, name, x1')
      BY <2>1, <2>2, <2>3 DEF Owes
    <3> QED
      BY <1>1, <3>1, <3>2, <3>3 DEF InTurnAfter
  <2>5. x5' = [x5 EXCEPT ![c] = s]
    BY <1>3 DEF Docs!Goes
  <2> QED
    BY <1>1, <2>1, <2>2, <2>3, <2>4, <2>5, FetchMoves
<1> QED
  BY <1>2, <1>3 DEF Docs!Fetch

LEMMA DocumentFails ==
  ASSUME DocsInv, NEW c \in Fetchers, Docs!WriteDocFails(c)
  PROVE  DocsInv'
<1> PICK r \in Fetching : r = x5[c] /\ FetchOK(r)
  BY DEF DocsInv, DocsOK
<1> PICK name : name = FileName[r.url]
  OBVIOUS
<1>1. /\ r.at = "fetch" /\ r.url \in Urls /\ name \in Docs!Names
      /\ UNCHANGED <<x1, x2, x4, x6, x7>> /\ Docs!Goes(c, Docs!Idle)
  BY DocsData DEF Docs!WriteDocFails, FetchOK
<1>2. CASE UNCHANGED <<x3, x8>>
  BY <1>1, <1>2, FetchReads, DocsData DEF Writing
<1>3. CASE x3' = [x3 EXCEPT ![name] = "cut"] /\ x8' = x8 \cup {name}
  <2>1. /\ x3 \in [Docs!Names -> OnDisk] /\ "cut" \in OnDisk
        /\ x1' \in Indices /\ x2' \in BOOLEAN /\ x8' \subseteq Docs!Names
    BY <1>1, <1>3 DEF DocsInv, DocsOK, OnDisk
  <2>2. x3' \in [Docs!Names -> OnDisk] /\ \A n \in Docs!Names : n # name => x3'[n] = x3[n]
    BY <1>1, <1>3, <2>1
  <2>3. ASSUME InTurn PROVE InTurnAfter(Docs!Idle)
    <3>1. /\ x2 => x8 = Docs!Names
          /\ \A n \in Docs!Names \ x8 : x1[n].url = x3[n]
      BY <1>1, <2>3, TrueWhileReading DEF Writing
    <3>2. KnowsDisk(Docs!Idle, x3', x8')
      BY DocsData DEF KnowsDisk
    <3>3. x2' => x8' = Docs!Names
      BY <1>1, <1>3, <3>1
    <3>4. \A n \in Docs!Names \ x8' : x1'[n].url = x3'[n]
      BY <1>1, <1>3, <2>2, <3>1
    <3> QED
      BY <3>2, <3>3, <3>4 DEF InTurnAfter
  <2>4. x5' = [x5 EXCEPT ![c] = Docs!Idle]
    BY <1>1 DEF Docs!Goes
  <2> QED
    BY <1>1, <2>1, <2>2, <2>3, <2>4, FetchMoves, DocsData
<1> QED
  BY <1>2, <1>3 DEF Docs!WriteDocFails

(* While one call runs, the index is read as it is.                        *)
LEMMA ReadInTurn ==
  ASSUME DocsInv, InTurn, NEW c \in Fetchers, x5[c].at \in {"add", "delete", "unlink", "clear", "write"}
  PROVE  /\ x2 => x8 = Docs!Names
         /\ ~x2 => Docs!ReadMetadata = x1
         /\ KnowsDisk(x5[c], x3, x8)
         /\ \A name \in Docs!Names \ x8 : x1[name].url = x3[name] \/ Owes(x5[c], name, x1)
<1>1. \A d \in Fetchers : d # c => x5[d].at = "idle"
  BY DEF InTurn, OneAtATime
<1>2. x2 => x8 = Docs!Names
  BY <1>1 DEF InTurn
<1>3. \A name \in Docs!Names \ x8 : x1[name].url = x3[name] \/ Owes(x5[c], name, x1)
  BY <1>1 DEF InTurn, Owes
<1> QED
  BY <1>2, <1>3, ReadIndex DEF InTurn

LEMMA EntryPut ==
  ASSUME DocsInv, NEW c \in Fetchers, Docs!ReadToAdd(c) \/ Docs!ReadToDelete(c)
  PROVE  DocsInv'
<1> PICK r \in Fetching : r = x5[c] /\ FetchOK(r)
  BY DEF DocsInv, DocsOK
<1>1. r.at \in {"add", "delete"} /\ r.url \in Urls /\ UNCHANGED <<x1, x2, x3, x4, x6, x7, x8>>
  BY DEF Docs!ReadToAdd, Docs!ReadToDelete, FetchOK, Docs!diskVars, Docs!ghostVars
<1>2. PICK read \in Indices : read = Docs!ReadMetadata
  BY ReadIndex
<1>3. PICK name : name = FileName[r.url] /\ name \in Docs!Names
  BY <1>1, DocsData
<1>4. PICK entry \in Entries :
        /\ x5' = [x5 EXCEPT ![c] = [r EXCEPT !.at = "write", !.metadata = [read EXCEPT ![name] = entry]]]
        /\ entry.url = IF r.at = "add" THEN r.url ELSE "none"
  <2>1. CASE Docs!ReadToAdd(c)
    <3>1. PICK entry : entry = [url |-> r.url, fetchedAt |-> r.now, expiresAt |-> r.now]
      OBVIOUS
    <3>2. entry \in Entries /\ entry.url = r.url
      BY <1>1, <3>1 DEF Entries, Fetching
    <3>3. x5' = [x5 EXCEPT ![c] = [r EXCEPT !.at = "write", !.metadata = [read EXCEPT ![name] = entry]]]
      BY <1>2, <1>3, <2>1, <3>1 DEF Docs!ReadToAdd, Docs!Goes
    <3>4. r.at = "add"
      BY <2>1 DEF Docs!ReadToAdd
    <3> QED
      BY <3>2, <3>3, <3>4, Zenon
  <2>2. CASE Docs!ReadToDelete(c)
    <3>1. Docs!NoEntry \in Entries /\ Docs!NoEntry.url = "none"
      BY DocsData
    <3>2. PICK entry : entry = Docs!NoEntry
      OBVIOUS
    <3>3. x5' = [x5 EXCEPT ![c] = [r EXCEPT !.at = "write", !.metadata = [read EXCEPT ![name] = entry]]]
      BY <1>2, <1>3, <2>2, <3>2 DEF Docs!ReadToDelete, Docs!Goes, Docs!Without
    <3>4. r.at = "delete"
      BY <2>2 DEF Docs!ReadToDelete
    <3>5. entry.url = IF r.at = "add" THEN r.url ELSE "none"
      BY <3>1, <3>2, <3>4
    <3> QED
      BY <3>1, <3>2, <3>3, <3>5, Zenon
  <2> QED
    BY <2>1, <2>2, Zenon
<1>5. PICK metadata \in Indices : metadata = [read EXCEPT ![name] = entry]
  BY DEF Indices
<1>6. /\ metadata[name] = entry /\ \A other \in Docs!Names : other # name => metadata[other] = read[other]
  BY <1>3, <1>5 DEF Indices
<1> PICK s : s = [r EXCEPT !.at = "write", !.metadata = metadata]
  OBVIOUS
<1>7. FetchOK(s) /\ s.at = "write" /\ s.metadata = metadata /\ s.url = r.url /\ s.url # "none"
  BY <1>1, DocsData DEF FetchOK, Fetching
<1>8. ASSUME InTurn PROVE InTurnAfter(s)
  <2>1. /\ x2 => x8 = Docs!Names
        /\ ~x2 => read = x1
        /\ KnowsDisk(r, x3, x8)
        /\ \A n \in Docs!Names \ x8 : x1[n].url = x3[n] \/ Owes(r, n, x1)
    BY <1>1, <1>2, <1>8, ReadInTurn
  <2>2. \A n \in Docs!Names \ x8 : n # name => x1[n].url = x3[n]
    BY <1>1, <1>3, <2>1 DEF Owes
  <2>3. metadata[name].url = x3[name]
    BY <1>1, <1>3, <1>4, <1>6, <2>1 DEF KnowsDisk
  <2>4. \A n \in Docs!Names : n # name => n \in x8 \/ metadata[n].url = x3[n]
    BY <1>6, <2>1, <2>2
  <2>5. KnowsDisk(s, x3', x8')
    BY <1>1, <1>3, <1>7, <2>3, <2>4 DEF KnowsDisk
  <2>6. \A n \in Docs!Names \ x8 : x1[n].url = x3[n] \/ Owes(s, n, x1)
    BY <1>3, <1>7, <2>2 DEF Owes
  <2> QED
    BY <1>1, <2>1, <2>5, <2>6 DEF InTurnAfter
<1>9. /\ x1' \in Indices /\ x2' \in BOOLEAN /\ x3' \in [Docs!Names -> OnDisk]
      /\ x8' \subseteq Docs!Names
  BY <1>1 DEF DocsInv, DocsOK
<1> QED
  BY <1>1, <1>4, <1>5, <1>7, <1>8, <1>9, FetchMoves

LEMMA DocumentGone ==
  ASSUME DocsInv, NEW c \in Fetchers, Docs!Unlink(c) \/ Docs!UnlinkFails(c)
  PROVE  DocsInv'
<1> PICK r \in Fetching : r = x5[c] /\ FetchOK(r)
  BY DEF DocsInv, DocsOK
<1> PICK name : name = FileName[r.url]
  OBVIOUS
<1>1. /\ r.at = "unlink" /\ r.url \in Urls /\ UNCHANGED <<x1, x2, x4, x6, x7, x8>> /\ name \in Docs!Names
      /\ x3 \in [Docs!Names -> OnDisk] /\ r.doomed \in Seq(Urls)
  BY DocsData DEF Docs!Unlink, Docs!UnlinkFails, FetchOK, Fetching, DocsInv, DocsOK,
     Docs!diskVars, Docs!ghostVars
<1>2. CASE x3' = x3 /\ Docs!Goes(c, Docs!Continue(c, r.doomed))
  <2>1. /\ FetchOK(Docs!Continue(c, r.doomed))
        /\ Docs!Continue(c, r.doomed).at \in {"fetch", "idle", "unlink"}
    BY <1>1, FetchGoesOn
  <2> QED
    BY <1>1, <1>2, <2>1, FetchReads DEF Writing
<1>3. CASE x3' = [x3 EXCEPT ![name] = "none"] /\ Docs!Goes(c, [r EXCEPT !.at = "delete"])
  <2>1. /\ x3' \in [Docs!Names -> OnDisk] /\ x3'[name] = "none"
        /\ \A other \in Docs!Names : other # name => x3'[other] = x3[other]
    BY <1>1, <1>3 DEF OnDisk
  <2> PICK s : s = [r EXCEPT !.at = "delete"]
    OBVIOUS
  <2>2. FetchOK(s) /\ s.at = "delete" /\ s.url = r.url /\ s.url # "none"
    BY <1>1, DocsData DEF FetchOK, Fetching
  <2>3. x5' = [x5 EXCEPT ![c] = s]
    BY <1>3 DEF Docs!Goes
  <2>4. ASSUME InTurn PROVE InTurnAfter(s)
    <3>1. /\ x2 => x8 = Docs!Names
          /\ \A n \in Docs!Names \ x8 : x1[n].url = x3[n]
      BY <1>1, <2>4, TrueWhileReading DEF Writing
    <3>2. KnowsDisk(s, x3', x8')
      BY <2>1, <2>2 DEF KnowsDisk
    <3>3. \A n \in Docs!Names : x3'[n] = x3[n] \/ Owes(s, n, x1')
      BY <2>1, <2>2 DEF Owes
    <3> QED
      BY <1>1, <3>1, <3>2, <3>3 DEF InTurnAfter
  <2>5. x1' \in Indices /\ x2' \in BOOLEAN /\ x8' \subseteq Docs!Names
    BY <1>1 DEF DocsInv, DocsOK
  <2> QED
    BY <1>1, <2>1, <2>2, <2>3, <2>4, <2>5, FetchMoves
<1>4. \/ x3' = x3 /\ Docs!Goes(c, Docs!Continue(c, r.doomed))
      \/ x3' = [x3 EXCEPT ![name] = "none"] /\ Docs!Goes(c, [r EXCEPT !.at = "delete"])
  <2>1. x3[name] = "none" => [x3 EXCEPT ![name] = "none"] = x3
    BY <1>1
  <2> QED
    BY <2>1 DEF Docs!Unlink, Docs!UnlinkFails, Docs!diskVars
<1> QED
  BY <1>2, <1>3, <1>4

LEMMA DocumentsGone ==
  ASSUME DocsInv, NEW c \in Fetchers, Docs!Clear(c)
  PROVE  DocsInv'
<1> PICK r \in Fetching : r = x5[c] /\ FetchOK(r)
  BY DEF DocsInv, DocsOK
<1>1. /\ r.at = "clear" /\ UNCHANGED <<x1, x2, x4, x6, x7>> /\ r.metadata = Docs!Empty /\ r.url = "none"
      /\ x3 \in [Docs!Names -> OnDisk]
  BY DEF Docs!Clear, FetchOK, DocsInv, DocsOK
<1>2. PICK listed : listed = Docs!Listed(Docs!ReadMetadata)
  OBVIOUS
<1>3. PICK kept \in SUBSET listed :
        /\ x3' = [name \in Docs!Names |-> IF name \in listed \ kept THEN "none" ELSE x3[name]]
        /\ x8' = x8 \cup kept
  BY <1>2 DEF Docs!Clear
<1>4. x3' \in [Docs!Names -> OnDisk]
  BY <1>1, <1>3 DEF OnDisk
<1> PICK s : s = [r EXCEPT !.at = "write"]
  OBVIOUS
<1>5. FetchOK(s) /\ s.at = "write" /\ s.metadata = Docs!Empty /\ s.url = "none"
  BY <1>1, FetchGoesOn DEF Fetching
<1>6. x5' = [x5 EXCEPT ![c] = s]
  BY DEF Docs!Clear, Docs!Goes
<1>7. x1' \in Indices /\ x2' \in BOOLEAN /\ x8' \subseteq Docs!Names
  BY <1>1, <1>2, <1>3 DEF DocsInv, DocsOK, Docs!Listed
<1>8. ASSUME InTurn PROVE InTurnAfter(s)
  <2>1. /\ x2 => x8 = Docs!Names
        /\ ~x2 => Docs!ReadMetadata = x1
        /\ \A n \in Docs!Names \ x8 : x1[n].url = x3[n]
    BY <1>1, <1>8, ReadInTurn DEF Owes
  <2>2. \A n \in Docs!Names \ x8' : n \in listed => x3'[n] = "none"
    BY <1>3
  <2>3. \A n \in Docs!Names \ x8' : n \notin listed => x1[n] = Docs!NoEntry /\ x3'[n] = x3[n] /\ x3[n] = "none"
    <3> SUFFICES ASSUME NEW n \in Docs!Names \ x8', n \notin listed
                 PROVE  x1[n] = Docs!NoEntry /\ x3'[n] = x3[n] /\ x3[n] = "none"
      OBVIOUS
    <3>1. ~x2 /\ n \notin x8
      BY <1>3, <2>1
    <3>2. x1[n] = Docs!NoEntry
      BY <1>2, <2>1, <3>1 DEF Docs!Listed
    <3> QED
      BY <1>3, <2>1, <3>1, <3>2, DocsData
  <2>4. KnowsDisk(s, x3', x8')
    BY <1>5, <2>2, <2>3, DocsData DEF KnowsDisk
  <2>5. \A n \in Docs!Names \ x8' : x1'[n].url = x3'[n] \/ Owes(s, n, x1')
    <3> SUFFICES ASSUME NEW n \in Docs!Names \ x8', x1[n] = Docs!NoEntry PROVE x1[n].url = x3'[n]
      BY <1>1, <1>5 DEF Owes
    <3>1. x3'[n] = "none"
      BY <2>2, <2>3
    <3> QED
      BY <3>1, DocsData
  <2>6. x2' => x8' = Docs!Names
    BY <1>1, <1>3, <1>7, <2>1
  <2> QED
    BY <2>4, <2>5, <2>6 DEF InTurnAfter
<1> QED
  BY <1>1, <1>4, <1>5, <1>6, <1>7, <1>8, FetchMoves

LEMMA IndexWritten ==
  ASSUME DocsInv, NEW c \in Fetchers, Docs!CutMetadata(c) \/ Docs!FillMetadata(c)
  PROVE  DocsInv'
<1> PICK r \in Fetching : r = x5[c] /\ FetchOK(r)
  BY DEF DocsInv, DocsOK
<1>1. /\ r.at \in {"write", "fill"} /\ UNCHANGED <<x3, x4, x6, x7>> /\ x1 \in Indices /\ r.metadata \in Indices
      /\ x3 \in [Docs!Names -> OnDisk] /\ r.doomed \in Seq(Urls) /\ x8 \subseteq Docs!Names
  BY DEF Docs!CutMetadata, Docs!FillMetadata, DocsInv, DocsOK, Fetching, Docs!ghostVars
<1>2. InTurn => KnowsDisk(r, x3, x8)
  BY DEF InTurn
<1>3. CASE Docs!CutMetadata(c)
  <2> PICK s : s = [r EXCEPT !.at = "fill"]
    OBVIOUS
  <2>1. FetchOK(s) /\ s.at = "fill" /\ s.metadata = r.metadata /\ s.url = r.url /\ r.at = "write"
    BY <1>3, FetchGoesOn DEF Fetching, Docs!CutMetadata
  <2>2. x5' = [x5 EXCEPT ![c] = s] /\ x2' = TRUE /\ x1' = x1 /\ x8' = x8
    BY <1>3 DEF Docs!CutMetadata, Docs!Goes, Docs!ghostVars
  <2>3. InTurn => InTurnAfter(s)
    <3>1. \A n \in Docs!Names : Owes(s, n, x1')
      BY <2>1 DEF Owes
    <3>2. InTurn => KnowsDisk(s, x3', x8')
      BY <1>1, <1>2, <2>1, <2>2 DEF KnowsDisk
    <3> QED
      BY <2>1, <3>1, <3>2 DEF InTurnAfter
  <2> QED
    BY <1>1, <2>1, <2>2, <2>3, FetchMoves
<1>4. CASE Docs!FillMetadata(c)
  <2>1. PICK s : s = Docs!Continue(c, r.doomed)
    OBVIOUS
  <2>2. FetchOK(s) /\ s.at \in {"fetch", "idle", "unlink"}
    BY <1>1, <2>1, FetchGoesOn
  <2>3. /\ x5' = [x5 EXCEPT ![c] = s] /\ x2' = FALSE /\ x1' = r.metadata /\ r.at = "fill"
        /\ x8' = IF r.url = "none" THEN {name \in x8 : x3[name] # "none"} ELSE x8 \ {FileName[r.url]}
    BY <1>4, <2>1 DEF Docs!FillMetadata, Docs!Goes
  <2>4. ASSUME InTurn PROVE InTurnAfter(s)
    <3>1. KnowsDisk(s, x3', x8')
      BY <2>2 DEF KnowsDisk
    <3>2. \A n \in Docs!Names : \/ r.metadata[n].url = x3[n]
                                \/ n \in x8 /\ (r.url = "none" \/ FileName[r.url] # n)
      BY <1>2, <2>3, <2>4 DEF KnowsDisk
    <3>3. r.url = "none" => \A n \in Docs!Names : r.metadata[n].url = "none"
      BY <2>3, DocsData DEF FetchOK
    <3>4. \A n \in Docs!Names \ x8' : r.metadata[n].url = x3[n]
      BY <2>3, <3>2, <3>3
    <3> QED
      BY <1>1, <2>3, <3>1, <3>4 DEF InTurnAfter
  <2>5. x8' \subseteq Docs!Names
    BY <1>1, <2>3
  <2> QED
    BY <1>1, <2>2, <2>3, <2>4, <2>5, FetchMoves
<1> QED
  BY <1>3, <1>4

LEMMA IndexFails ==
  ASSUME DocsInv, NEW c \in Fetchers, Docs!WriteMetadataFails(c)
  PROVE  DocsInv'
<1> PICK r \in Fetching : r = x5[c] /\ FetchOK(r)
  BY DEF DocsInv, DocsOK
<1>1. /\ r.at \in {"write", "fill"} /\ UNCHANGED <<x1, x2, x3, x4, x6, x7>> /\ x1 \in Indices
      /\ x2 \in BOOLEAN /\ x3 \in [Docs!Names -> OnDisk] /\ r.doomed \in Seq(Urls)
      /\ x8 \subseteq Docs!Names
  BY DEF Docs!WriteMetadataFails, DocsInv, DocsOK, Fetching, Docs!diskVars
<1>2. PICK s : s = Docs!Continue(c, r.doomed)
  OBVIOUS
<1>3. FetchOK(s) /\ s.at \in {"fetch", "idle", "unlink"}
  BY <1>1, <1>2, FetchGoesOn
<1>4. x5' = [x5 EXCEPT ![c] = s]
  BY <1>2 DEF Docs!WriteMetadataFails, Docs!Goes
<1>5. KnowsDisk(s, x3', x8')
  BY <1>3 DEF KnowsDisk
<1>6. CASE r.at = "fill"
  <2>1. x8' = Docs!Names
    BY <1>6 DEF Docs!WriteMetadataFails
  <2>2. InTurnAfter(s)
    BY <1>5, <2>1 DEF InTurnAfter
  <2> QED
    BY <1>1, <1>3, <1>4, <2>1, <2>2, FetchMoves
<1>7. CASE r.at = "write"
  <2> PICK touched : touched = Docs!Touched(c)
    OBVIOUS
  <2>1. x8' = x8 \cup touched
    BY <1>7 DEF Docs!WriteMetadataFails
  <2>2. touched = IF r.url = "none" THEN Docs!Listed(Docs!ReadMetadata) ELSE {FileName[r.url]}
    BY DEF Docs!Touched
  <2>3. touched \subseteq Docs!Names
    <3>1. r.url # "none" => r.url \in Urls
      BY DEF Fetching
    <3> QED
      BY <2>2, <3>1, DocsData DEF Docs!Listed
  <2>4. ASSUME InTurn PROVE InTurnAfter(s)
    <3>1. /\ x2 => x8 = Docs!Names
          /\ ~x2 => Docs!ReadMetadata = x1
          /\ \A n \in Docs!Names \ x8 : x1[n].url = x3[n] \/ Owes(r, n, x1)
      BY <1>7, <2>4, ReadInTurn
    <3>2. \A n \in Docs!Names \ x8 : ~x2 /\ Owes(r, n, x1) => n \in touched
      BY <1>7, <2>2, <3>1 DEF Owes, Docs!Listed
    <3>3. x2' => x8' = Docs!Names
      BY <1>1, <2>1, <2>3, <3>1
    <3>4. \A n \in Docs!Names \ x8' : x1'[n].url = x3'[n]
      BY <1>1, <2>1, <3>1, <3>2
    <3> QED
      BY <1>5, <3>3, <3>4 DEF InTurnAfter
  <2> QED
    BY <1>1, <1>3, <1>4, <2>1, <2>3, <2>4, FetchMoves
<1> QED
  BY <1>1, <1>6, <1>7

(* The steps that are not a call's own: it begins, time passes, or the     *)
(* process ends.                                                           *)
LEMMA FetchBegins ==
  ASSUME DocsInv, NEW c \in Fetchers, NEW at \in {"get", "peek", "clear", "stats"},
         NEW url \in Urls \cup {"none"}, NEW fetches \in BOOLEAN,
         at \in {"get", "peek"} \/ fetches => url \in Urls, at = "clear" => url = "none",
         Docs!Start(c, at, url, fetches)
  PROVE  DocsInv'
<1> PICK r : r = [Docs!Idle EXCEPT !.at = at, !.url = url, !.fetches = fetches]
  OBVIOUS
<1>1. FetchOK(r) /\ r.at = at
  <2>1. Docs!Idle \in Fetching /\ Docs!Idle.metadata = Docs!Empty
    BY DocsData DEF FetchOK
  <2>2. r \in Fetching /\ r.at = at /\ r.url = url /\ r.fetches = fetches /\ r.metadata = Docs!Empty
    BY <2>1 DEF Fetching
  <2> QED
    BY <2>2 DEF FetchOK
<1>2. /\ x5[c].at = "idle" /\ x5' = [x5 EXCEPT ![c] = r] /\ UNCHANGED <<x1, x2, x3, x4, x8>>
      /\ x6 < MaxFetches /\ x6' = x6 + 1 /\ x7' = (x7 \/ Docs!Others(c) # {})
  BY DEF Docs!Start, Docs!Goes, Docs!diskVars
<1>3. x5 \in [Fetchers -> Fetching] /\ r \in Fetching
  BY <1>1 DEF DocsInv, DocsOK, FetchOK
<1>4. x5' \in [Fetchers -> Fetching] /\ x5'[c] = r /\ \A d \in Fetchers : d # c => x5'[d] = x5[d]
  BY <1>2, <1>3
<1>5. DocsOK'
  <2>1. \A d \in Fetchers : FetchOK(x5'[d])
    BY <1>1, <1>4 DEF DocsInv, DocsOK
  <2>2. x6' \in 0 .. MaxFetches
    BY <1>2, DocsAssumption DEF DocsInv, DocsOK
  <2>3. x7' \in BOOLEAN
    BY <1>2
  <2>4. /\ x1' \in Indices /\ x2' \in BOOLEAN /\ x3' \in [Docs!Names -> OnDisk]
        /\ x4' \in 0 .. MaxClock /\ x8' \subseteq Docs!Names
    BY <1>2 DEF DocsInv, DocsOK
  <2> QED
    BY <1>4, <2>1, <2>2, <2>3, <2>4 DEF DocsOK, FetchOK
<1>6. ASSUME ~x7' PROVE InTurn'
  <2>1. ~x7 /\ Docs!Others(c) = {} /\ InTurn
    BY <1>2, <1>6 DEF DocsInv
  <2>2. \A d \in Fetchers : x5[d].at = "idle"
    BY <1>2, <2>1 DEF Docs!Others
  <2>3. /\ x2 => x8 = Docs!Names
        /\ \A name \in Docs!Names \ x8 : x1[name].url = x3[name]
    BY <2>1, <2>2 DEF InTurn, Owes
  <2>4. \A d \in Fetchers : d # c => x5'[d].at = "idle"
    BY <1>4, <2>2
  <2>5. \A d \in Fetchers : x5'[d].at \notin {"write", "fill", "add", "delete"}
    BY <1>1, <1>4, <2>4
  <2> QED
    BY <1>2, <2>3, <2>4, <2>5 DEF InTurn, OneAtATime, KnowsDisk
<1> QED
  BY <1>5, <1>6 DEF DocsInv

LEMMA DocsTick == ASSUME DocsInv, Docs!Tick PROVE DocsInv'
<1>1. x4 < MaxClock /\ x4' = x4 + 1 /\ UNCHANGED <<x1, x2, x3, x5, x6, x7, x8>>
  BY DEF Docs!Tick, Docs!diskVars, Docs!ghostVars
<1>2. x4' \in 0 .. MaxClock
  BY <1>1, DocsAssumption DEF DocsInv, DocsOK
<1> QED
  BY <1>1, <1>2 DEF DocsInv, DocsOK, InTurn, OneAtATime

LEMMA DocsCrash == ASSUME DocsInv, Docs!Crash PROVE DocsInv'
<1>1. x5' = [c \in Fetchers |-> Docs!Idle] /\ x7' = TRUE /\ UNCHANGED <<x1, x2, x3, x4, x6, x8>>
  BY DEF Docs!Crash, Docs!diskVars
<1>2. Docs!Idle \in Fetching /\ FetchOK(Docs!Idle)
  BY DocsData DEF FetchOK
<1>3. x5' \in [Fetchers -> Fetching] /\ \A c \in Fetchers : FetchOK(x5'[c])
  BY <1>1, <1>2
<1>4. /\ x1' \in Indices /\ x2' \in BOOLEAN /\ x3' \in [Docs!Names -> OnDisk]
      /\ x4' \in 0 .. MaxClock /\ x6' \in 0 .. MaxFetches /\ x7'
      /\ x8' \subseteq Docs!Names
  BY <1>1 DEF DocsInv, DocsOK
<1>5. x7' \in BOOLEAN
  BY <1>1
<1> QED
  BY <1>3, <1>4, <1>5 DEF DocsInv, DocsOK, FetchOK

LEMMA DocsStep ==
  ASSUME DocsInv, Docs!Next \/ UNCHANGED <<x1, x2, x3, x4, x5, x6, x7, x8, x9>>
  PROVE  DocsInv'
<1>1. ASSUME NEW c \in Fetchers, NEW url \in Urls, Docs!Webfetch(c, url) \/ Docs!CacheDocsGet(c, url)
      PROVE  DocsInv'
  BY <1>1, FetchBegins DEF Docs!Webfetch, Docs!CacheDocsGet
<1>2. ASSUME NEW c \in Fetchers, Docs!CacheDocsClear(c) \/ Docs!CleanDocs(c)
      PROVE  DocsInv'
  BY <1>2, FetchBegins DEF Docs!CacheDocsClear, Docs!CleanDocs
<1>3. ASSUME NEW c \in Fetchers, Docs!Step(c)
      PROVE  DocsInv'
  BY <1>3, FetchLooks, FetchLists, FetchAnswered, EntryPut, DocumentGone, DocumentsGone, IndexWritten,
     DocumentFails, IndexFails DEF Docs!Step
<1>4. CASE UNCHANGED <<x1, x2, x3, x4, x5, x6, x7, x8, x9>>
  BY <1>4 DEF DocsInv, DocsOK, InTurn, OneAtATime
<1> QED
  BY <1>1, <1>2, <1>3, <1>4, DocsTick, DocsCrash DEF Docs!Next

(* While calls come one at a time and none is cut short, only failures and *)
(* the call that runs leave the index untrue, the call knowing what to     *)
(* write (x1 to x9 are the variables of DocumentCache).                    *)
THEOREM CacheCorrect == Docs!Spec => []DocsInv
<1>1. DocsInv /\ [Docs!Next]_(Docs!cacheVars) => DocsInv'
  BY DocsStep DEF Docs!cacheVars, Docs!diskVars, Docs!ghostVars
<1> QED
  BY <1>1, DocsStart, PTL DEF Docs!Spec

LEMMA DocsShow == DocsInv => Docs!IndexIsTrueInTurn /\ Docs!CacheTypeOK
<1> SUFFICES ASSUME DocsInv PROVE Docs!IndexIsTrueInTurn /\ Docs!CacheTypeOK
  OBVIOUS
<1>1. Docs!IndexIsTrueInTurn
  BY DEF DocsInv, InTurn, Owes, Docs!IndexIsTrueInTurn, Docs!Quiet
<1>2. \A name \in Docs!Names : x1[name].url \in Urls \cup {"none"} /\ x3[name] \in OnDisk
  <2>1. \A e \in Entries : e.url \in Urls \cup {"none"}
    BY DocsData DEF Entries
  <2> QED
    BY <2>1 DEF DocsInv, DocsOK, Indices
<1>3. \A c \in Fetchers : x5[c].url \in Urls \cup {"none"}
  BY DEF DocsInv, DocsOK, Fetching
<1> QED
  BY <1>1, <1>2, <1>3 DEF DocsInv, DocsOK, Docs!CacheTypeOK, OnDisk

-----------------------------------------------------------------------------
(* 6. Whatever service a behaviour is one of.                              *)

FilesSafe ==
  /\ part = "sed" => SedInv
  /\ part = "cleanup" => CleanupInv
  /\ part = "todoMd" => TodoFileInv
  /\ part = "setup" => InstallerInv
  /\ part = "docs" => DocsInv

LEMMA FilesSafeStarts == ServicesInit => FilesSafe
BY SedStarts, HistoryStarts, LimitStarts, TodoFileStarts, InstallerStarts, DocsStart
   DEF ServicesInit, FilesSafe, CleanupInv

LEMMA FilesSafeStep == FilesSafe /\ [ServicesNext]_vars => FilesSafe'
<1>1. ASSUME FilesSafe, [ServicesNext]_vars, part' = "sed" PROVE SedInv'
  <2>1. part = "sed" /\ [Sed!Next]_(Sed!sedVars)
    BY <1>1 DEF ServicesNext, vars, Sed!sedVars
  <2> QED
    BY <1>1, <2>1, SedStep DEF FilesSafe
<1>2. ASSUME FilesSafe, [ServicesNext]_vars, part' = "cleanup" PROVE CleanupInv'
  <2>1. part = "cleanup" /\ [Cleanup!Next]_(Cleanup!cleanupVars)
    BY <1>2 DEF ServicesNext, vars, Cleanup!cleanupVars
  <2> QED
    BY <1>2, <2>1, CleanupStep DEF FilesSafe
<1>3. ASSUME FilesSafe, [ServicesNext]_vars, part' = "todoMd" PROVE TodoFileInv'
  <2>1. part = "todoMd" /\ [TodoMd!Next]_(TodoMd!todoVars)
    BY <1>3 DEF ServicesNext, vars, TodoMd!todoVars
  <2> QED
    BY <1>3, <2>1, TodoFileStep DEF FilesSafe
<1>4. ASSUME FilesSafe, [ServicesNext]_vars, part' = "setup" PROVE InstallerInv'
  <2>1. part = "setup" /\ (Setup!Next \/ UNCHANGED <<x1, x2, x3, x4, x5>>)
    BY <1>4 DEF ServicesNext, vars
  <2> QED
    BY <1>4, <2>1, InstallerStep DEF FilesSafe
<1>5. ASSUME FilesSafe, [ServicesNext]_vars, part' = "docs" PROVE DocsInv'
  <2>1. part = "docs" /\ (Docs!Next \/ UNCHANGED <<x1, x2, x3, x4, x5, x6, x7, x8, x9>>)
    BY <1>5 DEF ServicesNext, vars
  <2> QED
    BY <1>5, <2>1, DocsStep DEF FilesSafe
<1> QED
  BY <1>1, <1>2, <1>3, <1>4, <1>5 DEF FilesSafe

(* With backup, what the file held before the run is whole on the disk at  *)
(* every moment of the run and after it, in the file or in one of its      *)
(* backups: though the run's walk comes to the backups it makes and        *)
(* rewrites them too, though it overwrites the backups of earlier runs,    *)
(* and whichever write fails or is cut off (sed.rs 101-117).               *)
(* The same of the history that the scheduler compresses and deletes, with *)
(* other cleanups and crashes at its awaits, unless the file limit took    *)
(* one of its files; and that limit is enforced on what was listed but for *)
(* the files it could not delete, though others rename and delete files    *)
(* meanwhile (cleanup-scheduler.ts 102-257).                               *)
THEOREM OriginalsSurvive == ServicesSpec => []OriginalSurvives
<1>1. FilesSafe => OriginalSurvives
  BY SedKeeps, CleanupKeeps DEF FilesSafe, OriginalSurvives
<1> QED
  BY <1>1, FilesSafeStarts, FilesSafeStep, PTL DEF ServicesSpec

(* An update of the todo list that was reported as made is in the file, or *)
(* a later one of its item is, however many others of its process read,    *)
(* write, fail and retry around it, unless one was written over a file     *)
(* that could not be read (todo-manager.ts 86-155).                        *)
THEOREM UpdatesStay == ServicesSpec => []ReportedUpdatesStay
<1>1. FilesSafe => ReportedUpdatesStay
  BY TodoFileShows DEF FilesSafe, ReportedUpdatesStay
<1> QED
  BY <1>1, FilesSafeStarts, FilesSafeStep, PTL DEF ServicesSpec

(* The watcher's debounce loses no change of the file it watches, though   *)
(* reloads overlap, end in any order and fail: when no timer is set, what  *)
(* the last reload has read is what the file holds, and it is what the     *)
(* service holds if that reload was the last to end                        *)
(* (todo-sync-service.ts 51-65, 104-121).                                  *)
THEOREM SyncSees == ServicesSpec => []SyncSeesLastChange
<1>1. FilesSafe => SyncSeesLastChange
  BY TodoFileShows DEF FilesSafe, SyncSeesLastChange
<1> QED
  BY <1>1, FilesSafeStarts, FilesSafeStep, PTL DEF ServicesSpec

(* The installer's scripts lose none of the user's settings, whichever     *)
(* write fails, whatever the user edits, and wherever a script is killed,  *)
(* but for a rollback that was cut short KeptBackups runs ago              *)
(* (postinstall.ts 301-308).                                               *)
THEOREM SettingsStay == ServicesSpec => []SettingsSurvive
<1>1. FilesSafe => SettingsSurvive
  BY SettingsShow DEF FilesSafe, SettingsSurvive
<1> QED
  BY <1>1, FilesSafeStarts, FilesSafeStep, PTL DEF ServicesSpec

(* One call at a time, none of them cut short: the index of the documents  *)
(* lists what the disk holds, under the url it came from, whichever names  *)
(* collide, but for the names that a failing write or unlink has touched   *)
(* since a call last set them right (cache/operations.ts 14-135).          *)
THEOREM IndexIsTrue == ServicesSpec => []IndexIsTrueInTurn
<1>1. FilesSafe => IndexIsTrueInTurn
  BY DocsShow DEF FilesSafe, IndexIsTrueInTurn
<1> QED
  BY <1>1, FilesSafeStarts, FilesSafeStep, PTL DEF ServicesSpec
=============================================================================
