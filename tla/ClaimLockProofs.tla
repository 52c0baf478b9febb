---------------------------- MODULE ClaimLockProofs ----------------------------
(***************************************************************************)
(* Proofs about ClaimLock: for all sets of processes and hosts and every   *)
(* depth of tokens, whoever is killed at whatever step, the lock file is a *)
(* mutex as long as no live process is held up for the stale age within a  *)
(* pass (Prompt; without it OneHolder fails, see ClaimLock_stalled.cfg).   *)
(*                                                                         *)
(* The argument: an old file is no live process's, but for a held lock,    *)
(* which is stamped.  So a file found stale, and found again under the     *)
(* token for its content, is a dead process's; and until p unlinks it,     *)
(* nobody else does, because the token is for one content of one file.     *)
(***************************************************************************)
EXTENDS ClaimLock, SequenceTheorems, TLAPS

-----------------------------------------------------------------------------
(* Paths are sequences of contents, of limited length. *)
LEMMA PathFacts ==
  ASSUME NEW path \in Path, LockAssumption
  PROVE  path \in Seq(Content) /\ Len(path) \in 0..MaxDepth
<1>1. PICK n \in 0..MaxDepth : path \in [1..n -> Content]
  BY DEF Path
<1> QED
  BY <1>1 DEF LockAssumption

(* A recovery token of a path within the depth is a path.                  *)
LEMMA ShortIsPath ==
  ASSUME NEW s \in Seq(Content), LockAssumption, Len(s) <= MaxDepth
  PROVE  s \in Path
<1>1. s \in [1..Len(s) -> Content] /\ Len(s) \in 0..MaxDepth
  BY LenProperties DEF LockAssumption
<1> QED
  BY <1>1 DEF Path

(* The lock file is one of the paths.                                      *)
LEMMA LockIsPath == LockAssumption => Lock \in Path
<1>1. <<>> \in Seq(Content) /\ Len(<<>>) = 0
  BY EmptySeq
<1>2. LockAssumption => 0 <= MaxDepth
  BY DEF LockAssumption
<1> QED
  BY <1>1, <1>2, ShortIsPath DEF Lock

(* The first n contents of a name: the path examined at depth n. *)
Upto(s, n) == [i \in 1..n |-> s[i]]

(* Front and Last take apart what Append puts together. *)
LEMMA AppendFacts ==
  ASSUME NEW s \in Seq(Content), NEW c \in Content
  PROVE  /\ Append(s, c) \in Seq(Content)
         /\ Append(s, c) # Lock
         /\ Len(Append(s, c)) = Len(s) + 1
         /\ Front(Append(s, c)) = s
         /\ Last(Append(s, c)) = c
<1>1. /\ Append(s, c) \in Seq(Content)
      /\ Append(s, c) # << >>
      /\ Len(Append(s, c)) = Len(s)+1
      /\ \A i \in 1.. Len(s) : Append(s, c)[i] = s[i]
      /\ Append(s, c)[Len(s)+1] = c
  BY AppendProperties
<1>2. Len(s) \in Nat
  BY LenProperties
<1>3. Front(Append(s, c)) = SubSeq(Append(s, c), 1, Len(s))
  BY <1>1, <1>2 DEF Front
<1>4. SubSeq(Append(s, c), 1, Len(s)) = s
  <2> DEFINE t == SubSeq(Append(s, c), 1, Len(s))
  <2>1. \A i \in 1..Len(s) : Append(s, c)[i] \in Content
    BY <1>1, ElementOfSeq
  <2>2. /\ t \in Seq(Content)
        /\ Len(t) = IF 1 <= Len(s) THEN Len(s)-1+1 ELSE 0
        /\ \A i \in 1 .. Len(s)-1+1 : t[i] = Append(s, c)[1+i-1]
    BY <2>1, <1>2, SubSeqProperties
  <2> HIDE DEF t
  <2>3. Len(t) = Len(s) /\ \A i \in 1..Len(t) : t[i] = s[i]
    BY <2>2, <1>1, <1>2
  <2>4. t = s
    BY <2>2, <2>3, SeqEqual
  <2> QED
    BY <2>4 DEF t
<1> QED
  BY <1>1, <1>2, <1>3, <1>4 DEF Last, Lock

(* The path of the token for a file with content c. *)
LEMMA LongerPath ==
  ASSUME NEW path \in Path, LockAssumption, Len(path) < MaxDepth, NEW c \in Content
  PROVE  /\ Append(path, c) \in Path
         /\ Append(path, c) # Lock
         /\ Len(Append(path, c)) = Len(path) + 1
         /\ Front(Append(path, c)) = path
         /\ Last(Append(path, c)) = c
<1>1. path \in Seq(Content) /\ Len(path) \in Nat
  BY PathFacts, LenProperties
<1>2. Len(path) + 1 <= MaxDepth
  BY <1>1 DEF LockAssumption
<1>3. Append(path, c) \in Path
  BY <1>1, <1>2, AppendFacts, ShortIsPath
<1> QED
  BY <1>1, <1>3, AppendFacts

(* The path of the file that a token is for. *)
LEMMA ShorterPath ==
  ASSUME NEW path \in Path, LockAssumption, path # Lock
  PROVE  /\ Front(path) \in Path
         /\ Len(path) = Len(Front(path)) + 1
         /\ path = Append(Front(path), Last(path))
         /\ Last(path) \in Content
<1>1. path \in Seq(Content) /\ Len(path) \in 0..MaxDepth
  BY PathFacts
<1>2. PICK s \in Seq(Content), c \in Content : path = Append(s, c)
  BY <1>1, SequenceEmptyOrAppend DEF Lock
<1>3. Front(path) = s /\ Last(path) = c /\ Len(path) = Len(s) + 1 /\ Len(s) \in Nat
  BY <1>2, AppendFacts, LenProperties
<1>4. s \in Path
  BY <1>1, <1>3, ShortIsPath DEF LockAssumption
<1> QED
  BY <1>2, <1>3, <1>4
-----------------------------------------------------------------------------
(* The phases in which the file at the process's path is its own. *)
Owning == {"stamp", "held", "stampToken", "restat", "reread", "unlink", "untoken"}

(* Only the lock's own phases are at the lock, and the path that is examined*)
(* has room for the content that is appended to it.                         *)
Shape ==
  \A p \in Process :
    /\ pc[p] \in {"idle", "stamp", "held"} => name[p] = Lock
    /\ pc[p] \in {"stat", "read"} => Len(name[p]) < MaxDepth
    /\ pc[p] \in Recovering \ {"stat", "read"} => name[p] # Lock

(* p has the file of its phase, and no others. *)
FilesOf(p) ==
  \A path \in Path : files[path].owner = p <=> name[p] = path /\ pc[p] \in Owning

(* A path at which a file was made during the pass of p has no old file. *)
Young(p) == \A path \in fresh[p] : ~files[path].old

(* The files of p are of its own pass, but for its lock, which is stamped. *)
OwnFresh(p) ==
  /\ pc[p] \in Owning \ {"held"} => name[p] \in fresh[p]
  /\ pc[p] = "held" => files[Lock].stamped

(* The file at the path was there when the pass of p began. *)
Untouched(p, path) == path \notin fresh[p] /\ Exists(path)

DeadBlank(path) == files[path].owner \in dead /\ ~files[path].stamped

(* A blank file that p saw old is a dead process's, unless it is a new one; *)
BlankSeen(p) ==
  pc[p] = "read" /\ seenOld[p] /\ Untouched(p, name[p]) /\ ~files[name[p]].stamped
    => files[name[p]].owner \in dead

(* so is one that was blank when p read it, at any depth;                   *)
BlankNamed(p) ==
  pc[p] \in Recovering => \A n \in 1..Len(name[p]) :
    name[p][n] = Blank /\ Untouched(p, Upto(name[p], n - 1)) => DeadBlank(Upto(name[p], n - 1))

(* and so is one that p saw old when it looked again.                       *)
BlankSeenAgain(p) ==
  pc[p] = "reread" /\ seenOld[p] /\ Last(name[p]) = Blank => DeadBlank(Target(p))

(* What p is about to unlink is a dead process's, with the content that the *)
(* token of p is for.                                                       *)
Doomed(p) ==
  pc[p] = "unlink" =>
    files[Target(p)].owner \in dead /\ Text(files[Target(p)]) = Last(name[p])

Good(p) ==
  /\ FilesOf(p) /\ Young(p) /\ OwnFresh(p)
  /\ BlankSeen(p) /\ BlankNamed(p) /\ BlankSeenAgain(p) /\ Doomed(p)

IInv == TypeOK /\ Shape /\ \A p \in Process \ dead : Good(p)

-----------------------------------------------------------------------------
(* An old file of a live process is its lock, and stamped. *)
LEMMA OldIsHeld ==
  ASSUME LockAssumption, IInv, NEW q \in Process \ dead, NEW path \in Path,
         files[path].owner = q, files[path].old
  PROVE  path = Lock /\ files[path].stamped
<1>1. name[q] = path /\ pc[q] \in Owning
  BY DEF IInv, Good, FilesOf
<1>2. pc[q] = "held"
  BY <1>1 DEF IInv, Good, Young, OwnFresh
<1> QED
  BY <1>1, <1>2 DEF IInv, Shape, Good, OwnFresh

(* A step of p leaves alone where the others are. *)
Alone(p) ==
  /\ dead' = dead
  /\ \A q \in Process \ {p} : pc'[q] = pc[q] /\ name'[q] = name[q] /\ seenOld'[q] = seenOld[q]

(* The paths that the invariant of a process speaks of. *)
LEMMA PathsOf ==
  ASSUME LockAssumption, IInv, NEW q \in Process
  PROVE  /\ name[q] \in Path /\ Lock \in Path
         /\ pc[q] \in Recovering \ {"stat", "read"} => Target(q) \in Path
         /\ \A n \in 1..Len(name[q]) : Upto(name[q], n - 1) \in Path
<1>1. name[q] \in Path
  BY DEF IInv, TypeOK
<1>2. pc[q] \in Recovering \ {"stat", "read"} => Target(q) \in Path
  BY <1>1, ShorterPath DEF IInv, Shape, Target
<1>3. ASSUME NEW n \in 1..Len(name[q]) PROVE Upto(name[q], n - 1) \in Path
  <2>1. name[q] \in Seq(Content) /\ Len(name[q]) \in 0..MaxDepth
    BY <1>1, PathFacts
  <2>2. n - 1 \in 0..MaxDepth
    BY <2>1 DEF LockAssumption
  <2>3. \A i \in 1..(n - 1) : name[q][i] \in Content
    BY <2>1, ElementOfSeq
  <2>4. Upto(name[q], n - 1) \in [1..(n - 1) -> Content]
    BY <2>3 DEF Upto
  <2> QED
    BY <2>2, <2>4 DEF Path
<1> QED
  BY <1>1, <1>2, <1>3, LockIsPath

(* The others when the files stay as they are ... *)
LEMMA OthersQuiet ==
  ASSUME LockAssumption, IInv, NEW p \in Process, Alone(p), files' = files,
         \A q \in Process \ {p} : fresh'[q] = fresh[q],
         NEW q \in Process \ dead, q # p
  PROVE  Good(q)'
BY DEF IInv, Alone, Good, FilesOf, Young, OwnFresh, BlankSeen, BlankNamed, BlankSeenAgain,
       Doomed, Untouched, DeadBlank, Exists, Target

(* ... when p makes a file where there is none ... *)
LEMMA OthersCreate ==
  ASSUME LockAssumption, IInv, NEW p \in Process \ dead, Alone(p),
         NEW path \in Path, Create(p, path),
         NEW q \in Process \ dead, q # p
  PROVE  Good(q)'
<1>1. /\ files[path].owner = Nobody /\ Nobody \notin Process /\ dead \subseteq Process
      /\ files'[path] = NewFile(p)
      /\ \A other \in Path : other # path => files'[other] = files[other]
      /\ fresh'[q] = IF Busy(q) THEN fresh[q] \cup {path} ELSE fresh[q]
      /\ fresh[q] \subseteq Path
  BY DEF IInv, TypeOK, Create, Exists, LockAssumption
<1>2. /\ pc'[q] = pc[q] /\ name'[q] = name[q] /\ seenOld'[q] = seenOld[q] /\ dead' = dead
      /\ Good(q)
  BY DEF IInv, Alone
<1>3. FilesOf(q)'
  BY <1>1, <1>2 DEF Good, FilesOf, NewFile
<1>4. Young(q)'
  BY <1>1, <1>2 DEF Good, Young, NewFile
<1>5. OwnFresh(q)'
  <2>1. pc[q] = "held" => path # Lock
    BY <1>1, <1>2, PathsOf DEF IInv, Shape, Good, FilesOf, Owning
  <2> QED
    BY <1>1, <1>2, <2>1, PathsOf DEF Good, OwnFresh
<1>6. pc[q] \in Recovering => path \in fresh'[q]
  BY <1>1 DEF Busy
<1>7. BlankSeen(q)'
  BY <1>1, <1>2, <1>6, PathsOf DEF Good, BlankSeen, Untouched, Exists, Recovering
<1>8. BlankNamed(q)'
  BY <1>1, <1>2, <1>6, PathsOf DEF Good, BlankNamed, Untouched, Exists, DeadBlank
<1>9. BlankSeenAgain(q)'
  BY <1>1, <1>2, PathsOf DEF Good, BlankSeenAgain, DeadBlank, Recovering, Target
<1>10. Doomed(q)'
  BY <1>1, <1>2, PathsOf DEF Good, Doomed, Recovering, Target
<1> QED
  BY <1>3, <1>4, <1>5, <1>7, <1>8, <1>9, <1>10 DEF Good

(* ... when p writes into its own file ... *)
LEMMA OthersWrite ==
  ASSUME LockAssumption, IInv, NEW p \in Process \ dead, Alone(p),
         NEW path \in Path, WriteText(p, path),
         \A q \in Process \ {p} : fresh'[q] = fresh[q],
         NEW q \in Process \ dead, q # p
  PROVE  Good(q)'
<1>1. \A other \in Path :
        files'[other] = IF other = path /\ files[path].owner = p
                          THEN [owner |-> p, stamped |-> TRUE, old |-> FALSE] ELSE files[other]
  BY DEF IInv, TypeOK, WriteText
<1>2. /\ pc'[q] = pc[q] /\ name'[q] = name[q] /\ seenOld'[q] = seenOld[q] /\ dead' = dead
      /\ fresh'[q] = fresh[q] /\ fresh[q] \subseteq Path
      /\ Good(q)
  BY DEF IInv, TypeOK, Alone
<1>3. FilesOf(q)' /\ Young(q)' /\ OwnFresh(q)'
  BY <1>1, <1>2, PathsOf DEF Good, FilesOf, Young, OwnFresh
<1>4. BlankSeen(q)'
  BY <1>1, <1>2, PathsOf DEF Good, BlankSeen, Untouched, Exists
<1>5. BlankNamed(q)'
  BY <1>1, <1>2, PathsOf DEF Good, BlankNamed, Untouched, Exists, DeadBlank
<1>6. BlankSeenAgain(q)' /\ Doomed(q)'
  BY <1>1, <1>2, PathsOf DEF Good, BlankSeenAgain, Doomed, DeadBlank, Recovering, Target
<1> QED
  BY <1>3, <1>4, <1>5, <1>6 DEF Good

(* ... and when p deletes a file: its own, or the one it was about to unlink*)
(* with the token for it.                                                   *)
LEMMA OthersDelete ==
  ASSUME LockAssumption, IInv, NEW p \in Process \ dead, Alone(p),
         NEW path \in Path, Delete(path),
         \/ name[p] = path /\ pc[p] \in Owning
         \/ pc[p] = "unlink" /\ path = Target(p),
         \A q \in Process \ {p} : fresh'[q] = fresh[q],
         NEW q \in Process \ dead, q # p
  PROVE  Good(q)'
<1>1. \A other \in Path : files'[other] = IF other = path THEN NoFile ELSE files[other]
  BY DEF IInv, TypeOK, Delete
<1>2. /\ pc'[q] = pc[q] /\ name'[q] = name[q] /\ seenOld'[q] = seenOld[q] /\ dead' = dead
      /\ fresh'[q] = fresh[q] /\ fresh[q] \subseteq Path
      /\ Nobody \notin Process
      /\ Good(q) /\ Good(p)
  BY DEF IInv, TypeOK, Alone, LockAssumption
<1>3. files[path].owner \in {p} \cup dead
  BY <1>2 DEF Good, FilesOf, Doomed
<1>4. FilesOf(q)' /\ Young(q)' /\ OwnFresh(q)'
  <2>1. files[path].owner # q
    BY <1>3
  <2>2. pc[q] = "held" => path # Lock
    BY <1>2, <2>1 DEF IInv, Shape, Good, FilesOf, Owning
  <2> QED
    BY <1>1, <1>2, <2>1, <2>2, PathsOf DEF Good, FilesOf, Young, OwnFresh, NoFile
<1>5. BlankSeen(q)'
  BY <1>1, <1>2, PathsOf DEF Good, BlankSeen, Untouched, Exists, NoFile
<1>6. BlankNamed(q)'
  BY <1>1, <1>2, PathsOf DEF Good, BlankNamed, Untouched, Exists, DeadBlank, NoFile
<1>7. ASSUME pc[q] \in {"reread", "unlink"}, Target(q) = path,
             files[path].owner \in dead, Text(files[path]) = Last(name[q])
      PROVE  FALSE
  <2>1. pc[p] = "unlink" /\ path = Target(p) /\ Text(files[path]) = Last(name[p])
    BY <1>2, <1>7 DEF Good, FilesOf, Doomed
  <2>2. name[p] # Lock /\ name[q] # Lock
    BY <1>7, <2>1 DEF IInv, Shape, Recovering
  <2>3. name[p] = name[q]
    BY <1>7, <2>1, <2>2, PathsOf, ShorterPath DEF Target
  <2>4. files[name[p]].owner = p /\ files[name[p]].owner = q
    BY <1>2, <1>7, <2>1, <2>3, PathsOf DEF Good, FilesOf, Owning
  <2> QED
    BY <2>4
<1>8. BlankSeenAgain(q)'
  <2> SUFFICES ASSUME pc[q] = "reread", seenOld[q], Last(name[q]) = Blank
               PROVE  DeadBlank(Target(q))'
    BY <1>2 DEF BlankSeenAgain, Target
  <2>1. DeadBlank(Target(q))
    BY <1>2 DEF Good, BlankSeenAgain
  <2>2. Target(q) # path
    BY <1>7, <2>1 DEF DeadBlank, Text
  <2> QED
    BY <1>1, <1>2, <2>1, <2>2, PathsOf DEF DeadBlank, Recovering, Target
<1>9. Doomed(q)'
  <2> SUFFICES ASSUME pc[q] = "unlink"
               PROVE  files'[Target(q)] = files[Target(q)]
    BY <1>2 DEF Good, Doomed, Target
  <2>1. Target(q) # path
    BY <1>2, <1>7 DEF Good, Doomed
  <2> QED
    BY <1>1, <2>1, PathsOf DEF Recovering
<1> QED
  BY <1>4, <1>5, <1>6, <1>8, <1>9 DEF Good

-----------------------------------------------------------------------------
(* The invariant holds before anyone has tried the lock.                   *)
LEMMA InitIInv == LockAssumption /\ Init => IInv
<1> SUFFICES ASSUME LockAssumption, Init PROVE IInv
  OBVIOUS
<1>1. Len(Lock) = 0 /\ Lock \in Path
  BY EmptySeq, LockIsPath DEF Lock
<1>2. TypeOK /\ Shape
  BY <1>1 DEF Init, TypeOK, Shape, NoFile, LockAssumption, Recovering
<1>3. \A p \in Process \ dead : Good(p)
  BY <1>1 DEF Init, NoFile, Owning, Recovering, LockAssumption, Good, FilesOf, Young, OwnFresh,
          BlankSeen, BlankNamed, BlankSeenAgain, Doomed
<1> QED
  BY <1>2, <1>3 DEF IInv

(* What a step of p must show, given that the others are well. *)
LEMMA OfOneProcess ==
  ASSUME IInv, NEW p \in Process, Alone(p), TypeOK', 
         /\ pc'[p] \in {"idle", "stamp", "held"} => name'[p] = Lock
         /\ pc'[p] \in {"stat", "read"} => Len(name'[p]) < MaxDepth
         /\ pc'[p] \in Recovering \ {"stat", "read"} => name'[p] # Lock,
         Good(p)', \A q \in Process \ dead : q # p => Good(q)'
  PROVE  IInv'
BY DEF IInv, Alone, Shape

(* Opening the lock file exclusively: it is there already, or it is made.  *)
LEMMA TryStep ==
  ASSUME LockAssumption, IInv, NEW p \in Process, Try(p) PROVE IInv'
<1>1. /\ p \in Process \ dead /\ pc[p] = "idle" /\ name[p] = Lock /\ Good(p)
      /\ Lock \in Path /\ Len(Lock) = 0 /\ MaxDepth > 0
      /\ Alone(p) /\ dead' = dead /\ name' = name
  BY LockIsPath, EmptySeq DEF IInv, TypeOK, Shape, Try, At, Goto, Alone, Lock, LockAssumption
<1>2. CASE Create(p, Lock) /\ pc' = [pc EXCEPT ![p] = "stamp"]
  <2>1. /\ pc'[p] = "stamp" /\ Lock \in fresh'[p]
        /\ files' = [files EXCEPT ![Lock] = NewFile(p)]
        /\ fresh'[p] = fresh[p] \cup {Lock}
    BY <1>1, <1>2 DEF IInv, TypeOK, Create
  <2>2. TypeOK'
    BY <1>1, <1>2 DEF IInv, TypeOK, Try, Create, NewFile
  <2>3. Good(p)'
    BY <1>1, <2>1 DEF IInv, TypeOK, Good, FilesOf, Young, OwnFresh, BlankSeen, BlankNamed,
          BlankSeenAgain, Doomed, NewFile, Owning, Recovering
  <2> QED
    BY <1>1, <1>2, <2>1, <2>2, <2>3, OthersCreate, OfOneProcess DEF Recovering
<1>3. CASE pc' = [pc EXCEPT ![p] = "stat"] /\ UNCHANGED <<files, fresh>>
  <2>1. pc'[p] = "stat"
    BY <1>3 DEF IInv, TypeOK
  <2>2. TypeOK'
    BY <1>1, <1>3 DEF IInv, TypeOK, Try, Recovering
  <2>3. Good(p)'
    BY <1>1, <1>3, <2>1 DEF Good, FilesOf, Young, OwnFresh, BlankSeen, BlankNamed,
          BlankSeenAgain, Doomed, Owning
  <2> QED
    BY <1>1, <1>3, <2>1, <2>2, <2>3, OthersQuiet, OfOneProcess DEF Recovering
<1> QED
  BY <1>2, <1>3 DEF Try, Goto

(* The owner writes itself into the file that it made.                     *)
LEMMA StampStep ==
  ASSUME LockAssumption, IInv, NEW p \in Process, Stamp(p) PROVE IInv'
<1>1. /\ p \in Process \ dead /\ pc[p] = "stamp" /\ name[p] = Lock /\ Good(p)
      /\ Lock \in Path /\ WriteText(p, Lock)
      /\ Alone(p) /\ dead' = dead /\ name' = name
      /\ pc'[p] = "held" /\ fresh'[p] = {}
      /\ \A q \in Process \ {p} : fresh'[q] = fresh[q]
  BY LockIsPath DEF IInv, TypeOK, Shape, Stamp, At, Goto, Alone
<1>2. files[Lock].owner = p
  BY <1>1 DEF Good, FilesOf, Owning
<1>3. files' = [files EXCEPT ![Lock] = [owner |-> p, stamped |-> TRUE, old |-> FALSE]]
  BY <1>1, <1>2 DEF WriteText
<1>4. TypeOK'
  BY <1>3 DEF IInv, TypeOK, Stamp, Goto
<1>5. Good(p)'
  BY <1>1, <1>3 DEF IInv, TypeOK, Good, FilesOf, Young, OwnFresh, BlankSeen, BlankNamed,
        BlankSeenAgain, Doomed, Owning, Recovering
<1> QED
  BY <1>1, <1>4, <1>5, OthersWrite, OfOneProcess DEF Recovering

(* The owner removes the lock file.                                        *)
LEMMA ReleaseStep ==
  ASSUME LockAssumption, IInv, NEW p \in Process, Release(p)
  PROVE  IInv' /\ files[Lock].owner = p
<1>1. /\ p \in Process \ dead /\ pc[p] = "held" /\ name[p] = Lock /\ Good(p)
      /\ Lock \in Path /\ Delete(Lock)
      /\ Alone(p) /\ dead' = dead /\ name' = name /\ fresh' = fresh
      /\ pc'[p] = "idle"
  BY LockIsPath DEF IInv, TypeOK, Shape, Release, At, Goto, Alone
<1>2. files[Lock].owner = p
  BY <1>1 DEF Good, FilesOf, Owning
<1>3. files' = [files EXCEPT ![Lock] = NoFile]
  BY <1>1 DEF Delete
<1>4. TypeOK'
  BY <1>3 DEF IInv, TypeOK, Release, Goto, NoFile
<1>5. Good(p)'
  BY <1>1, <1>3 DEF IInv, TypeOK, Good, FilesOf, Young, OwnFresh, BlankSeen, BlankNamed,
        BlankSeenAgain, Doomed, Owning, Recovering, NoFile, LockAssumption
<1> QED
  BY <1>1, <1>2, <1>4, <1>5, OthersDelete, OfOneProcess DEF Recovering, Owning

-----------------------------------------------------------------------------
(* When p leaves the recovery without a file, there is nothing to show. *)
LEMMA LeaveGood ==
  ASSUME LockAssumption, IInv, NEW p \in Process, Leave(p),
         \A path \in Path : files'[path].owner # p
  PROVE  /\ pc'[p] = "idle" /\ name'[p] = Lock /\ Good(p)'
         /\ \A q \in Process \ {p} : /\ pc'[q] = pc[q] /\ name'[q] = name[q]
                                     /\ seenOld'[q] = seenOld[q] /\ fresh'[q] = fresh[q]
         /\ pc' \in [Process -> {"idle", "stamp", "held"} \cup Recovering]
         /\ name' \in [Process -> Path]
         /\ seenOld' \in [Process -> BOOLEAN]
         /\ fresh' \in [Process -> SUBSET Path]
<1>1. /\ pc'[p] = "idle" /\ name'[p] = Lock /\ fresh'[p] = {}
      /\ \A q \in Process \ {p} : /\ pc'[q] = pc[q] /\ name'[q] = name[q]
                                  /\ seenOld'[q] = seenOld[q] /\ fresh'[q] = fresh[q]
  BY DEF IInv, TypeOK, Leave, Goto
<1>2. Good(p)'
  BY <1>1 DEF Good, FilesOf, Young, OwnFresh, BlankSeen, BlankNamed, BlankSeenAgain, Doomed,
        Owning, Recovering
<1> QED
  BY <1>1, <1>2, LockIsPath DEF IInv, TypeOK, Leave, Goto

(* A contender sees how old the file is.                                   *)
LEMMA StatStep ==
  ASSUME LockAssumption, IInv, NEW p \in Process, Stat(p) PROVE IInv'
<1>1. /\ p \in Process \ dead /\ pc[p] = "stat" /\ Good(p)
      /\ Len(name[p]) < MaxDepth /\ name[p] \in Path
      /\ dead' = dead /\ files' = files
      /\ \A path \in Path : files[path].owner # p
  BY DEF IInv, TypeOK, Shape, Stat, At, Good, FilesOf, Owning
<1>2. CASE /\ Exists(name[p])
           /\ seenOld' = [seenOld EXCEPT ![p] = files[name[p]].old]
           /\ Goto(p, "read")
           /\ UNCHANGED <<name, fresh>>
  <2>1. Alone(p) /\ pc'[p] = "read" /\ seenOld'[p] = files[name[p]].old
    BY <1>1, <1>2 DEF IInv, TypeOK, Goto, Alone
  <2>2. TypeOK'
    BY <1>1, <1>2 DEF IInv, TypeOK, Stat, Goto, Recovering
  <2>3. BlankSeen(p)'
    BY <1>1, <1>2, <2>1, OldIsHeld DEF IInv, TypeOK, BlankSeen, Untouched, Exists
  <2>4. Good(p)'
    BY <1>1, <1>2, <2>1, <2>3 DEF Good, FilesOf, Young, OwnFresh, BlankNamed, BlankSeenAgain,
          Doomed, Owning, Recovering, Untouched, DeadBlank, Exists
  <2> QED
    BY <1>1, <1>2, <2>1, <2>2, <2>4, OthersQuiet, OfOneProcess DEF Recovering
<1>3. CASE Leave(p)
  <2>1. Alone(p) /\ TypeOK'
    BY <1>1, <1>3, LeaveGood DEF IInv, TypeOK, Stat, Alone
  <2> QED
    BY <1>1, <1>3, <2>1, LeaveGood, OthersQuiet, OfOneProcess DEF Recovering
<1> QED
  BY <1>2, <1>3 DEF Stat

(* The names of the deeper paths begin like those above them. *)
LEMMA UptoAppend ==
  ASSUME NEW s \in Seq(Content), NEW c \in Content, NEW n \in 1..Len(Append(s, c))
  PROVE  /\ n \in 1..Len(s) => Append(s, c)[n] = s[n]
         /\ n \notin 1..Len(s) => Append(s, c)[n] = c /\ Upto(Append(s, c), n - 1) = s
         /\ n \in 1..Len(s) => Upto(Append(s, c), n - 1) = Upto(s, n - 1)
<1>1. /\ Len(Append(s, c)) = Len(s) + 1 /\ Len(s) \in Nat
      /\ \A i \in 1..Len(s) : Append(s, c)[i] = s[i]
      /\ Append(s, c)[Len(s) + 1] = c
      /\ s \in [1..Len(s) -> Content]
  BY AppendProperties, LenProperties
<1>2. n \in 1..Len(s) => Upto(Append(s, c), n - 1) = Upto(s, n - 1)
  BY <1>1 DEF Upto
<1>3. n \notin 1..Len(s) => n = Len(s) + 1
  BY <1>1
<1>4. Upto(Append(s, c), Len(s)) = s
  BY <1>1 DEF Upto
<1> QED
  BY <1>1, <1>2, <1>3, <1>4

(* A contender reads who owns the file, and decides whether it is stale.   *)
LEMMA ReadStep ==
  ASSUME LockAssumption, IInv, NEW p \in Process, Read(p) PROVE IInv'
<1>1. /\ p \in Process \ dead /\ pc[p] = "read" /\ Good(p)
      /\ Len(name[p]) < MaxDepth /\ name[p] \in Path
      /\ dead' = dead /\ files' = files
      /\ \A path \in Path : files[path].owner # p
  BY DEF IInv, TypeOK, Shape, Read, At, Good, FilesOf, Owning
<1> DEFINE f == files[name[p]]
<1>2. CASE /\ Exists(name[p]) /\ Stale(p, name[p], f)
           /\ name' = [name EXCEPT ![p] = Append(@, Text(f))]
           /\ Goto(p, "token")
           /\ UNCHANGED <<seenOld, fresh>>
  <2>1. Text(f) \in Content /\ f.owner \in Process
    BY <1>1, <1>2 DEF IInv, TypeOK, Text, Content, Exists
  <2>2. /\ Alone(p) /\ pc'[p] = "token" /\ name'[p] = Append(name[p], Text(f))
        /\ name'[p] \in Path /\ name'[p] # Lock
    BY <1>1, <1>2, <2>1, LongerPath DEF IInv, TypeOK, Goto, Alone
  <2>3. TypeOK'
    BY <1>1, <1>2, <2>2 DEF IInv, TypeOK, Read, Goto, Recovering
  <2>4. Text(f) = Blank /\ Untouched(p, name[p]) => DeadBlank(name[p])
    <3> SUFFICES ASSUME Text(f) = Blank, Untouched(p, name[p]) PROVE DeadBlank(name[p])
      OBVIOUS
    <3>1. ~f.stamped
      BY <2>1 DEF Text, LockAssumption
    <3>2. seenOld[p]
      BY <1>2, <3>1 DEF Stale
    <3> QED
      BY <1>1, <3>1, <3>2 DEF Good, BlankSeen, DeadBlank
  <2>5. BlankNamed(p)'
    <3> SUFFICES ASSUME NEW n \in 1..Len(name'[p]), name'[p][n] = Blank,
                        Untouched(p, Upto(name'[p], n - 1))
                 PROVE  DeadBlank(Upto(name'[p], n - 1))
      BY <1>1, <1>2 DEF BlankNamed, Untouched, Exists, DeadBlank
    <3>1. name[p] \in Seq(Content)
      BY <1>1, PathFacts
    <3>2. CASE n \in 1..Len(name[p])
      BY <1>1, <2>1, <2>2, <3>1, <3>2, UptoAppend DEF Good, BlankNamed, Recovering
    <3>3. CASE n \notin 1..Len(name[p])
      BY <2>1, <2>2, <2>4, <3>1, <3>3, UptoAppend
    <3> QED
      BY <3>2, <3>3
  <2>6. Good(p)'
    BY <1>1, <1>2, <2>2, <2>5 DEF Good, FilesOf, Young, OwnFresh, BlankSeen, BlankSeenAgain,
          Doomed, Owning
  <2> QED
    BY <1>1, <1>2, <2>2, <2>3, <2>6, OthersQuiet, OfOneProcess DEF Recovering
<1>3. CASE Leave(p)
  <2>1. Alone(p) /\ TypeOK'
    BY <1>1, <1>3, LeaveGood DEF IInv, TypeOK, Read, Alone
  <2> QED
    BY <1>1, <1>3, <2>1, LeaveGood, OthersQuiet, OfOneProcess DEF Recovering
<1> QED
  BY <1>2, <1>3 DEF Read

-----------------------------------------------------------------------------
(* A token is taken where there is none. *)
LEMMA TokenTaken ==
  ASSUME LockAssumption, IInv, NEW p \in Process \ dead, pc[p] \in {"token", "token2"},
         Create(p, name[p]), Goto(p, "stampToken"), UNCHANGED <<name, seenOld, freed, dead>>
  PROVE  IInv'
<1>1. /\ name[p] \in Path /\ name[p] # Lock /\ Good(p) /\ ~Exists(name[p])
      /\ Alone(p) /\ pc'[p] = "stampToken" /\ name' = name
  BY DEF IInv, TypeOK, Shape, Recovering, Create, Goto, Alone
<1>2. /\ files' = [files EXCEPT ![name[p]] = NewFile(p)]
      /\ fresh'[p] = fresh[p] \cup {name[p]}
      /\ fresh[p] \subseteq Path
  BY DEF IInv, TypeOK, Create
<1>3. TypeOK'
  BY <1>1 DEF IInv, TypeOK, Create, Goto, NewFile, Recovering
<1>4. BlankNamed(p)'
  <2> SUFFICES ASSUME NEW n \in 1..Len(name[p]), name[p][n] = Blank,
                      Untouched(p, Upto(name[p], n - 1))'
               PROVE  DeadBlank(Upto(name[p], n - 1))'
    BY <1>1 DEF BlankNamed, Untouched, DeadBlank, Exists
  <2>1. Upto(name[p], n - 1) \in Path \ {name[p]}
    BY <1>2, PathsOf DEF Untouched
  <2>2. Untouched(p, Upto(name[p], n - 1))
    BY <1>2, <2>1 DEF IInv, TypeOK, Untouched, Exists
  <2>3. DeadBlank(Upto(name[p], n - 1))
    BY <1>1, <2>2 DEF Good, BlankNamed, Recovering
  <2> QED
    BY <1>1, <1>2, <2>1, <2>3 DEF IInv, TypeOK, DeadBlank
<1>5. Good(p)'
  BY <1>1, <1>2, <1>4 DEF IInv, TypeOK, Good, FilesOf, Young, OwnFresh, BlankSeen,
        BlankSeenAgain, Doomed, NewFile, Owning
<1> QED
  BY <1>1, <1>3, <1>5, OthersCreate, OfOneProcess DEF Recovering

(* A contender makes the recovery token of a stale file.                   *)
LEMMA TakeTokenStep ==
  ASSUME LockAssumption, IInv, NEW p \in Process, TakeToken(p) PROVE IInv'
<1>1. /\ p \in Process \ dead /\ pc[p] = "token" /\ Good(p)
      /\ name[p] # Lock /\ name[p] \in Path /\ Len(name[p]) \in Nat
      /\ dead' = dead /\ freed' = freed
  BY PathFacts DEF IInv, TypeOK, Shape, TakeToken, At, Recovering
<1>2. CASE Create(p, name[p]) /\ Goto(p, "stampToken") /\ UNCHANGED <<name, seenOld>>
  BY <1>1, <1>2, TokenTaken
<1>3. CASE /\ Len(name[p]) < MaxDepth
           /\ Goto(p, "stat")
           /\ UNCHANGED <<files, name, seenOld, fresh>>
  <2>1. Alone(p) /\ pc'[p] = "stat"
    BY <1>1, <1>3 DEF IInv, TypeOK, Goto, Alone
  <2>2. TypeOK'
    BY <1>1, <1>3 DEF IInv, TypeOK, Goto, Recovering
  <2>3. Good(p)'
    BY <1>1, <1>3, <2>1 DEF Good, FilesOf, Young, OwnFresh, BlankSeen, BlankNamed,
          BlankSeenAgain, Doomed, Owning, Recovering, Untouched, DeadBlank, Exists
  <2> QED
    BY <1>1, <1>3, <2>1, <2>2, <2>3, OthersQuiet, OfOneProcess DEF Recovering
<1>4. CASE Leave(p) /\ UNCHANGED files
  <2>1. \A path \in Path : files'[path].owner # p
    BY <1>1, <1>4 DEF Good, FilesOf, Owning
  <2>2. Alone(p) /\ TypeOK'
    BY <1>1, <1>4, <2>1, LeaveGood DEF IInv, TypeOK, Alone
  <2> QED
    BY <1>1, <1>4, <2>1, <2>2, LeaveGood, OthersQuiet, OfOneProcess DEF Recovering
<1> QED
  BY <1>2, <1>3, <1>4 DEF TakeToken

(* A contender finds the token taken, and looks at the token in turn.      *)
LEMMA RetakeTokenStep ==
  ASSUME LockAssumption, IInv, NEW p \in Process, RetakeToken(p) PROVE IInv'
<1>1. p \in Process \ dead /\ pc[p] = "token2" /\ Good(p) /\ dead' = dead /\ freed' = freed
  BY DEF IInv, RetakeToken, At
<1>2. CASE Create(p, name[p]) /\ Goto(p, "stampToken") /\ UNCHANGED <<name, seenOld>>
  BY <1>1, <1>2, TokenTaken
<1>3. CASE Leave(p) /\ UNCHANGED files
  <2>1. \A path \in Path : files'[path].owner # p
    BY <1>1, <1>3 DEF Good, FilesOf, Owning
  <2>2. Alone(p) /\ TypeOK'
    BY <1>1, <1>3, <2>1, LeaveGood DEF IInv, TypeOK, Alone
  <2> QED
    BY <1>1, <1>3, <2>1, <2>2, LeaveGood, OthersQuiet, OfOneProcess DEF Recovering
<1> QED
  BY <1>2, <1>3 DEF RetakeToken

(* The holder of a token writes itself into it.                            *)
LEMMA StampTokenStep ==
  ASSUME LockAssumption, IInv, NEW p \in Process, StampToken(p) PROVE IInv'
<1>1. /\ p \in Process \ dead /\ pc[p] = "stampToken" /\ Good(p)
      /\ name[p] # Lock /\ name[p] \in Path /\ WriteText(p, name[p])
      /\ Alone(p) /\ dead' = dead /\ name' = name /\ fresh' = fresh
      /\ pc'[p] = "restat"
  BY DEF IInv, TypeOK, Shape, StampToken, At, Goto, Alone, Recovering
<1>2. files[name[p]].owner = p
  BY <1>1 DEF Good, FilesOf, Owning
<1>3. files' = [files EXCEPT ![name[p]] = [owner |-> p, stamped |-> TRUE, old |-> FALSE]]
  BY <1>1, <1>2 DEF WriteText
<1>4. TypeOK'
  BY <1>3 DEF IInv, TypeOK, StampToken, Goto, Recovering
<1>5. BlankNamed(p)'
  <2> SUFFICES ASSUME NEW n \in 1..Len(name[p]), name[p][n] = Blank,
                      Untouched(p, Upto(name[p], n - 1))'
               PROVE  DeadBlank(Upto(name[p], n - 1))'
    BY <1>1 DEF BlankNamed, Untouched, DeadBlank, Exists
  <2>1. name[p] \in fresh[p] /\ Upto(name[p], n - 1) \in Path
    BY <1>1, PathsOf DEF Good, OwnFresh, Owning
  <2>2. Upto(name[p], n - 1) # name[p]
    BY <1>1, <2>1 DEF Untouched
  <2> QED
    BY <1>1, <1>3, <2>1, <2>2 DEF IInv, TypeOK, Good, BlankNamed, Untouched, Exists, DeadBlank,
          Recovering
<1>6. Good(p)'
  BY <1>1, <1>2, <1>3, <1>5 DEF IInv, TypeOK, Good, FilesOf, Young, OwnFresh, BlankSeen,
        BlankSeenAgain, Doomed, Owning
<1> QED
  BY <1>1, <1>4, <1>6, OthersWrite, OfOneProcess DEF Recovering

-----------------------------------------------------------------------------
(* The holder of a token looks at the file again.                          *)
LEMMA RestatStep ==
  ASSUME LockAssumption, IInv, NEW p \in Process, Restat(p) PROVE IInv'
<1>1. /\ p \in Process \ dead /\ pc[p] = "restat" /\ Good(p)
      /\ name[p] # Lock /\ name[p] \in Path /\ Target(p) \in Path
      /\ Alone(p) /\ dead' = dead /\ name' = name /\ files' = files /\ fresh' = fresh
      /\ pc'[p] \in {"reread", "untoken"}
      /\ pc'[p] = "reread" => Exists(Target(p)) /\ seenOld'[p] = files[Target(p)].old
  BY PathsOf DEF IInv, TypeOK, Shape, Restat, At, Goto, Alone, Recovering
<1>2. TypeOK'
  <2>1. seenOld' \in [Process -> BOOLEAN] /\ freed' \in [Process -> BOOLEAN]
    <3>1. files[Target(p)].old \in BOOLEAN
      BY <1>1 DEF IInv, TypeOK
    <3> QED
      BY <3>1 DEF IInv, TypeOK, Restat
  <2>2. pc' \in [Process -> {"idle", "stamp", "held"} \cup Recovering]
    BY DEF IInv, TypeOK, Restat, Goto, Recovering
  <2> QED
    BY <1>1, <2>1, <2>2 DEF IInv, TypeOK
<1>3. BlankSeenAgain(p)'
  <2> SUFFICES ASSUME Exists(Target(p)), files[Target(p)].old, Last(name[p]) = Blank
               PROVE  DeadBlank(Target(p))
    BY <1>1 DEF BlankSeenAgain, DeadBlank, Target
  <2>1. Untouched(p, Target(p))
    BY <1>1 DEF Good, Young, Untouched
  <2>2. /\ Len(name[p]) \in 1..Len(name[p])
        /\ name[p][Len(name[p])] = Blank
        /\ Upto(name[p], Len(name[p]) - 1) = Target(p)
    <3>1. /\ name[p] = Append(Target(p), Blank) /\ Target(p) \in Seq(Content)
          /\ Len(name[p]) = Len(Target(p)) + 1 /\ Len(Target(p)) \in Nat
      BY <1>1, ShorterPath, PathFacts, LenProperties DEF Target
    <3> QED
      BY <3>1, UptoAppend DEF Content
  <2> QED
    BY <1>1, <2>1, <2>2 DEF Good, BlankNamed, Recovering
<1>4. Good(p)'
  BY <1>1, <1>3 DEF Good, FilesOf, Young, OwnFresh, BlankSeen, BlankNamed, Doomed, Owning,
        Recovering, Untouched, DeadBlank, Exists
<1> QED
  BY <1>1, <1>2, <1>4, OthersQuiet, OfOneProcess DEF Recovering

(* Where the recovery is decided: the file is a dead process's. *)
LEMMA RereadStep ==
  ASSUME LockAssumption, IInv, NEW p \in Process, Reread(p) PROVE IInv'
<1>1. /\ p \in Process \ dead /\ pc[p] = "reread" /\ Good(p)
      /\ name[p] # Lock /\ Target(p) \in Path
      /\ Alone(p) /\ dead' = dead /\ name' = name /\ files' = files /\ fresh' = fresh
      /\ pc'[p] = IF Unmoved(p) THEN "unlink" ELSE "untoken"
  BY PathsOf DEF IInv, TypeOK, Shape, Reread, At, Goto, Alone, Recovering
<1>2. TypeOK'
  BY <1>1 DEF IInv, TypeOK, Reread, Goto, Recovering
<1> DEFINE f == files[Target(p)]
<1>3. ASSUME Unmoved(p) PROVE f.owner \in dead /\ Text(f) = Last(name[p])
  <2>1. f.owner \in Process /\ Text(f) = Last(name[p]) /\ Stale(p, Target(p), f)
    BY <1>1, <1>3 DEF IInv, TypeOK, Unmoved, Exists
  <2>2. CASE ~f.stamped
    BY <1>1, <2>1, <2>2 DEF Good, BlankSeenAgain, DeadBlank, Stale, Text
  <2>3. CASE f.stamped
    <3>1. f.old /\ (f.owner \in dead \/ Target(p) # Lock)
      BY <2>1, <2>3 DEF Stale
    <3> QED
      BY <1>1, <2>1, <3>1, OldIsHeld
  <2> QED
    BY <2>1, <2>2, <2>3
<1>4. Good(p)'
  BY <1>1, <1>3 DEF Good, FilesOf, Young, OwnFresh, BlankSeen, BlankNamed, BlankSeenAgain, Doomed,
        Owning, Recovering, Untouched, DeadBlank, Exists, Target
<1> QED
  BY <1>1, <1>2, <1>4, OthersQuiet, OfOneProcess DEF Recovering

(* The holder of a token removes the file that is still the stale one.     *)
LEMMA UnlinkStep ==
  ASSUME LockAssumption, IInv, NEW p \in Process, Unlink(p)
  PROVE  IInv' /\ files[Target(p)].owner \in dead
<1>1. /\ p \in Process \ dead /\ pc[p] = "unlink" /\ Good(p)
      /\ name[p] # Lock /\ name[p] \in Path /\ Target(p) \in Path
      /\ Alone(p) /\ dead' = dead /\ name' = name /\ fresh' = fresh
      /\ pc'[p] = "untoken"
      /\ Delete(Target(p))
  BY PathsOf DEF IInv, TypeOK, Shape, Unlink, At, Goto, Alone, Recovering
<1>2. files[Target(p)].owner \in dead /\ p \notin dead /\ Nobody # p
  BY <1>1 DEF Good, Doomed, LockAssumption
<1>3. \A other \in Path : files'[other] = IF other = Target(p) THEN NoFile ELSE files[other]
  BY <1>1 DEF IInv, TypeOK, Delete
<1>4. TypeOK'
  <2>1. Exists(Target(p)) \in BOOLEAN
    BY DEF Exists
  <2> QED
    BY <1>1, <2>1 DEF IInv, TypeOK, Unlink, Delete, Goto, NoFile, Recovering
<1>5. BlankNamed(p)'
  <2> SUFFICES ASSUME NEW n \in 1..Len(name[p]), name[p][n] = Blank,
                      Untouched(p, Upto(name[p], n - 1))'
               PROVE  DeadBlank(Upto(name[p], n - 1))'
    BY <1>1 DEF BlankNamed, Untouched, DeadBlank, Exists
  <2>1. Upto(name[p], n - 1) \in Path
    BY PathsOf
  <2> QED
    BY <1>1, <1>3, <2>1 DEF Good, BlankNamed, Untouched, Exists, DeadBlank, NoFile, Recovering
<1>6. Good(p)'
  <2>1. FilesOf(p) /\ Young(p) /\ OwnFresh(p)
    BY <1>1 DEF Good
  <2>2. FilesOf(p)'
    BY <1>1, <1>2, <1>3, <2>1 DEF FilesOf, Owning, NoFile
  <2>3. Young(p)'
    <3>1. fresh[p] \subseteq Path
      BY DEF IInv, TypeOK
    <3> QED
      BY <1>1, <1>3, <2>1, <3>1 DEF Young, NoFile
  <2>4. OwnFresh(p)'
    BY <1>1, <2>1 DEF OwnFresh, Owning
  <2>5. BlankSeen(p)' /\ BlankSeenAgain(p)' /\ Doomed(p)'
    BY <1>1 DEF BlankSeen, BlankSeenAgain, Doomed
  <2> QED
    BY <1>5, <2>2, <2>3, <2>4, <2>5 DEF Good
<1> QED
  BY <1>1, <1>2, <1>4, <1>6, OthersDelete, OfOneProcess DEF Recovering

(* The holder of a token removes the token.                                *)
LEMMA DropTokenStep ==
  ASSUME LockAssumption, IInv, NEW p \in Process, DropToken(p)
  PROVE  IInv' /\ name[p] \in Path \ {Lock}
<1>1. /\ p \in Process \ dead /\ pc[p] = "untoken" /\ Good(p)
      /\ name[p] # Lock /\ name[p] \in Path /\ Target(p) \in Path
      /\ dead' = dead /\ freed' = freed /\ Delete(name[p])
  BY PathsOf DEF IInv, TypeOK, Shape, DropToken, At, Recovering
<1>2. \A other \in Path : files'[other] = IF other = name[p] THEN NoFile ELSE files[other]
  BY <1>1 DEF IInv, TypeOK, Delete
<1>3. files' \in [Path -> [owner : Process \cup {Nobody}, stamped : BOOLEAN, old : BOOLEAN]]
  BY <1>1 DEF IInv, TypeOK, Delete, NoFile
<1>4. \A path \in Path : files'[path].owner # p
  BY <1>1, <1>2 DEF Good, FilesOf, NoFile, LockAssumption
<1>5. CASE /\ Target(p) # Lock
           /\ name' = [name EXCEPT ![p] = Front(@)]
           /\ Goto(p, "token2")
           /\ UNCHANGED <<seenOld, fresh>>
  <2>1. Alone(p) /\ pc'[p] = "token2" /\ name'[p] = Target(p)
    BY <1>1, <1>5 DEF IInv, TypeOK, Goto, Alone, Target
  <2>2. TypeOK'
    BY <1>1, <1>3, <1>5 DEF IInv, TypeOK, Goto, Recovering, Target
  <2>3. BlankNamed(p)'
    <3>1. PICK s \in Path, c \in Content : /\ s = Target(p) /\ name[p] = Append(s, c)
                                          /\ s \in Seq(Content) /\ Len(s) \in Nat
                                          /\ Len(name[p]) = Len(s) + 1
      BY <1>1, ShorterPath, PathFacts, LenProperties DEF Target
    <3> SUFFICES ASSUME NEW n \in 1..Len(s), s[n] = Blank, Untouched(p, Upto(s, n - 1))'
                 PROVE  DeadBlank(Upto(s, n - 1))'
      BY <2>1, <3>1 DEF BlankNamed, Untouched, DeadBlank, Exists
    <3>2. n \in 1..Len(name[p])
      BY <3>1
    <3>3. name[p][n] = Blank /\ Upto(name[p], n - 1) = Upto(s, n - 1)
      BY <3>1, <3>2, UptoAppend
    <3>4. Upto(s, n - 1) \in Path
      BY <3>2, <3>3, PathsOf
    <3>5. Untouched(p, Upto(s, n - 1)) /\ Upto(s, n - 1) # name[p]
      BY <1>2, <1>5, <3>4 DEF Untouched, Exists, NoFile
    <3>6. DeadBlank(Upto(s, n - 1))
      BY <1>1, <3>2, <3>3, <3>5 DEF Good, BlankNamed, Recovering
    <3> QED
      BY <1>1, <1>2, <3>4, <3>5, <3>6 DEF DeadBlank
  <2>4. Good(p)'
    BY <1>1, <1>2, <1>4, <1>5, <2>1, <2>3 DEF IInv, TypeOK, Good, FilesOf, Young, OwnFresh, BlankSeen,
          BlankSeenAgain, Doomed, Owning, NoFile
  <2> QED
    BY <1>1, <1>5, <2>1, <2>2, <2>4, OthersDelete, OfOneProcess DEF Recovering, Owning
<1>6. CASE Leave(p)
  <2>1. Alone(p) /\ TypeOK'
    BY <1>1, <1>3, <1>4, <1>6, LeaveGood DEF IInv, TypeOK, Alone
  <2> QED
    BY <1>1, <1>4, <1>6, <2>1, LeaveGood, OthersDelete, OfOneProcess DEF Recovering, Owning
<1> QED
  BY <1>1, <1>5, <1>6 DEF DropToken

-----------------------------------------------------------------------------
(* A process is killed wherever it is.                                     *)
LEMMA DieStep ==
  ASSUME LockAssumption, IInv, NEW p \in Process, Die(p) PROVE IInv'
<1>1. /\ dead' = dead \cup {p}
      /\ UNCHANGED <<files, pc, name, seenOld, freed, fresh>>
  BY DEF Die
<1>2. TypeOK' /\ Shape'
  BY <1>1 DEF IInv, TypeOK, Shape
<1>3. \A q \in Process \ dead' : Good(q)'
  BY <1>1 DEF IInv, Good, FilesOf, Young, OwnFresh, BlankSeen, BlankNamed, BlankSeenAgain, Doomed,
        Untouched, DeadBlank, Exists, Target
<1> QED
  BY <1>2, <1>3 DEF IInv

(* A file grows old: while passes are prompt, none that was made in one. *)
LEMMA AgeStep ==
  ASSUME LockAssumption, Prompt, IInv, NEW path \in Path, Age(path) PROVE IInv'
<1>1. /\ \A other \in Path :
           /\ files'[other].owner = files[other].owner
           /\ files'[other].stamped = files[other].stamped
           /\ other # path => files'[other] = files[other]
      /\ \A q \in Process \ dead : path \notin fresh[q]
      /\ UNCHANGED <<pc, name, seenOld, freed, fresh, dead>>
  BY DEF IInv, TypeOK, Age
<1>2. TypeOK' /\ Shape'
  <2>1. files' \in [Path -> [owner : Process \cup {Nobody}, stamped : BOOLEAN, old : BOOLEAN]]
    <3>1. files' = [files EXCEPT ![path].old = TRUE]
      BY DEF Age
    <3>2. files \in [Path -> [owner : Process \cup {Nobody}, stamped : BOOLEAN, old : BOOLEAN]]
      BY DEF IInv, TypeOK
    <3> QED
      BY <3>1, <3>2
  <2>2. TypeOK'
    BY <1>1, <2>1 DEF IInv, TypeOK
  <2>3. Shape'
    BY <1>1 DEF IInv, Shape
  <2> QED
    BY <2>2, <2>3
<1>3. ASSUME NEW q \in Process \ dead PROVE Good(q)'
  <2>1. Good(q) /\ fresh[q] \subseteq Path
    BY DEF IInv, TypeOK
  <2>2. FilesOf(q)' /\ Young(q)' /\ OwnFresh(q)'
    BY <1>1, <2>1, LockIsPath DEF Good, FilesOf, Young, OwnFresh
  <2>3. BlankSeen(q)' /\ BlankNamed(q)'
    BY <1>1, <2>1, PathsOf DEF Good, BlankSeen, BlankNamed, Untouched, Exists, DeadBlank
  <2>4. BlankSeenAgain(q)' /\ Doomed(q)'
    BY <1>1, <2>1, PathsOf DEF Good, BlankSeenAgain, Doomed, DeadBlank, Text, Recovering, Target
  <2> QED
    BY <2>2, <2>3, <2>4 DEF Good
<1> QED
  BY <1>1, <1>2, <1>3 DEF IInv

(* Every step keeps the invariant.                                         *)
LEMMA NextStep == LockAssumption /\ Prompt /\ IInv /\ [Next]_vars => IInv'
<1> SUFFICES ASSUME LockAssumption, Prompt, IInv, [Next]_vars PROVE IInv'
  OBVIOUS
<1>1. CASE UNCHANGED vars
  BY <1>1 DEF vars, IInv, TypeOK, Shape, Good, FilesOf, Young, OwnFresh, BlankSeen, BlankNamed,
        BlankSeenAgain, Doomed, Untouched, DeadBlank, Exists, Target
<1>2. ASSUME NEW p \in Process, Step(p) PROVE IInv'
  BY <1>2, TryStep, StampStep, ReleaseStep, StatStep, ReadStep, TakeTokenStep, RetakeTokenStep,
     StampTokenStep, RestatStep, RereadStep, UnlinkStep, DropTokenStep DEF Step
<1> QED
  BY <1>1, <1>2, DieStep, AgeStep DEF Next

(* As long as no live process is held up for the stale age within a pass,   *)
(* the lock's invariant holds, whoever is killed and wherever.              *)
THEOREM Inductive == Prompt => (Spec => []IInv)
<1> SUFFICES ASSUME Prompt PROVE Spec => []IInv
  OBVIOUS
<1>1. Init => IInv
  BY LockAssumption, InitIInv
<1>2. IInv /\ [Next]_vars => IInv'
  BY LockAssumption, NextStep
<1> QED
  BY <1>1, <1>2, PTL DEF Spec

-----------------------------------------------------------------------------
(* At most one live process holds the lock. *)
THEOREM OneHolderAtMost == Prompt => (Spec => []OneHolder)
<1> SUFFICES ASSUME Prompt PROVE Spec => []OneHolder
  OBVIOUS
<1>1. IInv => OneHolder
  BY LockAssumption, LockIsPath DEF IInv, Shape, Good, FilesOf, OneHolder, At, Owning
<1> QED
  BY <1>1, Inductive, PTL

(* What a step does to the owner of the lock file. *)
LEMMA OwnerStep ==
  ASSUME LockAssumption, Prompt, IInv, [Next]_vars
  PROVE  /\ dead \subseteq dead'
         /\ \/ files'[Lock].owner = files[Lock].owner /\ dead' = dead
            \/ files'[Lock].owner = files[Lock].owner
               /\ \E p \in Process \ dead : dead' = dead \cup {p}
            \/ /\ dead' = dead
               /\ \/ \E p \in Process \ dead :
                       files[Lock].owner = Nobody /\ files'[Lock].owner = p
                  \/ \E p \in Process \ dead :
                       Release(p) /\ files[Lock].owner = p /\ files'[Lock].owner = Nobody
                  \/ files[Lock].owner \in dead /\ files'[Lock].owner = Nobody
<1> DEFINE owner == files[Lock].owner
<1>1. files \in [Path -> [owner : Process \cup {Nobody}, stamped : BOOLEAN, old : BOOLEAN]]
      /\ Lock \in Path
  BY LockIsPath DEF IInv, TypeOK
<1>2. CASE UNCHANGED vars
  BY <1>2 DEF vars
<1>3. ASSUME NEW p \in Process, Die(p)
      PROVE  owner' = owner /\ p \in Process \ dead /\ dead' = dead \cup {p}
  BY <1>3 DEF Die
<1>4. ASSUME NEW path \in Path, Age(path) PROVE owner' = owner /\ dead' = dead
  BY <1>1, <1>4 DEF Age
<1>5. ASSUME NEW p \in Process, Try(p)
      PROVE  /\ dead' = dead /\ p \in Process \ dead
             /\ owner' = owner \/ (owner = Nobody /\ owner' = p)
  BY <1>1, <1>5 DEF Try, At, Create, Exists, NewFile
<1>6. ASSUME NEW p \in Process, Release(p)
      PROVE  /\ dead' = dead /\ p \in Process \ dead /\ owner = p /\ owner' = Nobody
  BY <1>1, <1>6, ReleaseStep DEF Release, At, Delete, NoFile
<1>7. ASSUME NEW p \in Process, Unlink(p)
      PROVE  /\ dead' = dead
             /\ owner' = owner \/ (owner \in dead /\ owner' = Nobody)
  BY <1>1, <1>7, UnlinkStep DEF Unlink, Delete, NoFile
<1>8. ASSUME NEW p \in Process, DropToken(p) PROVE owner' = owner /\ dead' = dead
  BY <1>1, <1>8, DropTokenStep DEF DropToken, Delete
<1>9. ASSUME NEW p \in Process, TakeToken(p) \/ RetakeToken(p) PROVE owner' = owner /\ dead' = dead
  <2>1. name[p] # Lock
    BY <1>9 DEF IInv, Shape, TakeToken, RetakeToken, At, Recovering
  <2> QED
    BY <1>1, <1>9, <2>1 DEF TakeToken, RetakeToken, Create
<1>10. ASSUME NEW p \in Process, Stamp(p) \/ StampToken(p) PROVE owner' = owner /\ dead' = dead
  BY <1>1, <1>10 DEF Stamp, StampToken, WriteText
<1>11. ASSUME NEW p \in Process, Stat(p) \/ Read(p) \/ Restat(p) \/ Reread(p)
       PROVE  owner' = owner /\ dead' = dead
  BY <1>11 DEF Stat, Read, Restat, Reread
<1> QED
  BY <1>2, <1>3, <1>4, <1>5, <1>6, <1>7, <1>8, <1>9, <1>10, <1>11 DEF Next, Step

(* The lock file is the abstract mutex: a recovery that was decided on      *)
(* earlier takes it from a dead owner or not at all.                        *)
THEOREM LockIsMutex == Prompt => (Spec => ImplementsMutex)
<1> SUFFICES ASSUME Prompt PROVE Spec => ImplementsMutex
  OBVIOUS
<1>1. Init => Mutex!Init
  BY LockAssumption, LockIsPath DEF Init, Mutex!Init, NoFile
<1>2. IInv /\ [Next]_vars => [Mutex!Next]_Mutex!vars
  <2> SUFFICES ASSUME IInv, [Next]_vars PROVE [Mutex!Next]_Mutex!vars
    OBVIOUS
  <2> QED
    BY LockAssumption, OwnerStep
       DEF Mutex!Next, Mutex!Acquire, Mutex!Release, Mutex!Die, Mutex!Reclaim, Mutex!vars
<1> QED
  BY <1>1, <1>2, Inductive, PTL DEF Spec, ImplementsMutex, Mutex!Spec

(* A live process loses the lock by its own release only. *)
THEOREM LiveLocksStay == Prompt => (Spec => LiveLockStays)
<1> SUFFICES ASSUME Prompt PROVE Spec => LiveLockStays
  OBVIOUS
<1>1. IInv /\ [Next]_vars =>
        [\A q \in Process \ dead :
           files[Lock].owner = q /\ files'[Lock].owner # q => Release(q)]_vars
  BY LockAssumption, OwnerStep DEF LockAssumption
<1> QED
  BY <1>1, Inductive, PTL DEF Spec, LiveLockStays

(* Live processes leave no token behind and take none from each other: every*)
(* token of a live process belongs to a recovery of its own that goes on,   *)
(* and the token of such a recovery is there.                               *)
TokensInUse ==
  \A p \in Process \ dead, path \in Path \ {Lock} :
    files[path].owner = p <=>
      name[p] = path /\ pc[p] \in {"stampToken", "restat", "reread", "unlink", "untoken"}

(* A recovery token of a live process is in use by it: none is left behind *)
(* by a path through the recovery.                                         *)
THEOREM TokensAreInUse == Prompt => (Spec => []TokensInUse)
<1> SUFFICES ASSUME Prompt PROVE Spec => []TokensInUse
  OBVIOUS
<1>1. IInv => TokensInUse
  BY DEF IInv, Shape, Good, FilesOf, TokensInUse, Owning
<1> QED
  BY <1>1, Inductive, PTL

=============================================================================
