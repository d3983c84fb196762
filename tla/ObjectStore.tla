---------------------------- MODULE ObjectStore ----------------------------
(***************************************************************************)
(* One object of the artifact store: its file on disk                      *)
(* (packages/evidence-store/src/filesystem/object-store.ts), its           *)
(* artifact_reference row and its deletion evidence                        *)
(* (packages/evidence-store/src/postgres/artifact-store.ts put, get and    *)
(* delete), under concurrent puts, reads and purges and crashes.           *)
(*                                                                         *)
(* The file system is modelled by names and inodes: writeFile opens the    *)
(* one temporary name of the digest, creating it or emptying the file that *)
(* is there, and writes in pieces; rename moves the name.  The pieces of   *)
(* an object say who wrote them, because an envelope is sealed with fresh  *)
(* randomness: the same bytes put twice are not the same file.             *)
(***************************************************************************)
EXTENDS Integers, FiniteSets

CONSTANTS
  Putters,        \* concurrent calls of put for this digest
  Readers,        \* concurrent calls of get
  Purgers,        \* concurrent calls of delete
  Inodes,         \* files there may be at once
  Encrypted,      \* the class is source-derived: the file is an envelope
  MaxCrashes      \* bound: crashes

NoFile == "no_file"

ASSUME ObjectStoreAssumption ==
  /\ Encrypted \in BOOLEAN /\ MaxCrashes \in Nat
  /\ NoFile \notin Inodes /\ "empty" \notin Putters

VARIABLES
  content,        \* the pieces of each file
  temporary,      \* the file named <digest>.tmp
  target,         \* the file named <digest>
  row,            \* is there an artifact_reference row
  evidence,       \* deletion_evidence rows of the digest
  objectPc,       \* where each call is
  fd,             \* the file each put has open
  got,            \* what each read returned
  crashes,
  shared,         \* history: a put opened the file another put was at
  settled         \* history: a re-read of delete found the bytes gone,
                  \* with the row there and no put under way

objectHistory == <<shared, settled>>
objectVars ==
  <<content, temporary, target, row, evidence, objectPc, fd, got, crashes, objectHistory>>

Calls == Putters \cup Readers \cup Purgers
Pieces == 1 .. 2
Empty == [n \in Pieces |-> "empty"]

ObjectSteps ==
  {"idle", "putSelect", "open", "write1", "write2", "rename", "insert",
   "getSelect", "read", "unverified", "remove", "has", "verified"}

ObjectTypeOK ==
  /\ content \in [Inodes -> [Pieces -> Putters \cup {"empty"}]]
  /\ temporary \in Inodes \cup {NoFile}
  /\ target \in Inodes \cup {NoFile}
  /\ row \in BOOLEAN
  /\ evidence \subseteq {"unverified", "verified"}
  /\ objectPc \in [Calls -> ObjectSteps]
  /\ fd \in [Putters -> Inodes \cup {NoFile}]
  /\ \A p \in Putters : objectPc[p] \in {"write1", "write2"} => fd[p] # NoFile
  /\ got \in [Readers -> {"none", "whole", "broken", "not_found"}]
  /\ crashes \in 0 .. MaxCrashes
  /\ shared \in BOOLEAN /\ settled \in BOOLEAN

ObjectInit ==
  /\ content = [i \in Inodes |-> Empty]
  /\ temporary = NoFile
  /\ target = NoFile
  /\ row = FALSE
  /\ evidence = {}
  /\ objectPc = [c \in Calls |-> "idle"]
  /\ fd = [p \in Putters |-> NoFile]
  /\ got = [r \in Readers |-> "none"]
  /\ crashes = 0
  /\ shared = FALSE
  /\ settled = FALSE

At(c, step) == objectPc[c] = step
ObjectGoto(c, step) == objectPc' = [objectPc EXCEPT ![c] = step]

(* The file holds one complete object: of one put if it is an envelope, of *)
(* whichever puts if it is the plain bytes, which are always the same.     *)
Whole(i) ==
  /\ \A n \in Pieces : content[i][n] # "empty"
  /\ Encrypted => \A n, m \in Pieces : content[i][n] = content[i][m]

-----------------------------------------------------------------------------
(* ArtifactStore.put.                                                      *)

PutBegin(p) ==
  /\ At(p, "idle")
  /\ ObjectGoto(p, "putSelect")
  /\ UNCHANGED <<content, temporary, target, row, evidence, fd, got, crashes, objectHistory>>

(* Mutant of ObjectPutSelect: a put goes on although there is a row. *)
ObjectPutAgain(p) ==
  /\ At(p, "putSelect")
  /\ ObjectGoto(p, "open")
  /\ UNCHANGED <<content, temporary, target, row, evidence, fd, got, crashes, objectHistory>>

(* A row answers already_present. *)
ObjectPutSelect(p) ==
  /\ At(p, "putSelect")
  /\ IF row THEN ObjectGoto(p, "idle") ELSE ObjectGoto(p, "open")
  /\ UNCHANGED <<content, temporary, target, row, evidence, fd, got, crashes, objectHistory>>

Unused ==
  Inodes \ ({temporary, target} \cup {fd[p] : p \in Putters})

(* The file the temporary name opens: the one it names, or a new one. *)
Opened ==
  IF temporary # NoFile THEN {temporary}
  ELSE {i \in Unused : i = CHOOSE x \in Unused : TRUE}

(* writeFile opens its name: a file that is there is emptied. *)
Open(p) ==
  /\ At(p, "open")
  /\ \E i \in Opened :
       /\ content' = [content EXCEPT ![i] = Empty]
       /\ temporary' = i
       /\ fd' = [fd EXCEPT ![p] = i]
       /\ shared' = (shared \/ \E q \in Putters : fd[q] = i)
  /\ ObjectGoto(p, "write1")
  /\ UNCHANGED <<target, row, evidence, got, crashes, settled>>

(* It writes to the file it opened, whatever name that has by now. *)
Write(p, step, n, next) ==
  /\ At(p, step)
  /\ content' = [content EXCEPT ![fd[p]][n] = p]
  /\ ObjectGoto(p, next)
  /\ UNCHANGED <<temporary, target, row, evidence, fd, got, crashes, objectHistory>>

WriteFirst(p) == Write(p, "write1", 1, "write2")
WriteLast(p) == Write(p, "write2", 2, "rename")

(* rename puts the file in place; a name that is gone is an exception. *)
Rename(p) ==
  /\ At(p, "rename")
  /\ IF temporary # NoFile
     THEN target' = temporary /\ temporary' = NoFile /\ ObjectGoto(p, "insert")
     ELSE ObjectGoto(p, "idle") /\ UNCHANGED <<target, temporary>>
  /\ fd' = [fd EXCEPT ![p] = NoFile]
  /\ UNCHANGED <<content, row, evidence, got, crashes, objectHistory>>

InsertRow(p) ==
  /\ At(p, "insert")
  /\ row' = TRUE
  /\ ObjectGoto(p, "idle")
  /\ UNCHANGED <<content, temporary, target, evidence, fd, got, crashes, objectHistory>>

-----------------------------------------------------------------------------
(* ArtifactStore.get, after its access was granted and logged.             *)

GetBegin(r) ==
  /\ At(r, "idle")
  /\ ObjectGoto(r, "getSelect")
  /\ got' = [got EXCEPT ![r] = "none"]
  /\ UNCHANGED <<content, temporary, target, row, evidence, fd, crashes, objectHistory>>

GetSelect(r) ==
  /\ At(r, "getSelect")
  /\ IF row
     THEN ObjectGoto(r, "read") /\ UNCHANGED got
     ELSE ObjectGoto(r, "idle") /\ got' = [got EXCEPT ![r] = "not_found"]
  /\ UNCHANGED <<content, temporary, target, row, evidence, fd, crashes, objectHistory>>

Read(r) ==
  /\ At(r, "read")
  /\ got' = [got EXCEPT ![r] =
               IF target = NoFile THEN "not_found"
               ELSE IF Whole(target) THEN "whole" ELSE "broken"]
  /\ ObjectGoto(r, "idle")
  /\ UNCHANGED <<content, temporary, target, row, evidence, fd, crashes, objectHistory>>

-----------------------------------------------------------------------------
(* ArtifactStore.delete: the intent, the removal, and a re-read before the *)
(* verified evidence.  It does not look for the artifact_reference row.    *)

PurgeBegin(u) ==
  /\ At(u, "idle")
  /\ ObjectGoto(u, "unverified")
  /\ UNCHANGED <<content, temporary, target, row, evidence, fd, got, crashes, objectHistory>>

(* Mutant of InsertUnverified: the intent is not recorded. *)
InsertNothing(u) ==
  /\ At(u, "unverified")
  /\ ObjectGoto(u, "remove")
  /\ UNCHANGED <<content, temporary, target, row, evidence, fd, got, crashes, objectHistory>>

InsertUnverified(u) ==
  /\ At(u, "unverified")
  /\ evidence' = evidence \cup {"unverified"}
  /\ ObjectGoto(u, "remove")
  /\ UNCHANGED <<content, temporary, target, row, fd, got, crashes, objectHistory>>

(* Mutant of Remove: the file is overwritten in place. *)
RemoveByOverwriting(u) ==
  /\ At(u, "remove")
  /\ content' = [i \in Inodes |-> IF i = target THEN Empty ELSE content[i]]
  /\ ObjectGoto(u, "has")
  /\ UNCHANGED <<temporary, target, row, evidence, fd, got, crashes, objectHistory>>

Remove(u) ==
  /\ At(u, "remove")
  /\ target' = NoFile
  /\ ObjectGoto(u, "has")
  /\ UNCHANGED <<content, temporary, row, evidence, fd, got, crashes, objectHistory>>

(* A put that found no row and has not put its file in place yet. *)
PutUnderWay(p) == objectPc[p] \in {"open", "write1", "write2", "rename"}

Has(u) ==
  /\ At(u, "has")
  /\ IF target = NoFile THEN ObjectGoto(u, "verified") ELSE ObjectGoto(u, "idle")
  /\ settled' = (settled \/ (target = NoFile /\ row /\ \A p \in Putters : ~PutUnderWay(p)))
  /\ UNCHANGED <<content, temporary, target, row, evidence, fd, got, crashes, shared>>

InsertVerified(u) ==
  /\ At(u, "verified")
  /\ evidence' = evidence \cup {"verified"}
  /\ ObjectGoto(u, "idle")
  /\ UNCHANGED <<content, temporary, target, row, fd, got, crashes, objectHistory>>

-----------------------------------------------------------------------------
(* The process of a call stops; files and rows stay. *)
CallCrash(c) ==
  /\ crashes < MaxCrashes
  /\ objectPc[c] # "idle"
  /\ crashes' = crashes + 1
  /\ ObjectGoto(c, "idle")
  /\ fd' = [p \in Putters |-> IF p = c THEN NoFile ELSE fd[p]]
  /\ UNCHANGED <<content, temporary, target, row, evidence, got, objectHistory>>

Put(p) ==
  \/ PutBegin(p) \/ ObjectPutSelect(p) \/ Open(p) \/ WriteFirst(p) \/ WriteLast(p)
  \/ Rename(p) \/ InsertRow(p)

Get(r) == GetBegin(r) \/ GetSelect(r) \/ Read(r)

Delete(u) ==
  \/ PurgeBegin(u) \/ InsertUnverified(u) \/ Remove(u) \/ Has(u)
  \/ InsertVerified(u)

ObjectNext ==
  \/ \E p \in Putters : Put(p)
  \/ \E r \in Readers : Get(r)
  \/ \E u \in Purgers : Delete(u)
  \/ \E c \in Calls : CallCrash(c)

ObjectSpec == ObjectInit /\ [][ObjectNext]_objectVars

-----------------------------------------------------------------------------
(* "A reader never observes a partial object": what object-store.ts says   *)
(* of its temporary file and its rename, for any puts at once.             *)
ReadIsWhole == \A r \in Readers : got[r] # "broken"

(* What is true of it: a read is broken only after two puts were at one    *)
(* temporary file at the same time.  Puts that die and leave a piece of    *)
(* the file behind, puts that follow one another, reads and deletions at   *)
(* any moment never break one.                                             *)
BrokenOnlyIfShared == (\E r \in Readers : got[r] = "broken") => shared

(* "Bytes before records": a row without a deletion on record points at an *)
(* object, and at a whole one unless puts shared their temporary file, at  *)
(* every moment a crash may come.                                          *)
RowPointsAtObject ==
  row /\ evidence = {} => target # NoFile /\ (Whole(target) \/ shared)

(* A deletion whose re-read found nothing, of an artifact that has its row *)
(* and that nobody is putting, is final: its evidence stays true whatever  *)
(* puts, deletions and crashes follow.  A put that found no row before may *)
(* still write, and then verified evidence stands next to the bytes.       *)
SettledIsGone == settled => target = NoFile

(* What the tables say of the disk is true at every moment a crash may     *)
(* come: of the row and of the deletion evidence.                          *)
RowsAreTrue == RowPointsAtObject /\ SettledIsGone
=============================================================================
