------------------------------ MODULE FileReads ------------------------------
(***************************************************************************)
(* How the program reads a local file that others may be changing: the     *)
(* readers of inputs.py (protected inputs and upload sources), of          *)
(* secrets.py (the Fernet key file) and of cli.py (upload sources and      *)
(* certificates of the fixed operations).                                  *)
(*                                                                         *)
(* One reader goes through its system calls; between any two of them the   *)
(* path may be pointed elsewhere and the files may be written in place.    *)
(*                                                                         *)
(*   path    what the name designates: a file and whether through a        *)
(*           symbolic link, or nothing                                     *)
(*   files   the files, by inode; data is a sequence of blocks, stamp the  *)
(*           time of the last change (st_mtime_ns and st_ctime_ns)         *)
(*   content what the reader has read so far                               *)
(***************************************************************************)
EXTENDS Naturals, Sequences

CONSTANTS
    Inodes, Blocks,
    Maximum,       \* the size limit of the reader, in blocks
    Kinds,         \* the readers: a subset of ReaderKinds
    Absent, NoFile,
    CoarseClock,   \* two changes of a file can bear the same time
    MaxLength, MaxChanges   \* bounds on the size of files and on changes

ReaderKinds == {"protected", "local", "key", "plain"}
Types == {"regular", "other"}

ASSUME ReadAssumption ==
    /\ Kinds \subseteq ReaderKinds
    /\ CoarseClock \in BOOLEAN
    /\ Maximum \in Nat /\ MaxLength \in Nat \ {0} /\ MaxChanges \in Nat
    /\ Absent \notin [inode : Inodes, link : BOOLEAN] /\ Absent \notin Inodes

VARIABLES path, files, changes, kind, pc, before, descriptor, opened, content, result

environment == <<path, files, changes>>
reader == <<kind, pc, before, descriptor, opened, content, result>>
vars == <<environment, reader>>

Paths == {Absent} \cup [inode : Inodes, link : BOOLEAN]

\* A file of any length and of one block throughout, so that a block that has
\* changed since shows; it may be private to the user and regular, or not.
NewFiles == [data : {[n \in 1 .. l |-> b] : l \in 1 .. MaxLength, b \in Blocks},
             type : Types, mine : BOOLEAN, private : BOOLEAN, stamp : {0}]

Init ==
    /\ path \in Paths
    /\ files \in [Inodes -> NewFiles]
    /\ changes = 0
    /\ kind \in Kinds
    /\ pc = "inspect"
    /\ before = Absent /\ descriptor = Absent /\ opened = NoFile
    /\ content = <<>>
    /\ result = "none"

Proceed(label) == pc' = label /\ UNCHANGED result

\* The reader raises its error, or returns what it read; it holds no file then.
Return(r) == pc' = "done" /\ result' = r

Strict == kind \in {"protected", "local"}

------------------------------------------------------------------------------
(* The reader.                                                              *)

\* lstat for the readers of inputs.py, is_symlink for the key, stat and a size
\* check for the others.
Inspect ==
    /\ pc = "inspect"
    /\ before' = IF path = Absent THEN Absent ELSE path.inode
    /\ LET refused == CASE Strict -> path = Absent \/ path.link
                                     \/ files[path.inode].type # "regular"
                        [] kind = "key" -> path # Absent /\ path.link
                        [] OTHER -> path = Absent \/ Len(files[path.inode].data) > Maximum
       IN  IF refused THEN Return("refused") ELSE Proceed("open")
    /\ UNCHANGED <<environment, kind, descriptor, opened, content>>

\* Mutant of Open: a path that is gone by now is not refused.
OpenMissing ==
    /\ pc = "open"
    /\ IF path # Absent /\ path.link /\ kind # "plain"
       THEN Return("refused") /\ UNCHANGED descriptor
       ELSE /\ Proceed(IF kind = "plain" THEN "read" ELSE "check")
            /\ descriptor' = IF path = Absent THEN Absent ELSE path.inode
    /\ UNCHANGED <<environment, kind, before, opened, content>>

\* O_NOFOLLOW, except for the readers of cli.py.
Open ==
    /\ pc = "open"
    /\ IF path = Absent \/ (path.link /\ kind # "plain")
       THEN Return("refused") /\ UNCHANGED descriptor
       ELSE Proceed(IF kind = "plain" THEN "read" ELSE "check") /\ descriptor' = path.inode
    /\ UNCHANGED <<environment, kind, before, opened, content>>

Private(f) == f.mine /\ f.private

\* Mutant of OwnerChecked: protected inputs are read as upload sources are.
OwnerCheckedForKeys == kind = "key"

OwnerChecked == kind \in {"protected", "key"}

Check ==
    /\ pc = "check"
    /\ opened' = files[descriptor]
    /\ IF \/ Strict /\ descriptor # before
          \/ opened'.type # "regular"
          \/ OwnerChecked /\ ~Private(opened')
       THEN Return("refused")
       ELSE Proceed("read")
    /\ UNCHANGED <<environment, kind, before, descriptor, content>>

\* How much is read at most: one block over the limit shows that it is exceeded.
Limit == Maximum + 1

Data == files[descriptor].data

\* The next block, or the end of the file or of what may be read.
Read ==
    /\ pc = "read"
    /\ IF Len(content) < Len(Data) /\ (kind = "plain" \/ Len(content) < Limit)
       THEN /\ content' = Append(content, Data[Len(content) + 1])
            /\ UNCHANGED <<pc, result>>
       ELSE /\ UNCHANGED content
            /\ \/ kind = "plain" /\ Return("ok")
               \/ kind # "plain" /\ Len(content) > Maximum /\ Return("refused")
               \/ kind = "key" /\ Len(content) <= Maximum /\ Return("ok")
               \/ Strict /\ Len(content) <= Maximum /\ Proceed("finish")
    /\ UNCHANGED <<environment, kind, before, descriptor, opened>>

\* Mutant of Unchanged: the sizes alone are compared.
UnchangedSize(f, g) == Len(f.data) = Len(g.data)

\* What the final fstat compares; the blocks themselves are out of its sight.
Unchanged(f, g) ==
    /\ f.type = g.type /\ f.mine = g.mine /\ f.private = g.private
    /\ Len(f.data) = Len(g.data)
    /\ f.stamp = g.stamp

Finish ==
    /\ pc = "finish"
    /\ IF Unchanged(opened, files[descriptor]) THEN Return("ok") ELSE Return("refused")
    /\ UNCHANGED <<environment, kind, before, descriptor, opened, content>>

\* An I/O error of any of the calls.
Fails == /\ pc # "done"
         /\ Return("refused")
         /\ UNCHANGED <<environment, kind, before, descriptor, opened, content>>

------------------------------------------------------------------------------
(* The others.                                                              *)

Change == changes < MaxChanges /\ changes' = changes + 1

\* The path is renamed over, removed, or replaced with a symbolic link.
Repoint == /\ Change
           /\ path' \in Paths \ {path}
           /\ UNCHANGED <<files, reader>>

\* A file is written, extended, truncated or has its mode changed in place.
Modify ==
    /\ Change
    /\ \E i \in Inodes :
       \E stamp \in {changes + 1} \cup (IF CoarseClock THEN {files[i].stamp} ELSE {}) :
         LET f == files[i]
         IN  \/ \E n \in 1 .. Len(f.data), b \in Blocks :
                  files' = [files EXCEPT ![i].data[n] = b, ![i].stamp = stamp]
             \/ \E b \in Blocks : /\ Len(f.data) < MaxLength
                                  /\ files' = [files EXCEPT ![i].data = Append(f.data, b),
                                                            ![i].stamp = stamp]
             \/ files' = [files EXCEPT ![i].data = <<>>, ![i].stamp = stamp]
             \/ files' = [files EXCEPT ![i].private = ~f.private, ![i].stamp = stamp]
    /\ UNCHANGED <<path, reader>>

Next == Inspect \/ Open \/ Check \/ Read \/ Finish \/ Fails \/ Repoint \/ Modify

Spec == Init /\ [][Next]_vars

------------------------------------------------------------------------------
(* Properties.                                                              *)

Files == [data : Seq(Blocks), type : Types, mine : BOOLEAN, private : BOOLEAN, stamp : Nat]

\* The types of the state.
TypeOK ==
    /\ path \in Paths
    /\ files \in [Inodes -> Files]
    /\ \A i \in Inodes : Len(files[i].data) <= MaxLength /\ files[i].stamp <= changes
    /\ changes \in 0..MaxChanges
    /\ kind \in Kinds
    /\ pc \in {"inspect", "open", "check", "read", "finish", "done"}
    /\ before \in Inodes \cup {Absent} /\ descriptor \in Inodes \cup {Absent}
    /\ pc \in {"check", "read", "finish"} => descriptor # Absent
    /\ content \in Seq(Blocks)
    /\ kind # "plain" => Len(content) <= Maximum + 1
    /\ result \in {"none", "ok", "refused"}

\* What a protected read returns is the whole file as it is at the moment the
\* reader decides to return it, never a mixture of two versions nor a part.
ReadsAreSnapshots ==
    [][result = "none" /\ result' = "ok" /\ Strict => content = files[descriptor].data]_vars

\* A protected input is private to the user both when it was checked and when
\* the last byte has been read, and a key when it was checked: the descriptor
\* that was checked is the one that is read, whatever the path has become.
SecretsComeFromPrivateFiles ==
    [][result = "none" /\ result' = "ok" =>
         /\ kind \in {"protected", "key"} => Private(opened)
         /\ kind = "protected" => Private(files[descriptor])]_vars

\* The references limit local upload, certificate and key files to 10 MiB: what a
\* reader returns is no longer than that, whatever the file becomes while it is
\* read.  (The readers of the fixed operations trust the size that stat gave them.)
LocalFilesAreLimited == result = "ok" => Len(content) <= Maximum
==============================================================================
