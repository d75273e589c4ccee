-------------------------- MODULE FileReads_proofs --------------------------
(***************************************************************************)
(* Proofs about FileReads: what a reader returns of a file that others     *)
(* change meanwhile, for any files, limits and number of changes.          *)
(***************************************************************************)
EXTENDS FileReads, SequenceTheorems, TLAPS

\* A reader past its check holds a file that passed it, and goes on to the final
\* comparison only with no more than it may return.
Checked ==
    /\ result = "none" <=> pc # "done"
    /\ pc \in {"inspect", "open", "check"} => content = <<>>
    /\ pc = "check" => kind # "plain"
    /\ pc \in {"read", "finish"} /\ kind # "plain" =>
         /\ opened \in Files
         /\ OwnerChecked => Private(opened)
    /\ pc = "finish" => Strict /\ Len(content) <= Maximum

\* The readers that count what they read return no more than the limit.
CountedReadsAreLimited == result = "ok" /\ kind # "plain" => Len(content) <= Maximum

\* What has been read is how the file that was checked begins.
Beginning ==
    /\ Len(content) <= Len(opened.data)
    /\ \A n \in 1 .. Len(content) : content[n] = opened.data[n]

\* With a clock that tells two changes apart, the file under the descriptor is the
\* one that was checked, as far as it has been read, or has a later time: a file
\* that has changed never looks again as it did.
Followed ==
    ~CoarseClock /\ pc \in {"read", "finish"} /\ Strict =>
        \/ /\ files[descriptor] = opened
           /\ Beginning
           /\ pc = "finish" => Len(content) = Len(opened.data)
        \/ opened.stamp < files[descriptor].stamp

Inv == TypeOK /\ Checked /\ CountedReadsAreLimited /\ Followed

LEMMA NewFilesAreFiles ==
    ASSUME NEW f \in NewFiles
    PROVE  f \in Files /\ Len(f.data) <= MaxLength /\ f.stamp = 0
<1> DEFINE Data0 == {[n \in 1 .. l |-> b] : l \in 1 .. MaxLength, b \in Blocks}
<1>1. \A d \in Data0 : d \in Seq(Blocks) /\ Len(d) <= MaxLength
  <2> SUFFICES ASSUME NEW l \in 1 .. MaxLength, NEW b \in Blocks
               PROVE  /\ [n \in 1 .. l |-> b] \in Seq(Blocks)
                      /\ Len([n \in 1 .. l |-> b]) <= MaxLength
    OBVIOUS
  <2>1. l \in Nat /\ l <= MaxLength
    BY ReadAssumption
  <2>2. \A n \in 1 .. l : b \in Blocks
    OBVIOUS
  <2> DEFINE d == [n \in 1 .. l |-> b]
  <2>3. d \in Seq(Blocks) /\ DOMAIN d = 1 .. l
    BY <2>1
  <2>4. Len(d) = l
    BY <2>1, <2>3, LenProperties
  <2>5. QED
    BY <2>1, <2>3, <2>4
<1>2. f \in [data : Data0, type : Types, mine : BOOLEAN, private : BOOLEAN, stamp : {0}]
  BY DEF NewFiles
<1> HIDE DEF Data0
<1>3. QED
  BY <1>1, <1>2 DEF Files

LEMMA InitInv == Init => Inv
<1> SUFFICES ASSUME Init PROVE Inv
  OBVIOUS
<1>1. \A i \in Inodes : /\ files[i] \in Files
                       /\ Len(files[i].data) <= MaxLength /\ files[i].stamp <= changes
  <2> TAKE i \in Inodes
  <2>1. files[i] \in NewFiles /\ changes = 0
    BY DEF Init
  <2>2. files[i] \in Files /\ Len(files[i].data) <= MaxLength /\ files[i].stamp = 0
    BY <2>1, NewFilesAreFiles
  <2>3. QED
    BY <2>1, <2>2, ReadAssumption
<1>2. TypeOK
  BY <1>1, ReadAssumption DEF Init, TypeOK, NewFiles
<1>3. QED
  BY <1>2 DEF Init, Inv, Checked, CountedReadsAreLimited, Followed

------------------------------------------------------------------------------
(* The others.                                                              *)

\* A change in place gives one file other contents or another mode, and a time.
LEMMA ModifyOne ==
    ASSUME TypeOK, Modify
    PROVE  \E i \in Inodes, f \in Files :
              /\ files' = [files EXCEPT ![i] = f]
              /\ Len(f.data) <= MaxLength /\ f.stamp <= changes + 1
              /\ ~CoarseClock => f.stamp = changes + 1
<1>0. PICK i \in Inodes :
      \E stamp \in {changes + 1} \cup (IF CoarseClock THEN {files[i].stamp} ELSE {}) :
         \/ \E n \in 1 .. Len(files[i].data), b \in Blocks :
              files' = [files EXCEPT ![i].data[n] = b, ![i].stamp = stamp]
         \/ \E b \in Blocks : /\ Len(files[i].data) < MaxLength
                              /\ files' = [files EXCEPT ![i].data = Append(files[i].data, b),
                                                        ![i].stamp = stamp]
         \/ files' = [files EXCEPT ![i].data = <<>>, ![i].stamp = stamp]
         \/ files' = [files EXCEPT ![i].private = ~files[i].private, ![i].stamp = stamp]
  BY DEF Modify
<1>1. PICK stamp \in {changes + 1} \cup (IF CoarseClock THEN {files[i].stamp} ELSE {}) :
         \/ \E n \in 1 .. Len(files[i].data), b \in Blocks :
              files' = [files EXCEPT ![i].data[n] = b, ![i].stamp = stamp]
         \/ \E b \in Blocks : /\ Len(files[i].data) < MaxLength
                              /\ files' = [files EXCEPT ![i].data = Append(files[i].data, b),
                                                        ![i].stamp = stamp]
         \/ files' = [files EXCEPT ![i].data = <<>>, ![i].stamp = stamp]
         \/ files' = [files EXCEPT ![i].private = ~files[i].private, ![i].stamp = stamp]
  BY <1>0
<1> DEFINE f == files[i]
<1>2. /\ f \in Files /\ Len(f.data) <= MaxLength /\ f.stamp <= changes /\ changes \in Nat
      /\ stamp \in Nat /\ stamp <= changes + 1 /\ (~CoarseClock => stamp = changes + 1)
  BY <1>1, ReadAssumption DEF TypeOK, Files
<1>3. ASSUME NEW n \in 1 .. Len(f.data), NEW b \in Blocks,
             files' = [files EXCEPT ![i].data[n] = b, ![i].stamp = stamp]
      PROVE  \E g \in Files : /\ files' = [files EXCEPT ![i] = g]
                             /\ Len(g.data) <= MaxLength /\ g.stamp = stamp
  <2> DEFINE d == [f.data EXCEPT ![n] = b]
             g == [f EXCEPT !.data = d, !.stamp = stamp]
  <2>1. d \in Seq(Blocks) /\ Len(d) = Len(f.data)
    BY <1>2, <1>3, ExceptSeq DEF Files
  <2>2. files' = [files EXCEPT ![i] = g]
    BY <1>3, <1>2 DEF TypeOK, Files
  <2> HIDE DEF d
  <2>3. g \in Files /\ g.data = d /\ g.stamp = stamp
    BY <1>2, <2>1 DEF Files
  <2> HIDE DEF g
  <2>4. QED
    BY <1>2, <2>1, <2>2, <2>3
<1>4. ASSUME NEW d \in Seq(Blocks), Len(d) <= MaxLength,
             files' = [files EXCEPT ![i].data = d, ![i].stamp = stamp]
      PROVE  \E g \in Files : /\ files' = [files EXCEPT ![i] = g]
                             /\ Len(g.data) <= MaxLength /\ g.stamp = stamp
  <2> DEFINE g == [f EXCEPT !.data = d, !.stamp = stamp]
  <2>1. files' = [files EXCEPT ![i] = g]
    BY <1>4, <1>2 DEF TypeOK, Files
  <2>2. g \in Files /\ g.data = d /\ g.stamp = stamp
    BY <1>2 DEF Files
  <2> HIDE DEF g
  <2>3. QED
    BY <1>4, <2>1, <2>2
<1>5. ASSUME files' = [files EXCEPT ![i].private = ~f.private, ![i].stamp = stamp]
      PROVE  \E g \in Files : /\ files' = [files EXCEPT ![i] = g]
                             /\ Len(g.data) <= MaxLength /\ g.stamp = stamp
  <2> DEFINE g == [f EXCEPT !.private = ~f.private, !.stamp = stamp]
  <2>1. files' = [files EXCEPT ![i] = g]
    BY <1>5, <1>2 DEF TypeOK, Files
  <2>2. g \in Files /\ g.data = f.data /\ g.stamp = stamp
    BY <1>2 DEF Files
  <2> HIDE DEF g
  <2>3. QED
    BY <1>2, <2>1, <2>2
<1>6. \A b \in Blocks : Append(f.data, b) \in Seq(Blocks) /\ Len(Append(f.data, b)) = Len(f.data) + 1
  BY <1>2 DEF Files
<1>7. <<>> \in Seq(Blocks) /\ Len(<<>>) = 0
  OBVIOUS
<1>8. \E g \in Files : /\ files' = [files EXCEPT ![i] = g]
                       /\ Len(g.data) <= MaxLength /\ g.stamp = stamp
  <2>1. ASSUME NEW b \in Blocks, Len(f.data) < MaxLength,
               files' = [files EXCEPT ![i].data = Append(files[i].data, b), ![i].stamp = stamp]
        PROVE  \E g \in Files : /\ files' = [files EXCEPT ![i] = g]
                               /\ Len(g.data) <= MaxLength /\ g.stamp = stamp
    <3>1. Len(Append(f.data, b)) <= MaxLength
      BY <1>2, <1>6, <2>1, ReadAssumption DEF Files
    <3>2. QED
      BY <1>4, <1>6, <2>1, <3>1
  <2>2. CASE files' = [files EXCEPT ![i].data = <<>>, ![i].stamp = stamp]
    <3>1. PICK e \in Seq(Blocks) : e = <<>> /\ Len(e) = 0
      BY <1>7
    <3>2. files' = [files EXCEPT ![i].data = e, ![i].stamp = stamp]
      BY <2>2, <3>1
    <3>3. Len(e) <= MaxLength
      BY <3>1, ReadAssumption
    <3>4. QED
      BY <1>4, <3>2, <3>3
  <2>3. CASE \E n \in 1 .. Len(files[i].data), b \in Blocks :
               files' = [files EXCEPT ![i].data[n] = b, ![i].stamp = stamp]
    BY <1>3, <2>3
  <2>4. QED
    BY <1>1, <1>5, <2>1, <2>2, <2>3
<1>9. QED
  BY <1>2, <1>8

LEMMA ChangeInv == Inv /\ (Repoint \/ Modify) => Inv'
<1> SUFFICES ASSUME Inv, Repoint \/ Modify PROVE Inv'
  OBVIOUS
<1>0. changes' = changes + 1 /\ changes' \in 0 .. MaxChanges /\ UNCHANGED reader
  BY ReadAssumption DEF Repoint, Modify, Change, Inv, TypeOK
<1>1. CASE Repoint
  <2>1. path' \in Paths /\ files' = files
    BY <1>1 DEF Repoint
  <2>2. TypeOK'
    BY <1>0, <2>1 DEF Inv, TypeOK, reader, Files
  <2>3. QED
    BY <1>0, <2>1, <2>2
       DEF Inv, Checked, CountedReadsAreLimited, Followed, Beginning, reader, OwnerChecked, Strict
<1>2. CASE Modify
  <2>1. PICK i \in Inodes, f \in Files :
              /\ files' = [files EXCEPT ![i] = f]
              /\ Len(f.data) <= MaxLength /\ f.stamp <= changes + 1
              /\ ~CoarseClock => f.stamp = changes + 1
    BY <1>2, ModifyOne DEF Inv
  <2>2. path' = path
    BY <1>2 DEF Modify
  <2>3. /\ files' \in [Inodes -> Files]
        /\ \A j \in Inodes : files'[j] = files[j] \/ files'[j] = f
    BY <2>1 DEF Inv, TypeOK
  <2>4. \A j \in Inodes : Len(files'[j].data) <= MaxLength /\ files'[j].stamp <= changes'
    <3> TAKE j \in Inodes
    <3>1. files[j].stamp \in Nat /\ files[j].stamp <= changes /\ changes \in Nat
      BY DEF Inv, TypeOK, Files
    <3>2. QED
      BY <1>0, <2>1, <2>3, <3>1 DEF Inv, TypeOK
  <2>5. TypeOK'
    BY <1>0, <2>2, <2>3, <2>4 DEF Inv, TypeOK, reader
  <2>6. Checked' /\ CountedReadsAreLimited'
    BY <1>0, <2>5 DEF Inv, Checked, CountedReadsAreLimited, reader, OwnerChecked, Strict
  <2>7. ASSUME ~CoarseClock, pc' \in {"read", "finish"}, Strict'
        PROVE  \/ files'[descriptor] = files[descriptor]
               \/ opened.stamp < files'[descriptor].stamp
    <3>1. descriptor \in Inodes /\ Strict /\ pc \in {"read", "finish"} /\ opened \in Files
      BY <1>0, <2>7, ReadAssumption DEF Inv, TypeOK, Checked, reader, Strict
    <3>2. opened.stamp <= files[descriptor].stamp
      BY <2>7, <3>1 DEF Followed, Files, Inv, TypeOK
    <3>3. opened.stamp \in Nat /\ files[descriptor].stamp \in Nat /\ files[descriptor].stamp <= changes
      BY <3>1 DEF Files, Inv, TypeOK
    <3>4. opened.stamp < changes + 1
      BY <3>2, <3>3 DEF Inv, TypeOK
    <3>5. QED
      BY <2>1, <2>3, <2>7, <3>1, <3>4
  <2>8. Followed'
    BY <1>0, <2>7 DEF Inv, Followed, Beginning, reader, Strict
  <2>9. QED
    BY <2>5, <2>6, <2>8 DEF Inv
<1>3. QED
  BY <1>1, <1>2

------------------------------------------------------------------------------
(* The reader.                                                              *)

LEMMA OpenInv == Inv /\ (Inspect \/ Open) => Inv'
<1> SUFFICES ASSUME Inv, Inspect \/ Open PROVE Inv'
  OBVIOUS
<1>0. /\ path = Absent \/ path.inode \in Inodes
      /\ UNCHANGED <<environment, kind, opened, content>> /\ content = <<>>
  BY DEF Inspect, Open, Inv, Checked, TypeOK, Paths
<1>1. CASE Inspect
  <2>1. /\ before' \in Inodes \cup {Absent} /\ UNCHANGED descriptor
        /\ \/ pc' = "done" /\ result' = "refused"
           \/ pc' = "open" /\ result' = result /\ result = "none"
    BY <1>0, <1>1 DEF Inspect, Return, Proceed, Inv, Checked
  <2>2. TypeOK'
    BY <1>0, <2>1 DEF environment, Inv, TypeOK, Files
  <2>3. QED
    BY <1>0, <2>1, <2>2
       DEF Inv, Checked, CountedReadsAreLimited, Followed, environment, OwnerChecked, Strict
<1>2. CASE Open
  <2>1. /\ UNCHANGED before
        /\ \/ pc' = "done" /\ result' = "refused" /\ UNCHANGED descriptor
           \/ /\ pc' = (IF kind = "plain" THEN "read" ELSE "check")
              /\ result' = result /\ result = "none"
              /\ descriptor' = path.inode /\ path # Absent
    BY <1>2 DEF Open, Return, Proceed, Inv, Checked
  <2>2. descriptor' \in Inodes \cup {Absent} /\ (pc' # "done" => descriptor' # Absent)
    BY <1>0, <2>1, ReadAssumption DEF Inv, TypeOK
  <2>3. TypeOK'
    BY <1>0, <2>1, <2>2 DEF environment, Inv, TypeOK, Files
  <2>4. QED
    BY <1>0, <2>1, <2>3
       DEF Inv, Checked, CountedReadsAreLimited, Followed, environment, OwnerChecked, Strict
<1>3. QED
  BY <1>1, <1>2

LEMMA CheckInv == Inv /\ Check => Inv'
<1> SUFFICES ASSUME Inv, Check PROVE Inv'
  OBVIOUS
<1>1. /\ UNCHANGED <<environment, kind, before, descriptor, content>>
      /\ descriptor \in Inodes /\ opened' = files[descriptor] /\ opened' \in Files
      /\ content = <<>> /\ kind # "plain"
      /\ \/ pc' = "done" /\ result' = "refused"
         \/ /\ pc' = "read" /\ result' = result /\ result = "none"
            /\ OwnerChecked => Private(opened')
      /\ changes \in Nat /\ files \in [Inodes -> Files]
  <2>1. /\ pc = "check" /\ descriptor \in Inodes /\ content = <<>> /\ kind # "plain" /\ result = "none"
        /\ changes \in Nat /\ files \in [Inodes -> Files]
    BY DEF Check, Inv, TypeOK, Checked
  <2>2. opened' = files[descriptor] /\ opened' \in Files
    BY <2>1 DEF Check
  <2>3. UNCHANGED <<environment, kind, before, descriptor, content>>
    BY DEF Check
  <2>4. \/ Return("refused")
        \/ Proceed("read") /\ (OwnerChecked => Private(opened'))
    BY DEF Check
  <2>5. QED
    BY <2>1, <2>2, <2>3, <2>4 DEF Return, Proceed
<1>2. TypeOK'
  BY <1>1, ReadAssumption DEF environment, Inv, TypeOK
<1>3. Checked' /\ CountedReadsAreLimited'
  BY <1>1, <1>2 DEF Inv, Checked, CountedReadsAreLimited, OwnerChecked, Private, Strict
<1>4. Beginning'
  <2>1. Len(content') = 0 /\ Len(opened'.data) \in Nat
    BY <1>1 DEF Files
  <2>2. QED
    BY <2>1 DEF Beginning
<1>5. QED
  BY <1>1, <1>2, <1>3, <1>4 DEF Inv, Followed, environment

LEMMA ReadInv == Inv /\ Read => Inv'
<1> SUFFICES ASSUME Inv, Read PROVE Inv'
  OBVIOUS
<1>1. /\ UNCHANGED <<environment, kind, before, descriptor, opened>>
      /\ descriptor \in Inodes /\ files[descriptor] \in Files /\ Data \in Seq(Blocks)
      /\ content \in Seq(Blocks) /\ pc = "read" /\ result = "none"
      /\ Len(content) \in Nat /\ Len(Data) \in Nat /\ Maximum \in Nat
  BY ReadAssumption DEF Read, Inv, TypeOK, Checked, Data, Files
<1>2. CASE Len(content) < Len(Data) /\ (kind = "plain" \/ Len(content) < Limit)
  <2>1. content' = Append(content, Data[Len(content) + 1]) /\ UNCHANGED <<pc, result>>
    BY <1>2 DEF Read
  <2>2. Data[Len(content) + 1] \in Blocks
    BY <1>1, <1>2, ElementOfSeq
  <2>3. /\ content' \in Seq(Blocks) /\ Len(content') = Len(content) + 1
        /\ \A n \in 1 .. Len(content) : content'[n] = content[n]
        /\ content'[Len(content) + 1] = Data[Len(content) + 1]
    BY <1>1, <2>1, <2>2
  <2>4. kind # "plain" => Len(content') <= Maximum + 1
    BY <1>1, <1>2, <2>3 DEF Limit
  <2>5. TypeOK'
    BY <1>1, <2>1, <2>3, <2>4 DEF environment, Inv, TypeOK, Files
  <2>6. Checked' /\ CountedReadsAreLimited'
    BY <1>1, <2>1, <2>5 DEF Inv, Checked, CountedReadsAreLimited, OwnerChecked, Strict
  <2>7. files[descriptor] = opened /\ Beginning => Beginning'
    BY <1>1, <1>2, <2>3 DEF Beginning, Data
  <2>8. QED
    BY <1>1, <2>1, <2>5, <2>6, <2>7 DEF Inv, Followed, environment, Strict
<1>3. CASE ~(Len(content) < Len(Data) /\ (kind = "plain" \/ Len(content) < Limit))
  <2>1. /\ UNCHANGED content
        /\ \/ pc' = "done" /\ result' = "refused"
           \/ pc' = "done" /\ result' = "ok" /\ (kind = "plain" \/ Len(content) <= Maximum)
           \/ pc' = "finish" /\ result' = result /\ Strict /\ Len(content) <= Maximum
    BY <1>1, <1>3 DEF Read, Return, Proceed
  <2>2. TypeOK'
    BY <1>1, <2>1 DEF environment, Inv, TypeOK, Files
  <2>3. Checked' /\ CountedReadsAreLimited'
    BY <1>1, <2>1, <2>2 DEF Inv, Checked, CountedReadsAreLimited, OwnerChecked, Strict, environment
  <2>4. pc' = "finish" => Len(Data) <= Len(content)
    BY <1>1, <1>3, <2>1 DEF Limit
  <2>5. QED
    <3>1. pc' = "finish" /\ files[descriptor] = opened /\ Beginning => Len(content) = Len(opened.data)
      BY <1>1, <2>4 DEF Beginning, Data
    <3>2. Followed'
      BY <1>1, <2>1, <3>1 DEF Inv, Followed, Beginning, environment, Strict
    <3>3. QED
      BY <2>2, <2>3, <3>2 DEF Inv
<1>4. QED
  BY <1>2, <1>3

LEMMA EndInv == Inv /\ (Finish \/ Fails) => Inv'
<1> SUFFICES ASSUME Inv, Finish \/ Fails PROVE Inv'
  OBVIOUS
<1>1. /\ UNCHANGED <<environment, kind, before, descriptor, opened, content>>
      /\ pc' = "done" /\ result' \in {"ok", "refused"}
      /\ result' = "ok" => pc = "finish"
  BY DEF Finish, Fails, Return
<1>2. TypeOK'
  BY <1>1 DEF environment, Inv, TypeOK, Files
<1>3. QED
  BY <1>1, <1>2 DEF Inv, Checked, CountedReadsAreLimited, Followed

LEMMA NextInv == Inv /\ [Next]_vars => Inv'
<1> SUFFICES ASSUME Inv, [Next]_vars PROVE Inv'
  OBVIOUS
<1>1. CASE UNCHANGED vars
  BY <1>1 DEF vars, environment, reader, Inv, TypeOK, Checked, CountedReadsAreLimited, Followed,
              Beginning, OwnerChecked, Strict, Files
<1>2. CASE Next
  BY <1>2, OpenInv, CheckInv, ReadInv, EndInv, ChangeInv DEF Next
<1>3. QED
  BY <1>1, <1>2

------------------------------------------------------------------------------
(* The theorems.                                                            *)

\* The types of the state, for any number of files and changes.
THEOREM ReadTypes == Spec => []TypeOK
<1>1. Inv => TypeOK
  BY DEF Inv
<1>2. QED
  BY <1>1, InitInv, NextInv, PTL DEF Spec

\* A secret is read from a file that was private when it was checked and, if it is a
\* protected input, still is when it is returned: wherever the path points by
\* then, the descriptor that was checked is the one that is read.
THEOREM SecretsArePrivate == Spec => SecretsComeFromPrivateFiles
<1>1. ASSUME Inv, [Next]_vars
      PROVE  [result = "none" /\ result' = "ok" =>
                /\ kind \in {"protected", "key"} => Private(opened)
                /\ kind = "protected" => Private(files[descriptor])]_vars
  <2> SUFFICES ASSUME result = "none", result' = "ok", Next
               PROVE  /\ kind \in {"protected", "key"} => Private(opened)
                      /\ kind = "protected" => Private(files[descriptor])
    BY <1>1 DEF vars, reader
  <2>1. Read \/ Finish
    BY DEF Next, Inspect, Open, Check, Fails, Repoint, Modify, Return, Proceed, reader
  <2>2. pc \in {"read", "finish"}
    BY <2>1 DEF Read, Finish
  <2>3. kind \in {"protected", "key"} => Private(opened)
    BY <1>1, <2>2 DEF Inv, Checked, OwnerChecked
  <2>4. kind = "protected" => Finish /\ Unchanged(opened, files[descriptor])
    BY <2>1 DEF Read, Finish, Return, Proceed, Strict
  <2>5. QED
    BY <2>3, <2>4 DEF Unchanged, Private
<1>2. QED
  BY <1>1, InitInv, NextInv, PTL DEF Spec, SecretsComeFromPrivateFiles

\* With a clock that tells two changes of a file apart, what a strict reader returns
\* is the whole of one version of the file, the one that is there as it returns.
THEOREM StrictReadsAreSnapshots ==
    ASSUME ~CoarseClock PROVE Spec => ReadsAreSnapshots
<1>1. ASSUME Inv, [Next]_vars
      PROVE  [result = "none" /\ result' = "ok" /\ Strict
              => content = files[descriptor].data]_vars
  <2> SUFFICES ASSUME result = "none", result' = "ok", Strict, Next
               PROVE  content = files[descriptor].data
    BY <1>1 DEF vars, reader
  <2>1. Read \/ Finish
    BY DEF Next, Inspect, Open, Check, Fails, Repoint, Modify, Return, Proceed, reader
  <2>2. Finish /\ pc = "finish" /\ Unchanged(opened, files[descriptor])
    BY <2>1 DEF Read, Finish, Return, Proceed, Strict
  <2>3. descriptor \in Inodes /\ files[descriptor] \in Files /\ content \in Seq(Blocks)
    BY <1>1, <2>2 DEF Inv, TypeOK
  <2>4. ~(opened.stamp < files[descriptor].stamp)
    BY <2>2, <2>3 DEF Unchanged, Files
  <2>5. files[descriptor] = opened /\ Beginning /\ Len(content) = Len(opened.data)
    BY <1>1, <2>2, <2>4 DEF Inv, Followed
  <2>6. QED
    BY <2>3, <2>5, SeqEqual DEF Beginning, Files
<1>2. QED
  BY <1>1, InitInv, NextInv, PTL DEF Spec, ReadsAreSnapshots

==============================================================================
