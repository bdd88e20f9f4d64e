--------------------------- MODULE LogTailProofs ---------------------------
(***************************************************************************)
(* What the tail of the access log guarantees for any number of lines,     *)
(* files, truncations and crashes and any capacity of the channel.         *)
(***************************************************************************)
EXTENDS LogTail, FiniteSetTheorems, SequenceTheorems, TLAPS

Parts == {"whole", "first", "last"}

(* Xray has added a piece to its file. *)
Wrote(piece) ==
  /\ \A f \in File : f # xray => content'[f] = content[f]
  /\ content'[xray] \in Seq(Piece)
  /\ Len(content'[xray]) = Size(xray) + 1
  /\ \A i \in 1 .. Size(xray) : content'[xray][i] = content[xray][i]
  /\ content'[xray][Size(xray) + 1] = piece

(* The tail has returned a line of n pieces. *)
Returned(n) ==
  /\ n \in 1 .. Len(buffer)
  /\ EndsLine(n)
  /\ buffer' \in Seq(Piece)
  /\ Len(buffer') = Len(buffer) - n
  /\ \A i \in 1 .. Len(buffer) - n : buffer'[i] = buffer[i + n]
  /\ joints' = {j - n : j \in {k \in joints : k > n}}
  /\ \/ buffer[1].part = "last" /\ UNCHANGED <<pc, event>>
     \/ /\ buffer[1].part # "last"
        /\ event' = [ip |-> buffer[1].line, uuid |-> buffer[n].line]
        /\ event' \in Event
        /\ pc' = "send"

(* The tail has read up to the n-th piece. *)
Filled(n) ==
  /\ n \in pos + 1 .. Size(file)
  /\ pos' = n
  /\ buffer' \in Seq(Piece)
  /\ Len(buffer') = Len(buffer) + (n - pos)
  /\ \A i \in 1 .. Len(buffer) : buffer'[i] = buffer[i]
  /\ \A i \in 1 .. n - pos : buffer'[Len(buffer) + i] = content[file][pos + i]

LEMMA SeqFacts ==
  ASSUME TypeOK
  PROVE  /\ \A f \in File : Size(f) \in Nat /\ content[f] \in Seq(Piece)
         /\ \A f \in File : \A i \in 1 .. Size(f) : content[f][i] \in Piece
         /\ Len(buffer) \in Nat /\ DOMAIN buffer = 1 .. Len(buffer)
         /\ \A i \in 1 .. Len(buffer) : buffer[i] \in Piece
         /\ Len(emitted) \in Nat /\ DOMAIN emitted = 1 .. Len(emitted)
         /\ \A i \in 1 .. Len(emitted) : emitted[i] \in Event
  BY DEF TypeOK, Size

LEMMA PutFacts ==
  ASSUME TypeOK, NEW line \in 1 .. MaxLines, NEW part \in Parts, Put(line, part)
  PROVE  /\ Wrote([line |-> line, part |-> part])
         /\ content' \in [File -> Seq(Piece)]
         /\ UNCHANGED <<path, created, xray, tailVars, queued, historyVars, bounds>>
<1> DEFINE piece == [line |-> line, part |-> part]
<1>1. piece \in Piece
  BY DEF Piece, Parts
<1>2. content' = [content EXCEPT ![xray] = Append(content[xray], piece)]
  BY DEF Put
<1>3. content[xray] \in Seq(Piece) /\ xray \in File
  BY DEF TypeOK
<1> HIDE DEF piece
<1>4. Append(content[xray], piece) \in Seq(Piece)
  BY <1>1, <1>3, AppendProperties
<1>5. content' \in [File -> Seq(Piece)] /\ content'[xray] = Append(content[xray], piece)
  BY <1>2, <1>3, <1>4 DEF TypeOK
<1>6. Wrote(piece)
  BY <1>1, <1>2, <1>3, <1>5, AppendProperties DEF Wrote, Size, TypeOK
<1> QED  BY <1>5, <1>6 DEF Put, piece

LEMMA ReturnFacts ==
  ASSUME TypeOK, ReturnLine
  PROVE  \E n \in 1 .. Len(buffer) : Returned(n)
<1>1. PICK n \in 1 .. Len(buffer) :
        /\ EndsLine(n)
        /\ buffer' = SubSeq(buffer, n + 1, Len(buffer))
        /\ joints' = {j - n : j \in {k \in joints : k > n}}
        /\ IF buffer[1].part = "last"
           THEN UNCHANGED <<pc, event>>
           ELSE /\ event' = [ip |-> buffer[1].line, uuid |-> buffer[n].line]
                /\ pc' = "send"
  BY SeqFacts DEF ReturnLine
<1>2. Len(buffer) \in Nat /\ \A i \in 1 .. Len(buffer) : buffer[i] \in Piece
  BY SeqFacts
<1>3. /\ SubSeq(buffer, n + 1, Len(buffer)) \in Seq(Piece)
      /\ Len(SubSeq(buffer, n + 1, Len(buffer))) = Len(buffer) - n
      /\ \A i \in 1 .. Len(buffer) - n : SubSeq(buffer, n + 1, Len(buffer))[i] = buffer[i + n]
  <2>1. /\ n + 1 \in Int /\ Len(buffer) \in Int
        /\ \A i \in n + 1 .. Len(buffer) : buffer[i] \in Piece
    BY <1>2
  <2> QED  BY <1>2, <2>1, SubSeqProperties
<1>4. [ip |-> buffer[1].line, uuid |-> buffer[n].line] \in Event
  BY <1>2 DEF Event, Piece
<1> QED  BY <1>1, <1>3, <1>4 DEF Returned

LEMMA FillFacts ==
  ASSUME TypeOK, file \in File, FillBuffer
  PROVE  \E n \in pos + 1 .. Size(file) : Filled(n)
<1>1. PICK n \in pos + 1 .. Size(file) :
        buffer' = buffer \o SubSeq(content[file], pos + 1, n) /\ pos' = n
  BY DEF FillBuffer
<1> DEFINE new == SubSeq(content[file], pos + 1, n)
<1>2. /\ pos \in Nat /\ n \in Nat /\ pos + 1 <= n /\ n <= Size(file)
      /\ buffer \in Seq(Piece) /\ Len(buffer) \in Nat
  BY SeqFacts DEF TypeOK
<1>3. /\ new \in Seq(Piece)
      /\ Len(new) = n - pos
      /\ \A i \in 1 .. n - pos : new[i] = content[file][pos + i]
  <2>1. pos + 1 \in Int /\ n \in Int
    BY <1>2
  <2>2. \A i \in pos + 1 .. n : content[file][i] \in Piece
    BY <1>2, SeqFacts
  <2>3. /\ new \in Seq(Piece)
        /\ Len(new) = IF pos + 1 <= n THEN n - (pos + 1) + 1 ELSE 0
        /\ \A i \in 1 .. n - (pos + 1) + 1 : new[i] = content[file][(pos + 1) + i - 1]
    BY <2>1, <2>2, SubSeqProperties
  <2>4. n - (pos + 1) + 1 = n - pos /\ \A i \in Int : (pos + 1) + i - 1 = pos + i
    BY <1>2
  <2>5. /\ Len(new) = n - (pos + 1) + 1
        /\ \A i \in 1 .. n - pos : new[i] = content[file][(pos + 1) + i - 1]
    BY <1>2, <2>3, <2>4
  <2>6. \A i \in 1 .. n - pos : (pos + 1) + i - 1 = pos + i
    BY <1>2
  <2> HIDE DEF new
  <2> QED  BY <2>3, <2>4, <2>5, <2>6
<1> HIDE DEF new
<1>4. /\ buffer \o new \in Seq(Piece)
      /\ Len(buffer \o new) = Len(buffer) + Len(new)
      /\ \A i \in 1 .. Len(buffer) + Len(new) :
           (buffer \o new)[i] = IF i <= Len(buffer) THEN buffer[i] ELSE new[i - Len(buffer)]
  BY <1>2, <1>3, ConcatProperties
<1>5. buffer' = buffer \o new
  BY <1>1 DEF new
<1>6. \A i \in 1 .. n - pos : buffer'[Len(buffer) + i] = new[i]
  BY <1>2, <1>3, <1>4, <1>5
<1>7. \A i \in 1 .. Len(buffer) : buffer'[i] = buffer[i]
  BY <1>2, <1>3, <1>4, <1>5
<1> QED  BY <1>1, <1>2, <1>3, <1>4, <1>5, <1>6, <1>7 DEF Filled

(* What WriteLine and FinishLine may put into the log. *)
Whole ==
  /\ torn = FALSE /\ torn' = FALSE /\ written' = written + 1
  /\ Wrote([line |-> written', part |-> "whole"])

First ==
  /\ torn = FALSE /\ torn' = TRUE /\ written' = written + 1
  /\ Wrote([line |-> written', part |-> "first"])

Last ==
  /\ torn = TRUE /\ torn' = FALSE /\ written' = written
  /\ Wrote([line |-> written', part |-> "last"])

LEMMA XrayWrites ==
  ASSUME TypeOK, WriteLine \/ FinishLine
  PROVE  /\ content' \in [File -> Seq(Piece)]
         /\ UNCHANGED <<path, created, xray, tailVars, queued, historyVars, bounds>>
         /\ written' \in 1 .. MaxLines
         /\ \/ Whole \/ First \/ Last
<1>1. CASE WriteLine
  <2>1. written + 1 \in 1 .. MaxLines /\ written' = written + 1 /\ torn = FALSE
    BY <1>1, TailAssumption DEF WriteLine, TypeOK, TailAssumption
  <2>2. CASE Put(written', "whole") /\ torn' = torn
    <3>1. /\ Wrote([line |-> written', part |-> "whole"])
          /\ content' \in [File -> Seq(Piece)]
          /\ UNCHANGED <<path, created, xray, tailVars, queued, historyVars, bounds>>
      BY <2>1, <2>2, PutFacts DEF Parts
    <3> QED  BY <2>1, <2>2, <3>1 DEF Whole
  <2>3. CASE Put(written', "first") /\ torn' = TRUE
    <3>1. /\ Wrote([line |-> written', part |-> "first"])
          /\ content' \in [File -> Seq(Piece)]
          /\ UNCHANGED <<path, created, xray, tailVars, queued, historyVars, bounds>>
      BY <2>1, <2>3, PutFacts DEF Parts
    <3> QED  BY <2>1, <2>3, <3>1 DEF First
  <2> QED  BY <1>1, <2>2, <2>3 DEF WriteLine
<1>2. CASE FinishLine
  <2>1. written \in 1 .. MaxLines /\ torn = TRUE
    BY <1>2, TailAssumption DEF FinishLine, TypeOK, TailAssumption
  <2>2. Put(written, "last") /\ torn' = FALSE /\ written' = written
    BY <1>2 DEF FinishLine
  <2>3. /\ Wrote([line |-> written, part |-> "last"])
        /\ content' \in [File -> Seq(Piece)]
        /\ UNCHANGED <<path, created, xray, tailVars, queued, historyVars, bounds>>
    BY <2>1, <2>2, PutFacts DEF Parts
  <2> QED  BY <2>1, <2>2, <2>3 DEF Last
<1> QED  BY <1>1, <1>2

-----------------------------------------------------------------------------

LEMMA EmptyFacts == ASSUME NEW S PROVE <<>> \in Seq(S) /\ Len(<<>>) = 0
  BY EmptySeq

LEMMA TypeInitially == Init => TypeOK
<1> SUFFICES ASSUME Init PROVE TypeOK
  OBVIOUS
<1>1. content \in [File -> Seq(Piece)] /\ buffer \in Seq(Piece) /\ emitted \in Seq(Event)
  BY EmptyFacts DEF Init
<1>2. 1 \in File /\ 0 \in 0 .. MaxLines /\ 0 \in 0 .. Capacity
  BY TailAssumption DEF TailAssumption, File
<1>3. written \in 0 .. MaxLines /\ queued \in 0 .. Capacity /\ torn = FALSE /\ shrunk = FALSE
  BY <1>2 DEF Init
<1>4. path \in File /\ created \in File /\ xray \in File /\ file = NoFile /\ inode = NoFile
  BY <1>2 DEF Init
<1> QED
  BY <1>1, <1>3, <1>4 DEF Init, TypeOK, NoEvent

LEMMA TypeStep == TypeOK /\ [Next]_vars => TypeOK'
<1> SUFFICES ASSUME TypeOK, [Next]_vars PROVE TypeOK'
  OBVIOUS
<1> USE DEF logVars, tailVars, historyVars, bounds
<1>1. CASE WriteLine \/ FinishLine
  <2>1. /\ content' \in [File -> Seq(Piece)]
        /\ UNCHANGED <<path, created, xray, tailVars, queued, historyVars, bounds>>
        /\ written' \in 1 .. MaxLines /\ (Whole \/ First \/ Last)
    BY <1>1, XrayWrites
  <2>2. torn' \in BOOLEAN
    BY <2>1 DEF Whole, First, Last
  <2>3. \A f \in File : Size(f)' >= Size(f)
    <3>1. PICK piece : Wrote(piece)
      BY <2>1 DEF Whole, First, Last
    <3>2. xray \in File /\ \A f \in File : Size(f) \in Nat
      BY SeqFacts DEF TypeOK
    <3> QED  BY <3>1, <3>2 DEF Wrote, Size
  <2>4. ASSUME file # NoFile, shrunk = FALSE PROVE pos <= Size(file)'
    <3>1. file \in File /\ pos <= Size(file) /\ pos \in Nat
      BY <2>4 DEF TypeOK
    <3>2. Size(file) \in Nat /\ Size(file)' \in Nat
      BY <2>1, <3>1, SeqFacts DEF Size
    <3>3. file' = file /\ Size(file)' >= Size(file)
      BY <2>1, <2>3, <3>1 DEF Size
    <3> QED  BY <3>1, <3>2, <3>3
  <2>5. written' \in 0 .. MaxLines /\ written' > 0
    BY <2>1
  <2> QED  BY <2>1, <2>2, <2>4, <2>5 DEF TypeOK
<1>2. CASE ReopenLog \/ CreateLog \/ RenameLog
  <2>1. Create => created' \in File /\ path' \in File
    BY TailAssumption DEF Create, TypeOK, File, TailAssumption
  <2>2. created' \in File /\ path' \in File \cup {NoFile} /\ xray' \in File
    BY <1>2, <2>1 DEF ReopenLog, CreateLog, RenameLog, TypeOK
  <2>3. UNCHANGED <<content, written, torn, tailVars, queued, historyVars, bounds>>
    BY <1>2 DEF ReopenLog, CreateLog, RenameLog
  <2> QED  BY <2>2, <2>3 DEF TypeOK, Size
<1>3. CASE CopyTruncate
  <2>1. /\ path \in File /\ content' = [content EXCEPT ![path] = <<>>]
        /\ shrunk' = (shrunk \/ (path = file /\ pos > 0))
        /\ UNCHANGED <<path, created, xray, written, torn, tailVars, queued, emitted, start, crashes>>
        /\ truncations' \in Nat /\ cuts' \in Nat
        /\ joints' = joints \/ (buffer # <<>> /\ joints' = joints \cup {Len(buffer)})
    BY <1>3 DEF CopyTruncate, TypeOK
  <2>2. content' \in [File -> Seq(Piece)] /\ \A f \in File : f # path => content'[f] = content[f]
    BY <2>1, EmptyFacts DEF TypeOK
  <2>3. shrunk' \in BOOLEAN
    BY <2>1 DEF TypeOK
  <2>4. ASSUME file # NoFile, ~shrunk' PROVE pos <= Size(file)'
    <3>1. ~shrunk /\ (path = file => ~(pos > 0))
      BY <2>1, <2>4
    <3>2. CASE path = file
      <4>1. Size(file)' = 0
        BY <2>1, <3>2, EmptyFacts DEF TypeOK, Size
      <4>2. pos \in Nat /\ ~(pos > 0)
        BY <3>1, <3>2 DEF TypeOK
      <4> QED  BY <4>1, <4>2
    <3>3. CASE path # file
      <4>1. file \in File /\ pos <= Size(file)
        BY <2>4, <3>1 DEF TypeOK
      <4> QED  BY <2>1, <2>2, <3>3, <4>1 DEF Size
    <3> QED  BY <3>2, <3>3
  <2>5. joints' \subseteq 1 .. Len(buffer)
    <3>1. buffer # <<>> => Len(buffer) \in 1 .. Len(buffer)
      BY EmptySeq, SeqFacts DEF TypeOK
    <3>2. joints \subseteq 1 .. Len(buffer)
      BY DEF TypeOK
    <3>3. joints' = joints \/ (buffer # <<>> /\ joints' = joints \cup {Len(buffer)})
      BY <2>1
    <3> QED  BY <3>1, <3>2, <3>3
  <2> QED  BY <2>1, <2>2, <2>3, <2>4, <2>5 DEF TypeOK
<1>4. CASE OpenAtEnd
  <2>1. path \in File /\ pos' = Size(path) /\ file' = path /\ content' = content
    BY <1>4 DEF OpenAtEnd, TypeOK
  <2>2. Size(path) \in Nat
    BY <2>1, SeqFacts
  <2>3. file' # NoFile /\ ~shrunk' => pos' <= Size(file)'
    BY <2>1, <2>2 DEF Size
  <2>4. file' # NoFile
    BY <2>1 DEF File, NoFile
  <2> QED  BY <1>4, <2>1, <2>2, <2>3, <2>4 DEF OpenAtEnd, TypeOK
<1>5. CASE ReturnLine
  <2>1. PICK n \in 1 .. Len(buffer) : Returned(n)
    BY <1>5, ReturnFacts
  <2>2. /\ pc = "read"
        /\ UNCHANGED <<logVars, file, inode, pos, queued, emitted, start, shrunk, cuts, bounds>>
    BY <1>5 DEF ReturnLine
  <2>3. event = NoEvent /\ file # NoFile
    BY <2>2 DEF TypeOK
  <2>4. NoEvent \notin Event
    BY DEF Event, NoEvent
  <2>5. buffer' \in Seq(Piece) /\ (UNCHANGED <<pc, event>> \/ (event' \in Event /\ pc' = "send"))
    BY <2>1 DEF Returned
  <2>8. joints' \subseteq 1 .. Len(buffer')
    BY <2>1, SeqFacts DEF Returned, TypeOK
  <2>6. CASE UNCHANGED <<pc, event>>
    BY <2>2, <2>3, <2>5, <2>6, <2>8 DEF TypeOK, Size
  <2>7. CASE event' \in Event /\ pc' = "send"
    BY <2>2, <2>3, <2>4, <2>5, <2>7, <2>8 DEF TypeOK, Size
  <2> QED  BY <2>5, <2>6, <2>7
<1>6. CASE FillBuffer
  <2>1. file \in File
    BY <1>6 DEF FillBuffer, TypeOK
  <2>2. PICK n \in pos + 1 .. Size(file) : Filled(n)
    BY <1>6, <2>1, FillFacts
  <2>3. /\ pos' \in Nat /\ pos' <= Size(file) /\ buffer' \in Seq(Piece)
        /\ joints \subseteq 1 .. Len(buffer')
    BY <2>1, <2>2, SeqFacts DEF Filled, TypeOK
  <2> QED  BY <1>6, <2>3 DEF FillBuffer, TypeOK, Size
<1>7. CASE ReachEnd \/ CheckRotation
  <2>1. /\ buffer' \in Seq(Piece) /\ inode' \in File \cup {NoFile}
        /\ joints' \subseteq 1 .. Len(buffer')
    BY <1>7, EmptyFacts DEF ReachEnd, CheckRotation, TypeOK
  <2>2. /\ pc \in {"read", "eof", "stat"} /\ pc' \in {"read", "eof", "reopen"}
        /\ UNCHANGED <<logVars, file, pos, event, queued, emitted, start, shrunk, cuts, bounds>>
    BY <1>7 DEF ReachEnd, CheckRotation
  <2> QED  BY <2>1, <2>2 DEF TypeOK, Size
<1>8. ASSUME Close, UNCHANGED logVars, queued' \in 0 .. Capacity, emitted' = emitted,
             truncations' \in Nat, crashes' \in Nat
      PROVE  TypeOK'
  BY <1>8, EmptyFacts DEF Close, TypeOK, NoFile, NoEvent
<1>9. CASE ReadFails
  BY <1>8, <1>9 DEF ReadFails, TypeOK
<1>10. CASE CheckSize
  <2>1. CASE Size(file) < pos
    <3>1. /\ pc = "eof" /\ pc' = "read" /\ pos' = 0 /\ start' = 0 /\ shrunk' = FALSE
          /\ UNCHANGED <<logVars, file, inode, buffer, event, queued, emitted, joints, cuts, bounds>>
      BY <1>10, <2>1 DEF CheckSize
    <3>2. file \in File /\ pos' <= Size(file)'
      BY <3>1, SeqFacts DEF TypeOK, Size
    <3> QED  BY <3>1, <3>2 DEF TypeOK
  <2>2. CASE ~(Size(file) < pos)
    BY <1>10, <2>2 DEF CheckSize, TypeOK, Size
  <2> QED  BY <2>1, <2>2
<1>11. CASE Reopen
  <2>1. CASE path = NoFile /\ Close
    BY <1>8, <1>11, <2>1 DEF Reopen, TypeOK
  <2>2. CASE path # NoFile /\ file' = path /\ pos' = 0 /\ start' = 0 /\ shrunk' = FALSE
             /\ pc' = "read" /\ UNCHANGED <<inode, buffer, event, joints, cuts>>
    <3>1. pos' <= Size(file)'
      BY <1>11, <2>2, SeqFacts DEF Reopen, TypeOK, Size
    <3>2. pc = "reopen" /\ UNCHANGED <<logVars, queued, emitted, bounds>>
      BY <1>11 DEF Reopen
    <3> QED  BY <2>2, <3>1, <3>2 DEF TypeOK
  <2> QED  BY <1>11, <2>1, <2>2 DEF Reopen
<1>12. CASE Send
  <2>1. event \in Event
    BY <1>12 DEF Send, TypeOK
  <2>2. emitted' \in Seq(Event) /\ queued' \in 0 .. Capacity
    BY <1>12, <2>1, AppendProperties, TailAssumption DEF Send, TypeOK, TailAssumption
  <2> QED  BY <1>12, <2>2 DEF Send, TypeOK, Size
<1>13. CASE TakeEvent
  <2>1. queued' \in 0 .. Capacity
    BY <1>13, TailAssumption DEF TakeEvent, TypeOK, TailAssumption
  <2> QED  BY <1>13, <2>1 DEF TakeEvent, TypeOK, Size
<1>14. CASE Crash
  <2>1. 0 \in 0 .. Capacity
    BY TailAssumption DEF TailAssumption
  <2> QED  BY <1>8, <1>14, <2>1 DEF Crash, TypeOK
<1>15. CASE UNCHANGED vars
  BY <1>15 DEF vars, TypeOK, Size
<1> QED
  BY <1>1, <1>2, <1>3, <1>4, <1>5, <1>6, <1>7, <1>9, <1>10, <1>11, <1>12, <1>13, <1>14, <1>15
  DEF Next, LogStep, TailStep

(***************************************************************************)
(* Every variable keeps its type; the tail never stands behind the end of  *)
(* a file that was not truncated.                                          *)
(***************************************************************************)
THEOREM TypeCorrect == Spec => []TypeOK
  BY TypeInitially, TypeStep, PTL DEF Spec

-----------------------------------------------------------------------------
(* Where the files are *)

Layout ==
  /\ path \in {NoFile, created}
  /\ xray <= created
  /\ file <= created
  /\ \A f \in File : f > xray => Size(f) = 0
  /\ pc \notin {"read", "send"} => Len(buffer) = 0

LEMMA LayoutInitially == Init => Layout
  BY EmptyFacts DEF Init, Layout, Size, NoFile

LEMMA LayoutStep == TypeOK /\ Layout /\ [Next]_vars => Layout'
<1> SUFFICES ASSUME TypeOK, Layout, [Next]_vars PROVE Layout'
  OBVIOUS
<1> USE DEF logVars, tailVars, historyVars, bounds
<1>1. CASE WriteLine \/ FinishLine
  <2>1. PICK piece : Wrote(piece)
    BY <1>1, XrayWrites DEF Whole, First, Last
  <2>2. UNCHANGED <<path, created, xray, pc, file, buffer>>
    BY <1>1, XrayWrites
  <2>3. \A f \in File : f > xray => Size(f)' = 0
    BY <2>1 DEF Wrote, Layout, Size, TypeOK, File
  <2> QED  BY <2>2, <2>3 DEF Layout, Size
<1>2. CASE ReopenLog \/ CreateLog \/ RenameLog
  <2>1. Create => created' = created + 1 /\ path' = created'
    BY DEF Create
  <2>2. /\ created \in Nat /\ xray \in Nat /\ file \in Nat /\ created' \in Nat
        /\ UNCHANGED <<content, file, pc, buffer>>
    BY <1>2, <2>1 DEF ReopenLog, CreateLog, RenameLog, TypeOK, File, NoFile
  <2>3. created' >= created /\ path' \in {NoFile, created'}
    BY <1>2, <2>1, <2>2 DEF ReopenLog, CreateLog, RenameLog, Layout
  <2>4. xray' = xray \/ xray' = created'
    BY <1>2, <2>1 DEF ReopenLog, CreateLog, RenameLog, Layout
  <2>5. xray <= xray' /\ xray' <= created' /\ file <= created'
    BY <2>2, <2>3, <2>4 DEF Layout
  <2>6. \A f \in File : f > xray' => Size(f)' = 0
    BY <2>2, <2>4, <2>5 DEF Layout, Size, File
  <2> QED  BY <2>2, <2>3, <2>5, <2>6 DEF Layout
<1>3. CASE CopyTruncate
  <2>1. \A f \in File : Size(f)' = 0 \/ Size(f)' = Size(f)
    BY <1>3, EmptyFacts DEF CopyTruncate, Size, TypeOK
  <2>2. UNCHANGED <<path, created, xray, pc, file, buffer>>
    BY <1>3 DEF CopyTruncate
  <2> QED  BY <2>1, <2>2 DEF Layout
<1>4. ASSUME UNCHANGED <<path, created, xray, content>>,
             file' <= created, Len(buffer') = 0 \/ pc' \in {"read", "send"}
      PROVE  Layout'
  BY <1>4 DEF Layout, Size
<1>5. CASE ReturnLine \/ FillBuffer \/ Send
  BY <1>4, <1>5 DEF ReturnLine, FillBuffer, Send, Layout
<1>6. CASE OpenAtEnd
  <2>1. path = created /\ created <= created
    BY <1>6 DEF OpenAtEnd, Layout, TypeOK, File
  <2> QED  BY <1>4, <1>6, <2>1 DEF OpenAtEnd
<1>7. CASE ReachEnd \/ CheckSize \/ CheckRotation
  BY <1>4, <1>7, EmptyFacts DEF ReachEnd, CheckSize, CheckRotation, Layout
<1>8. ASSUME Close, UNCHANGED logVars
      PROVE  Layout'
  <2>1. NoFile <= created
    BY DEF TypeOK, File, NoFile
  <2> QED  BY <1>4, <1>8, <2>1, EmptyFacts DEF Close
<1>9. CASE ReadFails \/ Crash
  BY <1>8, <1>9 DEF ReadFails, Crash
<1>10. CASE Reopen
  <2>1. created <= created
    BY DEF TypeOK, File
  <2> QED  BY <1>4, <1>8, <1>10, <2>1 DEF Reopen, Layout
<1>11. CASE TakeEvent \/ UNCHANGED vars
  BY <1>4, <1>11 DEF TakeEvent, vars, Layout
<1> QED
  BY <1>1, <1>2, <1>3, <1>5, <1>6, <1>7, <1>9, <1>10, <1>11
  DEF Next, LogStep, TailStep

(* While the log is not rotated a second time, the tail knows its file. *)
Inode ==
  /\ pc \in {"read", "send", "eof", "stat"} => inode = file
  /\ pc = "reopen" => inode > file /\ path \in {inode, NoFile}

LEMMA InodeStep ==
  ASSUME "rerotated" \notin Faults
  PROVE  TypeOK /\ Layout /\ Inode /\ [Next]_vars => Inode'
<1> SUFFICES ASSUME TypeOK, Layout, Inode, [Next]_vars PROVE Inode'
  OBVIOUS
<1> USE DEF logVars, tailVars, historyVars, bounds
<1>1. CASE WriteLine \/ FinishLine
  BY <1>1, XrayWrites DEF Inode
<1>2. CASE ReopenLog \/ CreateLog \/ RenameLog
  <2>1. UNCHANGED <<pc, inode, file>>
    BY <1>2 DEF ReopenLog, CreateLog, RenameLog
  <2>2. pc = "reopen" => path' \in {path, NoFile}
    BY <1>2 DEF ReopenLog, CreateLog, RenameLog, Create
  <2> QED  BY <2>1, <2>2 DEF Inode
<1>3. CASE CopyTruncate \/ TakeEvent
  BY <1>3 DEF CopyTruncate, TakeEvent, Inode
<1>4. CASE OpenAtEnd
  BY <1>4 DEF OpenAtEnd, Inode
<1>5. CASE ReturnLine
  <2>1. pc = "read" /\ pc' \in {"read", "send"} /\ UNCHANGED <<inode, file>>
    BY <1>5, ReturnFacts DEF ReturnLine, Returned
  <2> QED  BY <2>1 DEF Inode
<1>6. CASE FillBuffer \/ Send \/ ReachEnd \/ CheckSize
  BY <1>6 DEF FillBuffer, Send, ReachEnd, CheckSize, Inode
<1>7. CASE CheckRotation
  <2>1. CASE path \in {NoFile, inode}
    BY <1>7, <2>1 DEF CheckRotation, Inode
  <2>2. CASE path \notin {NoFile, inode}
    <3>1. path = created /\ path # file /\ file <= path
      BY <1>7, <2>2 DEF CheckRotation, Layout, Inode
    <3>2. path > file
      BY <3>1 DEF TypeOK, File, NoFile
    <3> QED  BY <1>7, <2>2, <3>2 DEF CheckRotation, Inode
  <2> QED  BY <2>1, <2>2
<1>8. CASE Close
  BY <1>8 DEF Close, Inode
<1>9. CASE Reopen
  BY <1>8, <1>9 DEF Reopen, Inode
<1>10. CASE UNCHANGED vars
  BY <1>10 DEF vars, Inode
<1> QED
  BY <1>1, <1>2, <1>3, <1>4, <1>5, <1>6, <1>7, <1>8, <1>9, <1>10
  DEF Next, LogStep, TailStep, ReadFails, Crash

-----------------------------------------------------------------------------
(* The order of the lines *)

Ends(piece) == piece.part # "first"

(* The line is complete: Xray writes later ones only. *)
Complete(line) == line <= written /\ (torn = TRUE => line < written)

CompleteNext(line) == line <= written' /\ (torn' = TRUE => line < written')

LinesComplete ==
  \A f \in File : \A i \in 1 .. Size(f) :
    Ends(content[f][i]) => Complete(content[f][i].line)

LinesInOrder ==
  \A f, g \in File : \A i \in 1 .. Size(f), j \in 1 .. Size(g) :
    /\ Ends(content[f][i]) /\ Ends(content[g][j])
    /\ f < g \/ (f = g /\ i < j)
    => content[f][i].line < content[g][j].line

LEMMA CompleteStep ==
  ASSUME TypeOK, [Next]_vars, NEW line \in Nat, Complete(line)
  PROVE  CompleteNext(line)
<1>1. CASE WriteLine \/ FinishLine
  <2>1. Whole \/ First \/ Last
    BY <1>1, XrayWrites
  <2> QED  BY <2>1 DEF Whole, First, Last, Complete, CompleteNext, TypeOK
<1>2. CASE UNCHANGED <<written, torn>>
  BY <1>2 DEF Complete, CompleteNext
<1> QED
  BY <1>1, <1>2
  DEF Next, LogStep, ReopenLog, CreateLog, RenameLog, CopyTruncate, TailStep, OpenAtEnd,
      ReturnLine, FillBuffer, ReachEnd, ReadFails, CheckSize, CheckRotation, Reopen,
      Send, TakeEvent, Crash, vars, logVars

LEMMA NewPieceIsLast ==
  ASSUME TypeOK, NEW piece, Whole \/ Last, Wrote(piece)
  PROVE  /\ piece.line = written' /\ torn' = FALSE
         /\ \A line \in Nat : Complete(line) => line < piece.line
<1>1. piece.line = written'
  BY DEF Whole, Last, Wrote
<1> QED  BY <1>1 DEF Whole, Last, Complete, TypeOK

LEMMA LinesStep ==
  TypeOK /\ Layout /\ LinesComplete /\ LinesInOrder /\ [Next]_vars =>
    LinesComplete' /\ LinesInOrder'
<1> SUFFICES ASSUME TypeOK, Layout, LinesComplete, LinesInOrder, [Next]_vars
             PROVE  LinesComplete' /\ LinesInOrder'
  OBVIOUS
<1> USE DEF logVars, tailVars, historyVars, bounds
<1>1. CASE WriteLine \/ FinishLine
  <2>1. Whole \/ First \/ Last
    BY <1>1, XrayWrites
  <2>2. PICK piece : Wrote(piece) /\ (piece.part = "first" \/ ((Whole \/ Last) /\ piece.line = written'))
    BY <2>1 DEF Whole, First, Last
  <2>3. xray \in File /\ xray \in Nat /\ \A f \in File : f \in Nat /\ Size(f) \in Nat
    BY SeqFacts DEF TypeOK, File
  <2> DEFINE Old(f, i) == f \in File /\ i \in 1 .. Size(f)
  <2>4. ASSUME NEW f \in File, NEW i \in 1 .. Size(f)'
        PROVE  \/ Old(f, i) /\ content'[f][i] = content[f][i]
               \/ f = xray /\ i = Size(xray) + 1 /\ content'[f][i] = piece
    <3>1. CASE f # xray
      BY <2>2, <2>4, <3>1 DEF Wrote, Size
    <3>2. CASE f = xray
      <4>1. Size(f)' = Size(xray) + 1
        BY <2>2, <3>2 DEF Wrote, Size
      <4>2. i \in 1 .. Size(xray) \/ i = Size(xray) + 1
        BY <2>3, <2>4, <4>1
      <4> QED  BY <2>2, <2>3, <3>2, <4>2 DEF Wrote
    <3> QED  BY <3>1, <3>2
  <2>5. \A f, i : Old(f, i) => content[f][i].line \in Nat
    BY SeqFacts DEF Piece
  <2>6. ASSUME NEW f \in File, NEW i \in 1 .. Size(f), Ends(content[f][i])
        PROVE  /\ content[f][i].line \in Nat
               /\ Complete(content[f][i].line) /\ CompleteNext(content[f][i].line)
    BY <2>5, <2>6, CompleteStep DEF LinesComplete
  <2>7. \A f, i : Old(f, i) /\ Ends(content[f][i]) /\ Ends(piece) => content[f][i].line < piece.line
    <3>1. CASE piece.part = "first"
      BY <3>1 DEF Ends
    <3>2. CASE Whole \/ Last
      BY <2>2, <2>5, <2>6, <3>2, NewPieceIsLast
    <3> QED  BY <2>2, <3>1, <3>2
  <2>8. Ends(piece) => CompleteNext(piece.line)
    <3>1. CASE piece.part = "first"
      BY <3>1 DEF Ends
    <3>2. CASE Whole \/ Last
      <4>1. piece.line = written' /\ torn' = FALSE
        BY <2>2, <3>2, NewPieceIsLast
      <4>2. written' \in Nat
        BY <1>1, XrayWrites
      <4> QED  BY <4>1, <4>2 DEF CompleteNext
    <3> QED  BY <2>2, <3>1, <3>2
  <2>9. \A f, i : Old(f, i) => f <= xray
    BY <2>3 DEF Layout
  <2> HIDE DEF Old
  <2>10. LinesComplete'
    <3>1. SUFFICES ASSUME NEW f \in File, NEW i \in 1 .. Size(f)', Ends(content'[f][i])
                   PROVE  CompleteNext(content'[f][i].line)
      BY DEF LinesComplete, Ends, Size, Complete, CompleteNext
    <3>2. CASE Old(f, i) /\ content'[f][i] = content[f][i]
      BY <2>6, <3>1, <3>2 DEF Old
    <3>3. CASE content'[f][i] = piece
      BY <2>8, <3>1, <3>3
    <3> QED  BY <2>4, <3>2, <3>3
  <2>11. LinesInOrder'
    <3>1. SUFFICES ASSUME NEW f \in File, NEW g \in File,
                          NEW i \in 1 .. Size(f)', NEW j \in 1 .. Size(g)',
                          Ends(content'[f][i]), Ends(content'[g][j]),
                          f < g \/ (f = g /\ i < j)
                   PROVE  content'[f][i].line < content'[g][j].line
      BY DEF LinesInOrder, Ends, Size
    <3>2. CASE Old(f, i) /\ content'[f][i] = content[f][i] /\ Old(g, j) /\ content'[g][j] = content[g][j]
      BY <3>1, <3>2 DEF LinesInOrder, Old
    <3>3. CASE Old(f, i) /\ content'[f][i] = content[f][i] /\ content'[g][j] = piece
      BY <2>7, <3>1, <3>3
    <3>4. CASE f = xray /\ i = Size(xray) + 1 /\ Old(g, j)
      <4>1. g <= xray /\ j <= Size(g) /\ j \in Nat
        BY <2>3, <2>9, <3>4 DEF Old
      <4>2. f \in Nat /\ g \in Nat /\ Size(xray) \in Nat
        BY <2>3
      <4>3. ~(f < g)
        BY <3>4, <4>1, <4>2
      <4>4. ~(f = g /\ i < j)
        BY <3>4, <4>1, <4>2
      <4> QED  BY <3>1, <4>3, <4>4
    <3>5. CASE f = xray /\ i = Size(xray) + 1 /\ g = xray /\ j = Size(xray) + 1
      BY <2>3, <3>1, <3>5
    <3> QED  BY <2>4, <3>2, <3>3, <3>4, <3>5
  <2> QED  BY <2>10, <2>11
<1>2. CASE CopyTruncate
  <2>1. \A f \in File : Size(f)' = 0 \/ content'[f] = content[f]
    BY <1>2, EmptyFacts DEF CopyTruncate, Size, TypeOK
  <2>2. UNCHANGED <<written, torn>>
    BY <1>2 DEF CopyTruncate
  <2>3. \A f \in File : \A i \in 1 .. Size(f)' : i \in 1 .. Size(f) /\ content'[f][i] = content[f][i]
    BY <2>1 DEF Size
  <2>4. LinesComplete'
    BY <2>2, <2>3 DEF LinesComplete, Complete, Ends, Size
  <2>5. LinesInOrder'
    <3>1. SUFFICES ASSUME NEW f \in File, NEW g \in File,
                          NEW i \in 1 .. Size(f)', NEW j \in 1 .. Size(g)',
                          Ends(content'[f][i]), Ends(content'[g][j]),
                          f < g \/ (f = g /\ i < j)
                   PROVE  content'[f][i].line < content'[g][j].line
      BY DEF LinesInOrder, Ends, Size
    <3> QED  BY <2>3, <3>1 DEF LinesInOrder
  <2> QED  BY <2>4, <2>5
<1>3. CASE UNCHANGED <<content, written, torn>>
  BY <1>3 DEF LinesComplete, LinesInOrder, Complete, Size
<1> QED
  BY <1>1, <1>2, <1>3
  DEF Next, LogStep, ReopenLog, CreateLog, RenameLog, TailStep, OpenAtEnd,
      ReturnLine, FillBuffer, ReachEnd, ReadFails, CheckSize, CheckRotation, Reopen,
      Send, TakeEvent, Crash, vars

-----------------------------------------------------------------------------
(* The order of what was read *)

(* Later than everything that has left the buffer. *)
Above(line) ==
  /\ \A e \in 1 .. Len(emitted) : emitted[e].uuid < line
  /\ event.uuid < line

(* The i-th piece of f is still to be read: f is newer than the tail's file,
   or the piece lies behind the offset, or the file has been truncated. *)
Unread(f, i) == f > file \/ (f = file /\ (i > pos \/ Size(f) < pos))

ReadComplete ==
  /\ \A e \in 1 .. Len(emitted) : Complete(emitted[e].uuid)
  /\ Complete(event.uuid)
  /\ \A b \in 1 .. Len(buffer) : Ends(buffer[b]) => Complete(buffer[b].line)

SentInOrder ==
  /\ \A i, j \in 1 .. Len(emitted) : i < j => emitted[i].uuid < emitted[j].uuid
  /\ event # NoEvent => \A e \in 1 .. Len(emitted) : emitted[e].uuid < event.uuid

BufferInOrder ==
  /\ \A b \in 1 .. Len(buffer) : Ends(buffer[b]) => Above(buffer[b].line)
  /\ \A b, c \in 1 .. Len(buffer) :
       b < c /\ Ends(buffer[b]) /\ Ends(buffer[c]) => buffer[b].line < buffer[c].line

UnreadInOrder ==
  file # NoFile =>
    \A f \in File : \A i \in 1 .. Size(f) :
      Unread(f, i) /\ Ends(content[f][i]) =>
        /\ Above(content[f][i].line)
        /\ \A b \in 1 .. Len(buffer) :
             Ends(buffer[b]) => buffer[b].line < content[f][i].line

OrderInv ==
  /\ LinesComplete
  /\ LinesInOrder
  /\ ReadComplete
  /\ SentInOrder
  /\ BufferInOrder
  /\ UnreadInOrder

LEMMA LineTypes ==
  ASSUME TypeOK
  PROVE  /\ \A e \in 1 .. Len(emitted) : emitted[e].uuid \in Nat
         /\ event.uuid \in Nat
         /\ \A b \in 1 .. Len(buffer) : buffer[b].line \in Nat \ {0}
         /\ \A f \in File : \A i \in 1 .. Size(f) : content[f][i].line \in Nat \ {0}
<1>1. event.uuid \in Nat
  BY TailAssumption DEF TypeOK, Event, NoEvent, TailAssumption
<1>2. \A b \in 1 .. Len(buffer) : buffer[b].line \in Nat \ {0}
  BY SeqFacts, TailAssumption DEF Piece, TailAssumption
<1>3. \A f \in File : \A i \in 1 .. Size(f) : content[f][i].line \in Nat \ {0}
  BY SeqFacts, TailAssumption DEF Piece, TailAssumption
<1>4. \A e \in 1 .. Len(emitted) : emitted[e].uuid \in Nat
  BY SeqFacts, TailAssumption DEF Event, TailAssumption
<1> QED  BY <1>1, <1>2, <1>3, <1>4

LEMMA OrderInitially == Init => OrderInv
<1> SUFFICES ASSUME Init PROVE OrderInv
  OBVIOUS
<1>1. /\ Len(emitted) = 0 /\ Len(buffer) = 0 /\ \A f \in File : Size(f) = 0
      /\ written = 0 /\ torn = FALSE /\ event.uuid = 0 /\ event = NoEvent
  BY EmptyFacts DEF Init, Size, NoEvent
<1> QED
  BY <1>1
  DEF OrderInv, LinesComplete, LinesInOrder, ReadComplete, SentInOrder, BufferInOrder,
      UnreadInOrder, Complete, Above

(* Complete lines stay complete. *)
LEMMA ReadCompleteStays ==
  ASSUME TypeOK, ReadComplete, [Next]_vars
  PROVE  /\ \A e \in 1 .. Len(emitted) : CompleteNext(emitted[e].uuid)
         /\ CompleteNext(event.uuid)
         /\ \A b \in 1 .. Len(buffer) : Ends(buffer[b]) => CompleteNext(buffer[b].line)
<1>1. \A line \in Nat : Complete(line) => CompleteNext(line)
  BY CompleteStep
<1> QED  BY <1>1, LineTypes DEF ReadComplete

(* The log changes under the tail. *)
LEMMA LogKeepsOrder ==
  ASSUME TypeOK, Layout, OrderInv, LogStep, [Next]_vars
  PROVE  ReadComplete' /\ SentInOrder' /\ BufferInOrder' /\ UnreadInOrder'
<1> USE DEF logVars, tailVars, historyVars, bounds
<1>1. UNCHANGED <<file, pos, buffer, event, emitted>>
  BY XrayWrites DEF LogStep, ReopenLog, RenameLog, CreateLog, CopyTruncate
<1>2. ReadComplete' /\ SentInOrder' /\ BufferInOrder'
  BY <1>1, ReadCompleteStays
  DEF OrderInv, ReadComplete, SentInOrder, BufferInOrder, Above, Complete, CompleteNext
<1>3. ASSUME NEW f \in File, NEW i \in 1 .. Size(f)', file # NoFile,
             Unread(f, i)', Ends(content'[f][i]),
             \/ /\ i \in 1 .. Size(f) /\ content'[f][i] = content[f][i] /\ Unread(f, i)
             \/ content'[f][i].line = written' /\ (Whole \/ Last)
      PROVE  /\ Above(content'[f][i].line)
             /\ \A b \in 1 .. Len(buffer) : Ends(buffer[b]) => buffer[b].line < content'[f][i].line
  <2>1. CASE i \in 1 .. Size(f) /\ content'[f][i] = content[f][i] /\ Unread(f, i)
    BY <1>3, <2>1 DEF OrderInv, UnreadInOrder
  <2>2. CASE content'[f][i].line = written' /\ (Whole \/ Last)
    <3>1. \A line \in Nat : Complete(line) => line < written'
      BY <2>2 DEF Whole, Last, Complete, TypeOK
    <3> QED  BY <2>2, <3>1, LineTypes DEF OrderInv, ReadComplete, Above
  <2> QED  BY <1>3, <2>1, <2>2
<1>4. ASSUME NEW f \in File, NEW i \in 1 .. Size(f)', file # NoFile,
             Unread(f, i)', Ends(content'[f][i])
      PROVE  \/ /\ i \in 1 .. Size(f) /\ content'[f][i] = content[f][i] /\ Unread(f, i)
             \/ content'[f][i].line = written' /\ (Whole \/ Last)
  <2>1. CASE WriteLine \/ FinishLine
    <3>1. Whole \/ First \/ Last
      BY <2>1, XrayWrites
    <3>2. PICK piece : Wrote(piece) /\ (piece.part = "first" \/ ((Whole \/ Last) /\ piece.line = written'))
      BY <3>1 DEF Whole, First, Last
    <3>3. CASE f # xray
      BY <1>1, <1>4, <3>2, <3>3 DEF Wrote, Size, Unread
    <3>4. CASE f = xray
      <4>1. Size(f)' = Size(f) + 1 /\ Size(f) \in Nat /\ pos \in Nat
        BY <3>2, <3>4, SeqFacts DEF Wrote, Size, TypeOK
      <4>2. CASE i = Size(f) + 1
        BY <1>4, <3>2, <3>4, <4>2 DEF Wrote, Ends
      <4>3. CASE i \in 1 .. Size(f)
        <5>1. content'[f][i] = content[f][i]
          BY <3>2, <3>4, <4>3 DEF Wrote
        <5>2. Unread(f, i)
          BY <1>1, <1>4, <4>1 DEF Unread, Size
        <5> QED  BY <4>3, <5>1, <5>2
      <4> QED  BY <1>4, <4>1, <4>2, <4>3
    <3> QED  BY <3>3, <3>4
  <2>2. CASE CopyTruncate
    <3>1. Size(f)' = 0 \/ content'[f] = content[f]
      BY <2>2, EmptyFacts DEF CopyTruncate, Size, TypeOK
    <3> QED  BY <1>1, <1>4, <3>1 DEF Unread, Size
  <2>3. CASE content' = content
    BY <1>1, <1>4, <2>3 DEF Unread, Size
  <2> QED  BY <2>1, <2>2, <2>3 DEF LogStep, ReopenLog, RenameLog, CreateLog
<1>5. UnreadInOrder'
  BY <1>1, <1>3, <1>4 DEF UnreadInOrder, Above, Size, Ends
<1> QED  BY <1>2, <1>5

(* The tail closes its file. *)
LEMMA CloseKeepsOrder ==
  ASSUME TypeOK, OrderInv, [Next]_vars, Close, emitted' = emitted
  PROVE  ReadComplete' /\ SentInOrder' /\ BufferInOrder' /\ UnreadInOrder'
<1>1. event' = NoEvent /\ event'.uuid = 0 /\ Len(buffer') = 0 /\ file' = NoFile
  BY EmptyFacts DEF Close, NoEvent
<1>2. CompleteNext(0)
  <2>1. Complete(0)
    BY DEF Complete, TypeOK
  <2> QED  BY <2>1, CompleteStep
<1>3. /\ \A e \in 1 .. Len(emitted) : CompleteNext(emitted[e].uuid)
      /\ CompleteNext(event.uuid)
      /\ \A b \in 1 .. Len(buffer) : Ends(buffer[b]) => CompleteNext(buffer[b].line)
  BY ReadCompleteStays DEF OrderInv
<1> QED
  BY <1>1, <1>2, <1>3
  DEF OrderInv, ReadComplete, SentInOrder, BufferInOrder, UnreadInOrder, Complete, CompleteNext

(* The tail moves, and neither returns a line nor reads one: what was unread
   stays so, or is nothing. *)
LEMMA MoveKeepsOrder ==
  ASSUME TypeOK, OrderInv, [Next]_vars,
         UNCHANGED <<content, emitted, event>>,
         buffer' = buffer \/ Len(buffer') = 0,
         \A f \in File : \A i \in 1 .. Size(f) : Unread(f, i)' => file # NoFile /\ Unread(f, i)
  PROVE  ReadComplete' /\ SentInOrder' /\ BufferInOrder' /\ UnreadInOrder'
<1>1. /\ \A e \in 1 .. Len(emitted) : CompleteNext(emitted[e].uuid)
      /\ CompleteNext(event.uuid)
      /\ \A b \in 1 .. Len(buffer) : Ends(buffer[b]) => CompleteNext(buffer[b].line)
  BY ReadCompleteStays DEF OrderInv
<1>2. ReadComplete' /\ SentInOrder' /\ BufferInOrder'
  BY <1>1
  DEF OrderInv, ReadComplete, SentInOrder, BufferInOrder, Above, Complete, CompleteNext
<1>3. UnreadInOrder'
  BY DEF OrderInv, UnreadInOrder, Above, Size
<1> QED  BY <1>2, <1>3

LEMMA ReturnKeepsOrder ==
  ASSUME TypeOK, OrderInv, [Next]_vars, ReturnLine
  PROVE  ReadComplete' /\ SentInOrder' /\ BufferInOrder' /\ UnreadInOrder'
<1>1. PICK n \in 1 .. Len(buffer) : Returned(n)
  BY ReturnFacts
<1>2. /\ UNCHANGED <<content, emitted, file, pos>> /\ event = NoEvent
  BY DEF ReturnLine, TypeOK, logVars, historyVars
<1>3. /\ n \in Nat /\ n > 0 /\ Len(buffer) \in Nat /\ Len(buffer') = Len(buffer) - n
      /\ Ends(buffer[n])
  BY <1>1, SeqFacts DEF Returned, EndsLine, Ends
<1>4. \A b \in 1 .. Len(buffer') :
        b + n \in 1 .. Len(buffer) /\ b + n > n /\ buffer'[b] = buffer[b + n]
  BY <1>1, <1>3 DEF Returned
<1>5. event' = NoEvent \/ event'.uuid = buffer[n].line
  BY <1>1, <1>2 DEF Returned
<1>6. event'.uuid = 0 \/ event'.uuid = buffer[n].line
  BY <1>5 DEF NoEvent
<1>7. CompleteNext(event'.uuid)
  BY <1>2, <1>3, <1>5, ReadCompleteStays DEF OrderInv
<1>8. ReadComplete'
  <2>1. /\ \A e \in 1 .. Len(emitted) : CompleteNext(emitted[e].uuid)
        /\ \A b \in 1 .. Len(buffer) : Ends(buffer[b]) => CompleteNext(buffer[b].line)
    BY ReadCompleteStays DEF OrderInv
  <2> QED  BY <1>2, <1>4, <1>7, <2>1 DEF ReadComplete, Complete, CompleteNext, Ends
<1>9. SentInOrder'
  BY <1>2, <1>3, <1>5 DEF OrderInv, SentInOrder, BufferInOrder, Above
<1>10. BufferInOrder'
  <2>1. ASSUME NEW b \in 1 .. Len(buffer'), Ends(buffer'[b])
        PROVE  event'.uuid < buffer'[b].line /\ Above(buffer'[b].line)
    <3>1. Above(buffer[b + n].line) /\ buffer[n].line < buffer[b + n].line
      BY <1>3, <1>4, <2>1 DEF OrderInv, BufferInOrder
    <3>2. event.uuid = 0
      BY <1>2 DEF NoEvent
    <3> QED  BY <1>4, <1>6, <2>1, <3>1, <3>2 DEF Above
  <2>2. ASSUME NEW b \in 1 .. Len(buffer'), NEW c \in 1 .. Len(buffer'),
               b < c, Ends(buffer'[b]), Ends(buffer'[c])
        PROVE  buffer'[b].line < buffer'[c].line
    <3>1. b + n < c + n
      BY <1>3, <2>2
    <3> QED  BY <1>4, <2>2, <3>1 DEF OrderInv, BufferInOrder
  <2> QED  BY <1>2, <2>1, <2>2 DEF BufferInOrder, Above, Ends
<1>11. UnreadInOrder'
  <2>1. ASSUME file # NoFile, NEW f \in File, NEW i \in 1 .. Size(f), Unread(f, i), Ends(content[f][i])
        PROVE  /\ \A e \in 1 .. Len(emitted) : emitted[e].uuid < content[f][i].line
               /\ event'.uuid < content[f][i].line
               /\ \A b \in 1 .. Len(buffer') : Ends(buffer'[b]) => buffer'[b].line < content[f][i].line
    <3>1. /\ Above(content[f][i].line)
          /\ \A b \in 1 .. Len(buffer) : Ends(buffer[b]) => buffer[b].line < content[f][i].line
      BY <2>1 DEF OrderInv, UnreadInOrder
    <3>2. event.uuid = 0
      BY <1>2 DEF NoEvent
    <3> QED  BY <1>3, <1>4, <1>6, <3>1, <3>2 DEF Above
  <2> QED  BY <1>2, <2>1 DEF UnreadInOrder, Unread, Above, Size, Ends
<1> QED  BY <1>8, <1>9, <1>10, <1>11

LEMMA FillKeepsOrder ==
  ASSUME TypeOK, OrderInv, [Next]_vars, FillBuffer
  PROVE  ReadComplete' /\ SentInOrder' /\ BufferInOrder' /\ UnreadInOrder'
<1>1. file \in File /\ file # NoFile
  BY DEF FillBuffer, TypeOK
<1>2. PICK n \in pos + 1 .. Size(file) : Filled(n)
  BY <1>1, FillFacts
<1>3. UNCHANGED <<content, emitted, event, file>>
  BY DEF FillBuffer, logVars, historyVars
<1>4. /\ pos \in Nat /\ n \in Nat /\ n > pos /\ n <= Size(file) /\ Size(file) \in Nat
      /\ Len(buffer) \in Nat /\ Len(buffer') = Len(buffer) + (n - pos) /\ pos' = n
  BY <1>1, <1>2, SeqFacts DEF Filled, TypeOK
<1> DEFINE place(b) == pos + (b - Len(buffer))
<1>5. ASSUME NEW b \in 1 .. Len(buffer')
      PROVE  \/ b \in 1 .. Len(buffer) /\ buffer'[b] = buffer[b]
             \/ /\ b > Len(buffer) /\ place(b) \in 1 .. Size(file)
                /\ place(b) > pos /\ place(b) <= n
                /\ buffer'[b] = content[file][place(b)] /\ Unread(file, place(b))
  <2>1. CASE b <= Len(buffer)
    BY <1>2, <1>4, <2>1 DEF Filled
  <2>2. CASE b > Len(buffer)
    <3>1. b - Len(buffer) \in 1 .. n - pos /\ Len(buffer) + (b - Len(buffer)) = b
      BY <1>4, <2>2
    <3>2. buffer'[b] = content[file][place(b)]
      BY <1>2, <3>1 DEF Filled
    <3>3. place(b) \in 1 .. Size(file) /\ place(b) > pos /\ place(b) <= n
      BY <1>4, <3>1
    <3> QED  BY <2>2, <3>2, <3>3 DEF Unread
  <2> QED  BY <1>4, <2>1, <2>2
<1>6. ASSUME NEW b \in 1 .. Len(buffer'), Ends(buffer'[b])
      PROVE  CompleteNext(buffer'[b].line) /\ Above(buffer'[b].line)
  <2>1. CASE b \in 1 .. Len(buffer) /\ buffer'[b] = buffer[b]
    BY <1>6, <2>1, ReadCompleteStays DEF OrderInv, BufferInOrder
  <2>2. ASSUME NEW i \in 1 .. Size(file), buffer'[b] = content[file][i], Unread(file, i)
        PROVE  CompleteNext(buffer'[b].line) /\ Above(buffer'[b].line)
    <3>1. Complete(content[file][i].line) /\ content[file][i].line \in Nat
      BY <1>1, <1>6, <2>2, LineTypes DEF OrderInv, LinesComplete
    <3> QED  BY <1>1, <1>6, <2>2, <3>1, CompleteStep DEF OrderInv, UnreadInOrder
  <2> QED  BY <1>5, <2>1, <2>2
<1>7. ASSUME NEW b \in 1 .. Len(buffer'), NEW c \in 1 .. Len(buffer'), b < c,
             Ends(buffer'[b]), Ends(buffer'[c])
      PROVE  buffer'[b].line < buffer'[c].line
  <2>1. CASE b \in 1 .. Len(buffer) /\ buffer'[b] = buffer[b] /\ c \in 1 .. Len(buffer) /\ buffer'[c] = buffer[c]
    BY <1>7, <2>1 DEF OrderInv, BufferInOrder
  <2>2. ASSUME b \in 1 .. Len(buffer), buffer'[b] = buffer[b],
               NEW j \in 1 .. Size(file), buffer'[c] = content[file][j], Unread(file, j)
        PROVE  buffer'[b].line < buffer'[c].line
    BY <1>1, <1>7, <2>2 DEF OrderInv, UnreadInOrder
  <2>3. ASSUME NEW i \in 1 .. Size(file), buffer'[b] = content[file][i],
               NEW j \in 1 .. Size(file), buffer'[c] = content[file][j], i < j
        PROVE  buffer'[b].line < buffer'[c].line
    BY <1>1, <1>7, <2>3 DEF OrderInv, LinesInOrder
  <2>4. b > Len(buffer) => c > Len(buffer) /\ place(b) < place(c)
    BY <1>4, <1>7
  <2>5. c \in 1 .. Len(buffer) => ~(b > Len(buffer))
    BY <1>4, <1>7
  <2> HIDE DEF place
  <2> QED  BY <1>5, <2>1, <2>2, <2>3, <2>4, <2>5
<1>8. ASSUME NEW f \in File, NEW i \in 1 .. Size(f), Unread(f, i)', Ends(content[f][i])
      PROVE  /\ Above(content[f][i].line)
             /\ \A b \in 1 .. Len(buffer') : Ends(buffer'[b]) => buffer'[b].line < content[f][i].line
  <2>1. f > file \/ (f = file /\ i > n)
    BY <1>3, <1>4, <1>8 DEF Unread, Size
  <2>2. Unread(f, i)
    BY <1>4, <2>1 DEF Unread
  <2>3. ASSUME NEW j \in 1 .. Size(file), j <= n, Ends(content[file][j])
        PROVE  content[file][j].line < content[f][i].line
    <3>1. file < f \/ (file = f /\ j < i)
      BY <1>4, <2>1, <2>3 DEF File
    <3> QED  BY <1>1, <1>8, <2>3, <3>1 DEF OrderInv, LinesInOrder
  <2>4. ASSUME NEW b \in 1 .. Len(buffer), Ends(buffer[b])
        PROVE  buffer[b].line < content[f][i].line
    BY <1>1, <1>8, <2>2, <2>4 DEF OrderInv, UnreadInOrder
  <2>5. Above(content[f][i].line)
    BY <1>1, <1>8, <2>2 DEF OrderInv, UnreadInOrder
  <2> HIDE DEF place
  <2> QED  BY <1>5, <2>3, <2>4, <2>5
<1>9. ReadComplete' /\ SentInOrder' /\ BufferInOrder' /\ UnreadInOrder'
  BY <1>3, <1>6, <1>7, <1>8, ReadCompleteStays
  DEF OrderInv, ReadComplete, SentInOrder, BufferInOrder, UnreadInOrder, Above, Complete,
      CompleteNext, Ends, Size
<1> QED  BY <1>9

LEMMA OrderStep ==
  TypeOK /\ Layout /\ Inode /\ OrderInv /\ [Next]_vars => OrderInv'
<1> SUFFICES ASSUME TypeOK, Layout, Inode, OrderInv, [Next]_vars PROVE OrderInv'
  OBVIOUS
<1> USE DEF logVars, tailVars, historyVars, bounds
<1>1. LinesComplete' /\ LinesInOrder'
  BY LinesStep DEF OrderInv
<1> SUFFICES ReadComplete' /\ SentInOrder' /\ BufferInOrder' /\ UnreadInOrder'
  BY <1>1 DEF OrderInv
<1>2. CASE LogStep
  BY <1>2, LogKeepsOrder
<1>3. ASSUME Close, emitted' = emitted
      PROVE  ReadComplete' /\ SentInOrder' /\ BufferInOrder' /\ UnreadInOrder'
  BY <1>3, CloseKeepsOrder
<1>4. CASE ReadFails \/ Crash
  BY <1>3, <1>4 DEF ReadFails, Crash
<1>5. CASE ReturnLine
  BY <1>5, ReturnKeepsOrder
<1>6. CASE FillBuffer
  BY <1>6, FillKeepsOrder
<1>7. CASE OpenAtEnd
  <2>1. path = created /\ pos' = Size(path) /\ file' = path /\ xray <= path
        /\ UNCHANGED <<content, emitted, event, buffer>>
    BY <1>7 DEF OpenAtEnd, Layout
  <2>2. xray \in Nat /\ path \in File /\ \A f \in File : f \in Nat /\ Size(f) \in Nat
    BY <1>7, SeqFacts DEF OpenAtEnd, TypeOK, File
  <2>3. \A f \in File : f > path => Size(f) = 0
    BY <2>1, <2>2 DEF Layout
  <2>4. \A f \in File : \A i \in 1 .. Size(f) : ~Unread(f, i)'
    BY <2>1, <2>2, <2>3 DEF Unread, Size
  <2> QED  BY <2>1, <2>4, MoveKeepsOrder
<1>8. CASE ReachEnd \/ CheckRotation
  <2>1. UNCHANGED <<content, emitted, event, file, pos>> /\ (buffer' = buffer \/ Len(buffer') = 0)
    BY <1>8, EmptyFacts DEF ReachEnd, CheckRotation
  <2>2. file # NoFile
    BY <1>8 DEF ReachEnd, CheckRotation, TypeOK
  <2> QED  BY <2>1, <2>2, MoveKeepsOrder DEF Unread, Size
<1>9. CASE CheckSize
  <2>1. UNCHANGED <<content, emitted, event, file, buffer>> /\ file # NoFile
    BY <1>9 DEF CheckSize, TypeOK
  <2>2. Size(file) < pos \/ pos' = pos
    BY <1>9 DEF CheckSize
  <2>3. \A f \in File : \A i \in 1 .. Size(f) : Unread(f, i)' => Unread(f, i)
    BY <2>1, <2>2 DEF Unread, Size
  <2> QED  BY <2>1, <2>3, MoveKeepsOrder
<1>10. CASE Reopen
  <2>1. CASE path = NoFile
    BY <1>3, <1>10, <2>1 DEF Reopen
  <2>2. CASE path # NoFile
    <3>1. UNCHANGED <<content, emitted, event, buffer>> /\ file # NoFile /\ file' = path
      BY <1>10, <2>2 DEF Reopen, TypeOK
    <3>2. path > file /\ path \in Nat /\ file \in Nat
      BY <1>10, <2>2 DEF Reopen, Inode, TypeOK, File, NoFile
    <3>3. \A f \in File : \A i \in 1 .. Size(f) : Unread(f, i)' => Unread(f, i)
      BY <3>1, <3>2 DEF Unread, Size, File
    <3> QED  BY <3>1, <3>3, MoveKeepsOrder
  <2> QED  BY <2>1, <2>2
<1>11. CASE TakeEvent \/ UNCHANGED vars
  <2>1. UNCHANGED <<content, emitted, event, file, pos, buffer>>
    BY <1>11 DEF TakeEvent, vars
  <2>2. UNCHANGED <<written, torn>>
    BY <1>11 DEF TakeEvent, vars
  <2> QED
    BY <2>1, <2>2
    DEF OrderInv, ReadComplete, SentInOrder, BufferInOrder, UnreadInOrder, Above, Complete,
        Unread, Size
<1>12. CASE Send
  <2>1. /\ UNCHANGED <<content, written, torn, file, pos, buffer>>
        /\ event' = NoEvent /\ event # NoEvent /\ emitted' = Append(emitted, event)
        /\ event \in Event /\ emitted \in Seq(Event)
    BY <1>12 DEF Send, TypeOK
  <2>2. /\ Len(emitted') = Len(emitted) + 1 /\ Len(emitted) \in Nat
        /\ \A e \in 1 .. Len(emitted) : emitted'[e] = emitted[e]
        /\ emitted'[Len(emitted) + 1] = event
    BY <2>1, AppendProperties, SeqFacts
  <2>3. \A e \in 1 .. Len(emitted') :
          e \in 1 .. Len(emitted) \/ e = Len(emitted) + 1
    BY <2>2
  <2>4. event'.uuid = 0
    BY <2>1 DEF NoEvent
  <2>5. \A line \in Nat \ {0} : Above(line) => Above(line)'
    BY <2>2, <2>3, <2>4 DEF Above
  <2>6. Complete(0)
    BY DEF Complete, TypeOK
  <2>7. ReadComplete'
    BY <2>1, <2>2, <2>3, <2>4, <2>6 DEF OrderInv, ReadComplete, Complete
  <2>8. SentInOrder'
    <3>1. ASSUME NEW i \in 1 .. Len(emitted'), NEW j \in 1 .. Len(emitted'), i < j
          PROVE  emitted'[i].uuid < emitted'[j].uuid
      <4>1. i \in 1 .. Len(emitted)
        BY <2>2, <3>1
      <4> QED  BY <2>1, <2>2, <2>3, <3>1, <4>1 DEF OrderInv, SentInOrder
    <3> QED  BY <2>1, <3>1 DEF SentInOrder
  <2>9. BufferInOrder'
    BY <2>1, <2>5, LineTypes DEF OrderInv, BufferInOrder
  <2>10. UnreadInOrder'
    <3>1. ASSUME NEW f \in File, NEW i \in 1 .. Size(f), Above(content[f][i].line)
          PROVE  Above(content[f][i].line)'
      <4>1. content[f][i].line \in Nat \ {0}
        BY LineTypes
      <4> QED  BY <2>1, <2>2, <2>3, <2>4, <3>1, <4>1 DEF Above
    <3> QED  BY <2>1, <3>1 DEF OrderInv, UnreadInOrder, Unread, Size
  <2> QED  BY <2>7, <2>8, <2>9, <2>10
<1> QED
  BY <1>2, <1>4, <1>5, <1>6, <1>7, <1>8, <1>9, <1>10, <1>11, <1>12 DEF Next, TailStep

(***************************************************************************)
(* No line is emitted twice or after a later one, if the log is not        *)
(* rotated again between the Stat and the Open of the tail, whatever else  *)
(* happens to it.                                                          *)
(***************************************************************************)
THEOREM LinesAreEmittedInOrder ==
  ASSUME "rerotated" \notin Faults
  PROVE  Spec => []EmittedInOrder
<1>1. Init => Inode
  BY DEF Init, Inode
<1>2. TypeOK /\ Layout /\ Inode /\ [Next]_vars => Inode'
  BY InodeStep
<1>3. TypeOK /\ OrderInv => EmittedInOrder
  BY SeqFacts DEF OrderInv, SentInOrder, EmittedInOrder
<1> QED
  BY <1>1, <1>2, <1>3, TypeInitially, TypeStep, LayoutInitially, LayoutStep,
     OrderInitially, OrderStep, PTL DEF Spec

-----------------------------------------------------------------------------
(* What is in the buffer *)

(* Unless the file was truncated, the buffer is what was read last. *)
BufferIsRead ==
  file # NoFile /\ ~shrunk =>
    /\ Len(buffer) <= pos
    /\ \A b \in 1 .. Len(buffer) : buffer[b] = content[file][pos - Len(buffer) + b]

(* The log does not change what the tail has read, except by truncation. *)
LEMMA LogKeepsRead ==
  ASSUME TypeOK, LogStep
  PROVE  /\ UNCHANGED <<pc, file, pos, buffer, event, emitted, start>>
         /\ file # NoFile /\ ~shrunk' =>
              /\ ~shrunk
              /\ pos <= Size(file)
              /\ \A i \in 1 .. pos : content'[file][i] = content[file][i]
<1> USE DEF logVars, tailVars, historyVars, bounds
<1>1. UNCHANGED <<pc, file, pos, buffer, event, emitted, start>>
  BY XrayWrites DEF LogStep, ReopenLog, RenameLog, CreateLog, CopyTruncate
<1>2. SUFFICES ASSUME file # NoFile, ~shrunk'
               PROVE  /\ ~shrunk
                      /\ pos <= Size(file)
                      /\ \A i \in 1 .. pos : content'[file][i] = content[file][i]
  BY <1>1
<1>3. ~shrunk /\ pos \in Nat /\ file \in File
  BY <1>2, XrayWrites
  DEF LogStep, ReopenLog, RenameLog, CreateLog, CopyTruncate, TypeOK
<1>4. pos <= Size(file)
  BY <1>2, <1>3 DEF TypeOK
<1>5. \A i \in 1 .. pos : content'[file][i] = content[file][i]
  <2>1. CASE WriteLine \/ FinishLine
    <3>1. PICK piece : Wrote(piece)
      BY <2>1, XrayWrites DEF Whole, First, Last
    <3> QED  BY <1>3, <1>4, <3>1, SeqFacts DEF Wrote
  <2>2. CASE CopyTruncate
    <3>1. CASE path = file
      <4>1. shrunk' = (shrunk \/ (path = file /\ pos > 0))
        BY <2>2 DEF CopyTruncate
      <4>2. ~(pos > 0)
        BY <1>2, <3>1, <4>1
      <4> QED  BY <1>3, <4>2
    <3>2. CASE path # file
      BY <1>3, <2>2, <3>2 DEF CopyTruncate, TypeOK
    <3> QED  BY <3>1, <3>2
  <2>3. CASE content' = content
    BY <2>3
  <2> QED  BY <2>1, <2>2, <2>3 DEF LogStep, ReopenLog, RenameLog, CreateLog
<1> QED  BY <1>3, <1>4, <1>5

LEMMA BufferStep ==
  TypeOK /\ Layout /\ BufferIsRead /\ [Next]_vars => BufferIsRead'
<1> SUFFICES ASSUME TypeOK, Layout, BufferIsRead, [Next]_vars, file' # NoFile, ~shrunk'
             PROVE  /\ Len(buffer') <= pos'
                    /\ \A b \in 1 .. Len(buffer') :
                         buffer'[b] = content'[file'][pos' - Len(buffer') + b]
  BY DEF BufferIsRead
<1> USE DEF logVars, tailVars, historyVars, bounds
<1>1. pos' \in Nat
  BY TypeStep DEF TypeOK
<1>2. ASSUME Len(buffer') = 0
      PROVE  /\ Len(buffer') <= pos'
             /\ \A b \in 1 .. Len(buffer') :
                  buffer'[b] = content'[file'][pos' - Len(buffer') + b]
  BY <1>1, <1>2
<1>3. CASE LogStep
  <2>1. /\ Len(buffer) <= pos /\ Len(buffer) \in Nat /\ pos \in Nat
        /\ \A b \in 1 .. Len(buffer) : buffer[b] = content[file][pos - Len(buffer) + b]
        /\ \A i \in 1 .. pos : content'[file][i] = content[file][i]
        /\ UNCHANGED <<file, pos, buffer>>
    BY <1>3, LogKeepsRead, SeqFacts DEF BufferIsRead, TypeOK
  <2>2. \A b \in 1 .. Len(buffer) : pos - Len(buffer) + b \in 1 .. pos
    BY <2>1
  <2> QED  BY <2>1, <2>2
<1>4. CASE OpenAtEnd
  BY <1>2, <1>4 DEF OpenAtEnd, Layout
<1>5. CASE ReturnLine
  <2>1. PICK n \in 1 .. Len(buffer) : Returned(n)
    BY <1>5, ReturnFacts
  <2>2. /\ UNCHANGED <<content, file, pos, shrunk>>
        /\ Len(buffer) \in Nat /\ pos \in Nat
    BY <1>5, SeqFacts DEF ReturnLine, TypeOK
  <2>3. /\ Len(buffer) <= pos
        /\ \A b \in 1 .. Len(buffer) : buffer[b] = content[file][pos - Len(buffer) + b]
    BY <2>2 DEF BufferIsRead
  <2>4. /\ Len(buffer') = Len(buffer) - n
        /\ \A b \in 1 .. Len(buffer') : buffer'[b] = buffer[b + n] /\ b + n \in 1 .. Len(buffer)
    BY <2>1, <2>2 DEF Returned
  <2>5. \A b \in 1 .. Len(buffer') :
          pos - Len(buffer) + (b + n) = pos - Len(buffer') + b
    BY <2>2, <2>4
  <2> QED  BY <2>2, <2>3, <2>4, <2>5
<1>6. CASE FillBuffer
  <2>1. file \in File /\ UNCHANGED <<content, file, shrunk>>
    BY <1>6 DEF FillBuffer, TypeOK
  <2>2. PICK n \in pos + 1 .. Size(file) : Filled(n)
    BY <1>6, <2>1, FillFacts
  <2>3. /\ Len(buffer) \in Nat /\ pos \in Nat /\ n \in Nat /\ n > pos /\ pos' = n
        /\ Len(buffer') = Len(buffer) + (n - pos)
    BY <2>1, <2>2, SeqFacts DEF Filled, TypeOK
  <2>4. /\ Len(buffer) <= pos
        /\ \A b \in 1 .. Len(buffer) : buffer[b] = content[file][pos - Len(buffer) + b]
    BY <2>1 DEF BufferIsRead
  <2>5. ASSUME NEW b \in 1 .. Len(buffer')
        PROVE  buffer'[b] = content[file][pos' - Len(buffer') + b]
    <3>1. pos' - Len(buffer') + b = pos - Len(buffer) + b
      BY <2>3
    <3>2. CASE b <= Len(buffer)
      <4>1. b \in 1 .. Len(buffer)
        BY <2>3, <3>2
      <4>2. buffer'[b] = buffer[b]
        BY <2>2, <4>1 DEF Filled
      <4> QED  BY <2>4, <3>1, <4>1, <4>2
    <3>3. CASE b > Len(buffer)
      <4>1. b - Len(buffer) \in 1 .. n - pos /\ Len(buffer) + (b - Len(buffer)) = b
        BY <2>3, <3>3
      <4>2. pos + (b - Len(buffer)) = pos - Len(buffer) + b
        BY <2>3
      <4> QED  BY <2>2, <3>1, <4>1, <4>2 DEF Filled
    <3> QED  BY <2>3, <3>2, <3>3
  <2>6. Len(buffer') <= pos'
    BY <2>3, <2>4
  <2> QED  BY <2>1, <2>5, <2>6
<1>7. CASE ReachEnd
  BY <1>2, <1>7, EmptyFacts DEF ReachEnd
<1>8. CASE ReadFails \/ Crash
  BY <1>8 DEF ReadFails, Crash, Close
<1>9. CASE CheckSize \/ Reopen
  <2>1. CASE Close
    BY <2>1 DEF Close
  <2>2. CASE buffer' = buffer /\ Len(buffer) = 0
    BY <1>2, <2>2
  <2> QED  BY <1>9, <2>1, <2>2 DEF CheckSize, Reopen, Layout
<1>10. CASE CheckRotation \/ Send \/ TakeEvent \/ UNCHANGED vars
  BY <1>10 DEF CheckRotation, Send, TakeEvent, vars, BufferIsRead
<1> QED
  BY <1>3, <1>4, <1>5, <1>6, <1>7, <1>8, <1>9, <1>10 DEF Next, TailStep

(* PassedIsEmitted, with lengths for domains. *)
Passed ==
  file # NoFile /\ ~shrunk =>
    \A i \in start + 1 .. pos - Len(buffer) :
      content[file][i].part = "whole" =>
        \/ \E e \in 1 .. Len(emitted) : emitted[e].uuid = content[file][i].line
        \/ event.uuid = content[file][i].line

LEMMA PassedStep ==
  TypeOK /\ Layout /\ BufferIsRead /\ Passed /\ [Next]_vars => Passed'
<1> SUFFICES ASSUME TypeOK, Layout, BufferIsRead, Passed, [Next]_vars,
                    file' # NoFile, ~shrunk',
                    NEW i \in start' + 1 .. pos' - Len(buffer'),
                    content'[file'][i].part = "whole"
             PROVE  \/ \E e \in 1 .. Len(emitted') : emitted'[e].uuid = content'[file'][i].line
                    \/ event'.uuid = content'[file'][i].line
  BY DEF Passed
<1> USE DEF logVars, tailVars, historyVars, bounds
<1>1. pos \in Nat /\ start \in Nat /\ Len(buffer) \in Nat
  BY SeqFacts DEF TypeOK
<1>2. pos' \in Nat /\ start' \in Nat /\ Len(buffer') \in Nat
  <2>1. TypeOK'
    BY TypeStep
  <2> QED  BY <2>1 DEF TypeOK
<1>3. ASSUME UNCHANGED <<content, file, shrunk, emitted, start, event>>,
             pos' - Len(buffer') = pos - Len(buffer)
      PROVE  \/ \E e \in 1 .. Len(emitted') : emitted'[e].uuid = content'[file'][i].line
             \/ event'.uuid = content'[file'][i].line
  BY <1>3 DEF Passed
<1>4. ASSUME pos' = start', Len(buffer') = 0 PROVE FALSE
  <2>1. \A p, s, n \in Nat : p = s => \A j \in s + 1 .. p - n : FALSE
    OBVIOUS
  <2> QED  BY <1>2, <1>4, <2>1
<1>5. CASE LogStep
  <2>1. /\ UNCHANGED <<file, pos, buffer, event, emitted, start>> /\ ~shrunk
        /\ pos <= Size(file)
        /\ \A j \in 1 .. pos : content'[file][j] = content[file][j]
    BY <1>5, LogKeepsRead
  <2>2. i \in 1 .. pos /\ i \in start + 1 .. pos - Len(buffer)
    BY <1>1, <2>1
  <2> QED  BY <2>1, <2>2 DEF Passed
<1>6. CASE OpenAtEnd
  BY <1>4, <1>6 DEF OpenAtEnd, Layout
<1>7. CASE ReturnLine
  <2>1. PICK n \in 1 .. Len(buffer) : Returned(n)
    BY <1>7, ReturnFacts
  <2>2. /\ UNCHANGED <<content, file, pos, shrunk, start, emitted>> /\ event.uuid = 0
        /\ file \in File /\ pos <= Size(file)
    BY <1>7 DEF ReturnLine, TypeOK, NoEvent
  <2>3. /\ Len(buffer) <= pos
        /\ \A b \in 1 .. Len(buffer) : buffer[b] = content[file][pos - Len(buffer) + b]
    BY <2>2 DEF BufferIsRead
  <2>4. CASE i <= pos - Len(buffer)
    <3>1. i \in start + 1 .. pos - Len(buffer)
      BY <1>1, <1>2, <2>2, <2>4
    <3>2. content[file][i].line # 0
      <4>1. i \in 1 .. Size(file)
        BY <1>1, <2>2, <3>1, SeqFacts
      <4> QED  BY <2>2, <4>1, LineTypes
    <3> QED  BY <2>2, <3>1, <3>2 DEF Passed
  <2>5. CASE i > pos - Len(buffer)
    <3> DEFINE b == i - (pos - Len(buffer))
    <3>1. b \in 1 .. n /\ b \in 1 .. Len(buffer) /\ pos - Len(buffer) + b = i
      BY <1>1, <2>1, <2>2, <2>5 DEF Returned
    <3>2. buffer[b] = content[file][i]
      BY <2>3, <3>1
    <3> HIDE DEF b
    <3>3. buffer[b].part = "whole"
      BY <2>2, <3>2
    <3>4. b = n
      <4>1. \A j \in 1 .. n - 1 : buffer[j].part = "first"
        BY <2>1 DEF Returned, EndsLine
      <4>2. b \notin 1 .. n - 1
        BY <3>3, <4>1
      <4> QED  BY <3>1, <4>2
    <3>5. buffer[1].part # "last"
      <4>1. CASE n = 1
        BY <3>3, <3>4, <4>1
      <4>2. CASE n # 1
        <5>1. 1 \in 1 .. n - 1
          BY <1>1, <2>1, <4>2
        <5> QED  BY <2>1, <5>1 DEF Returned, EndsLine
      <4> QED  BY <4>1, <4>2
    <3> QED  BY <2>1, <2>2, <3>2, <3>4, <3>5 DEF Returned
  <2> QED  BY <1>1, <1>2, <2>2, <2>4, <2>5
<1>8. CASE FillBuffer
  <2>1. file \in File /\ UNCHANGED <<content, file, shrunk, emitted, start, event>>
    BY <1>8 DEF FillBuffer, TypeOK
  <2>2. PICK n \in pos + 1 .. Size(file) : Filled(n)
    BY <1>8, <2>1, FillFacts
  <2>3. pos' - Len(buffer') = pos - Len(buffer)
    BY <1>1, <2>1, <2>2, SeqFacts DEF Filled
  <2> QED  BY <1>3, <2>1, <2>3
<1>9. CASE ReachEnd
  <2>1. /\ UNCHANGED <<content, file, pos, shrunk, start, emitted, event>> /\ Len(buffer') = 0
        /\ ~HasLine
    BY <1>9, EmptyFacts DEF ReachEnd
  <2>2. \A b \in 1 .. Len(buffer) : buffer[b].part = "first"
    BY <2>1, SeqFacts DEF HasLine
  <2>3. i <= pos - Len(buffer)
    <3>1. ASSUME i > pos - Len(buffer) PROVE FALSE
      <4>1. i - (pos - Len(buffer)) \in 1 .. Len(buffer)
        BY <1>1, <1>2, <2>1, <3>1
      <4>2. pos - Len(buffer) + (i - (pos - Len(buffer))) = i
        BY <1>1, <1>2
      <4>3. buffer[i - (pos - Len(buffer))] = content[file][i]
        BY <2>1, <4>1, <4>2 DEF BufferIsRead
      <4> QED  BY <2>1, <2>2, <4>1, <4>3
    <3> QED  BY <1>1, <1>2, <3>1
  <2>4. i \in start + 1 .. pos - Len(buffer)
    BY <1>1, <1>2, <2>1, <2>3
  <2> QED  BY <2>1, <2>4 DEF Passed
<1>10. CASE ReadFails \/ Crash
  BY <1>10 DEF ReadFails, Crash, Close
<1>11. CASE CheckSize
  <2>1. CASE pos' = 0 /\ start' = 0
    BY <1>4, <1>11, <2>1 DEF CheckSize, Layout
  <2>2. CASE UNCHANGED <<pos, start, shrunk>>
    BY <1>3, <1>11, <2>2 DEF CheckSize
  <2> QED  BY <1>11, <2>1, <2>2 DEF CheckSize
<1>12. CASE Reopen
  <2>1. pos' = 0 /\ start' = 0 /\ Len(buffer') = 0
    BY <1>12 DEF Reopen, Close, Layout
  <2> QED  BY <1>4, <2>1
<1>13. CASE Send
  <2>1. /\ UNCHANGED <<content, file, pos, buffer, shrunk, start>>
        /\ emitted' = Append(emitted, event) /\ event \in Event /\ emitted \in Seq(Event)
    BY <1>13 DEF Send, TypeOK
  <2>2. /\ Len(emitted') = Len(emitted) + 1 /\ Len(emitted) \in Nat
        /\ \A e \in 1 .. Len(emitted) : emitted'[e] = emitted[e]
        /\ emitted'[Len(emitted) + 1] = event
    BY <2>1, AppendProperties, SeqFacts
  <2>3. \/ \E e \in 1 .. Len(emitted) : emitted[e].uuid = content[file][i].line
        \/ event.uuid = content[file][i].line
    BY <2>1 DEF Passed
  <2>4. /\ \A e \in 1 .. Len(emitted) : e \in 1 .. Len(emitted')
        /\ Len(emitted) + 1 \in 1 .. Len(emitted')
    BY <2>2
  <2> QED  BY <2>1, <2>2, <2>3, <2>4
<1>14. CASE CheckRotation \/ TakeEvent \/ UNCHANGED vars
  BY <1>3, <1>14 DEF CheckRotation, TakeEvent, vars
<1> QED
  BY <1>5, <1>6, <1>7, <1>8, <1>9, <1>10, <1>11, <1>12, <1>13, <1>14 DEF Next, TailStep

(***************************************************************************)
(* A line that was written in one piece and that the tail has consumed     *)
(* from the open file, since it opened or rewound it, was emitted or is    *)
(* about to be.  This is not said of lines that it leaves in another file  *)
(* or that are truncated before it reads them.                             *)
(***************************************************************************)
THEOREM ConsumedLinesAreEmitted == Spec => []PassedIsEmitted
<1>1. Init => BufferIsRead /\ Passed
  BY DEF Init, BufferIsRead, Passed
<1>2. TypeOK /\ Passed => PassedIsEmitted
  BY SeqFacts DEF Passed, PassedIsEmitted, Emitted
<1> QED
  BY <1>1, <1>2, TypeInitially, TypeStep, LayoutInitially, LayoutStep, BufferStep,
     PassedStep, PTL DEF Spec

-----------------------------------------------------------------------------
(* Lines in one piece *)

Follows(p, q) == q.part = "last" /\ q.line = p.line

(* The first piece of a line is followed by the last one, or is the newest. *)
PiecesFollow ==
  \A f \in File : \A i \in 1 .. Size(f) :
    content[f][i].part = "first" =>
      \/ i < Size(f) /\ Follows(content[f][i], content[f][i + 1])
      \/ i = Size(f) /\ f = xray /\ torn = TRUE /\ content[f][i].line = written

LEMMA PiecesStep ==
  TypeOK /\ PiecesFollow /\ [Next]_vars => PiecesFollow'
<1> SUFFICES ASSUME TypeOK, PiecesFollow, [Next]_vars,
                    NEW f \in File, NEW i \in 1 .. Len(content'[f]),
                    content'[f][i].part = "first"
             PROVE  \/ i < Len(content'[f]) /\ Follows(content'[f][i], content'[f][i + 1])
                    \/ i = Len(content'[f]) /\ f = xray' /\ torn' = TRUE /\ content'[f][i].line = written'
  BY DEF PiecesFollow, Size, Follows
<1> USE DEF logVars, tailVars, historyVars, bounds
<1>1. Size(f) \in Nat /\ Size(f) = Len(content[f])
  BY SeqFacts DEF Size
<1>2. CASE WriteLine \/ FinishLine
  <2>1. xray' = xray /\ (Whole \/ First \/ Last)
    BY <1>2, XrayWrites
  <2>2. PICK piece :
          /\ Wrote(piece)
          /\ \/ torn = FALSE /\ piece.part = "whole"
             \/ torn = FALSE /\ torn' = TRUE /\ piece.part = "first" /\ piece.line = written'
             \/ torn = TRUE /\ written' = written /\ piece.part = "last" /\ piece.line = written'
    BY <2>1 DEF Whole, First, Last
  <2>3. CASE f # xray
    BY <1>1, <2>1, <2>2, <2>3 DEF Wrote, PiecesFollow
  <2>4. CASE f = xray
    <3>1. /\ Len(content'[f]) = Size(f) + 1
          /\ content'[f][Size(f) + 1] = piece
          /\ \A j \in 1 .. Size(f) : content'[f][j] = content[f][j]
      BY <2>2, <2>4 DEF Wrote
    <3>2. CASE i = Size(f) + 1
      BY <2>1, <2>2, <2>4, <3>1, <3>2
    <3>3. CASE i \in 1 .. Size(f)
      <4>1. content'[f][i] = content[f][i] /\ content[f][i].part = "first"
        BY <3>1, <3>3
      <4>2. CASE i < Size(f) /\ Follows(content[f][i], content[f][i + 1])
        <5>1. i + 1 \in 1 .. Size(f)
          BY <1>1, <3>3, <4>2
        <5>2. content'[f][i + 1] = content[f][i + 1]
          BY <3>1, <5>1
        <5> QED  BY <1>1, <3>1, <4>1, <4>2, <5>2
      <4>3. CASE i = Size(f) /\ torn = TRUE /\ content[f][i].line = written
        BY <1>1, <2>2, <3>1, <4>1, <4>3 DEF Follows
      <4> QED  BY <3>3, <4>1, <4>2, <4>3 DEF PiecesFollow
    <3>4. i = Size(f) + 1 \/ i \in 1 .. Size(f)
      <4>1. \A n \in Nat : \A j \in 1 .. n + 1 : j = n + 1 \/ j \in 1 .. n
        OBVIOUS
      <4> QED  BY <1>1, <3>1, <4>1
    <3> QED  BY <3>2, <3>3, <3>4
  <2> QED  BY <2>3, <2>4
<1>3. CASE ReopenLog
  <2>1. UNCHANGED content /\ torn # TRUE
    BY <1>3 DEF ReopenLog
  <2> QED  BY <1>1, <2>1 DEF PiecesFollow
<1>4. CASE CopyTruncate
  <2>1. UNCHANGED <<xray, torn, written>> /\ (Len(content'[f]) = 0 \/ content'[f] = content[f])
    BY <1>4, EmptyFacts DEF CopyTruncate, TypeOK
  <2> QED  BY <1>1, <2>1 DEF PiecesFollow
<1>5. CASE UNCHANGED <<content, xray, torn, written>>
  BY <1>1, <1>5 DEF PiecesFollow
<1> QED
  BY <1>2, <1>3, <1>4, <1>5
  DEF Next, LogStep, CreateLog, RenameLog, TailStep, OpenAtEnd, ReturnLine, FillBuffer,
      ReachEnd, ReadFails, CheckSize, CheckRotation, Reopen, Send, TakeEvent, Crash, vars

(* Read since the last truncation that found pieces in the buffer. *)
Fresh(b) == \A j \in joints : j < b

(* What was read since is what the file holds before the offset. *)
FreshIsRead ==
  file # NoFile =>
    \A b \in 1 .. Len(buffer) : Fresh(b) =>
      /\ pos <= Size(file)
      /\ pos - Len(buffer) + b >= 1
      /\ buffer[b] = content[file][pos - Len(buffer) + b]

(* Only at a truncation is the first piece of a line in the buffer followed
   by a piece of another. *)
BufferFollows ==
  \A b \in 1 .. Len(buffer) - 1 :
    b \notin joints /\ buffer[b].part = "first" => Follows(buffer[b], buffer[b + 1])

(* The events sent that join two lines. *)
Spoiled == {i \in 1 .. Len(emitted) : Joined(emitted[i])}

(* A truncation has spoiled an event, or may still, or will not. *)
CutsCount ==
  /\ Cardinality(Spoiled) + Cardinality(joints) <= cuts
  /\ Joined(event) => Cardinality(Spoiled) + Cardinality(joints) + 1 <= cuts

LineInv == PiecesFollow /\ FreshIsRead /\ BufferFollows /\ CutsCount

LEMMA FreshStep ==
  TypeOK /\ Layout /\ FreshIsRead /\ [Next]_vars => FreshIsRead'
<1> SUFFICES ASSUME TypeOK, Layout, FreshIsRead, [Next]_vars, file' # NoFile,
                    NEW b \in 1 .. Len(buffer'), \A j \in joints' : j < b
             PROVE  /\ pos' <= Len(content'[file'])
                    /\ pos' - Len(buffer') + b >= 1
                    /\ buffer'[b] = content'[file'][pos' - Len(buffer') + b]
  BY DEF FreshIsRead, Fresh, Size
<1> USE DEF logVars, tailVars, historyVars, bounds
<1>1. Len(buffer) \in Nat /\ pos \in Nat /\ joints \subseteq 1 .. Len(buffer)
  BY SeqFacts DEF TypeOK
<1>2. ASSUME UNCHANGED <<content, file, pos, buffer, joints>>
      PROVE  /\ pos' <= Len(content'[file'])
             /\ pos' - Len(buffer') + b >= 1
             /\ buffer'[b] = content'[file'][pos' - Len(buffer') + b]
  BY <1>2 DEF FreshIsRead, Fresh, Size
<1>3. ASSUME Len(buffer') = 0 PROVE FALSE
  BY <1>3
<1>4. CASE WriteLine \/ FinishLine
  <2>1. /\ UNCHANGED <<file, pos, buffer, joints, xray>> /\ file \in File
        /\ content' \in [File -> Seq(Piece)]
    BY <1>4, XrayWrites DEF TypeOK
  <2>2. PICK piece : Wrote(piece)
    BY <1>4, XrayWrites DEF Whole, First, Last
  <2>3. /\ pos <= Size(file) /\ pos - Len(buffer) + b >= 1
        /\ buffer[b] = content[file][pos - Len(buffer) + b]
    BY <2>1 DEF FreshIsRead, Fresh
  <2>4. /\ Size(file) \in Nat /\ Len(content'[file]) >= Size(file)
        /\ \A i \in 1 .. Size(file) : content'[file][i] = content[file][i]
    BY <2>1, <2>2, SeqFacts DEF Wrote, Size
  <2>5. Len(content'[file]) \in Nat /\ pos - Len(buffer) + b \in 1 .. Size(file)
    BY <1>1, <2>1, <2>3, <2>4
  <2> QED  BY <1>1, <2>1, <2>3, <2>4, <2>5 DEF Size
<1>5. CASE CopyTruncate
  <2>1. UNCHANGED <<file, pos, buffer>> /\ path \in File /\ file \in File
    BY <1>5 DEF CopyTruncate, TypeOK
  <2>2. CASE path = file
    <3>1. buffer # <<>>
      BY <1>3, <2>1, EmptyFacts
    <3>2. Len(buffer) \in joints'
      BY <1>5, <2>2, <3>1 DEF CopyTruncate
    <3> QED  BY <1>1, <2>1, <3>2
  <2>3. CASE path # file
    <3>1. UNCHANGED joints /\ content'[file] = content[file]
      BY <1>5, <2>1, <2>3 DEF CopyTruncate, TypeOK
    <3> QED  BY <2>1, <3>1 DEF FreshIsRead, Fresh, Size
  <2> QED  BY <2>2, <2>3
<1>6. CASE ReturnLine
  <2>1. PICK n \in 1 .. Len(buffer) : Returned(n)
    BY <1>6, ReturnFacts
  <2>5. /\ UNCHANGED <<content, file, pos>> /\ n \in Nat
        /\ Len(buffer') = Len(buffer) - n
        /\ joints' = {j - n : j \in {k \in joints : k > n}}
    <3>1. UNCHANGED <<content, file, pos>>
      BY <1>6 DEF ReturnLine
    <3>2. Len(buffer') = Len(buffer) - n /\ joints' = {j - n : j \in {k \in joints : k > n}}
      BY <2>1 DEF Returned
    <3> QED  BY <1>1, <3>1, <3>2
  <2>2. /\ UNCHANGED <<content, file, pos>> /\ n \in Nat
        /\ Len(buffer') = Len(buffer) - n
        /\ b + n \in 1 .. Len(buffer) /\ buffer'[b] = buffer[b + n]
        /\ \A j \in joints : j > n => j - n \in joints'
    BY <1>1, <2>1, <2>5 DEF Returned
  <2>3. Fresh(b + n)
    <3>1. SUFFICES ASSUME NEW j \in joints PROVE j < b + n
      BY DEF Fresh
    <3>2. CASE j > n
      <4>1. j - n < b
        BY <2>2, <3>2
      <4> QED  BY <1>1, <2>2, <4>1
    <3>3. CASE ~(j > n)
      BY <1>1, <2>2, <3>3
    <3> QED  BY <3>2, <3>3
  <2>4. pos - Len(buffer) + (b + n) = pos' - Len(buffer') + b
    BY <1>1, <2>2
  <2> QED  BY <2>2, <2>3, <2>4 DEF FreshIsRead, Size
<1>7. CASE FillBuffer
  <2>1. file \in File /\ UNCHANGED <<content, file, joints>>
    BY <1>7 DEF FillBuffer, TypeOK
  <2>2. PICK n \in pos + 1 .. Size(file) : Filled(n)
    BY <1>7, <2>1, FillFacts
  <2>3. /\ n \in Nat /\ n > pos /\ pos' = n /\ n <= Size(file) /\ Size(file) \in Nat
        /\ Len(buffer') = Len(buffer) + (n - pos)
    BY <1>1, <2>1, <2>2, SeqFacts DEF Filled
  <2>4. pos' - Len(buffer') + b = pos - Len(buffer) + b
    BY <1>1, <2>3
  <2>5. CASE b <= Len(buffer)
    <3>1. b \in 1 .. Len(buffer)
      BY <1>1, <2>3, <2>5
    <3>2. buffer'[b] = buffer[b]
      BY <2>2, <3>1 DEF Filled
    <3>3. /\ pos - Len(buffer) + b >= 1
          /\ buffer[b] = content[file][pos - Len(buffer) + b]
      BY <2>1, <3>1 DEF FreshIsRead, Fresh
    <3> QED  BY <2>1, <2>3, <2>4, <3>2, <3>3 DEF Size
  <2>6. CASE b > Len(buffer)
    <3>1. b - Len(buffer) \in 1 .. n - pos /\ Len(buffer) + (b - Len(buffer)) = b
      BY <1>1, <2>3, <2>6
    <3>2. pos + (b - Len(buffer)) = pos - Len(buffer) + b /\ pos - Len(buffer) + b >= 1
      BY <1>1, <2>3, <2>6
    <3>3. buffer'[b] = content[file][pos - Len(buffer) + b]
      BY <2>2, <3>1, <3>2 DEF Filled
    <3> QED  BY <2>1, <2>3, <2>4, <3>2, <3>3 DEF Size
  <2> QED  BY <1>1, <2>3, <2>5, <2>6
<1>8. CASE OpenAtEnd
  BY <1>3, <1>8 DEF OpenAtEnd, Layout
<1>9. CASE ReachEnd
  BY <1>3, <1>9, EmptyFacts DEF ReachEnd
<1>10. CASE ReadFails \/ Crash
  BY <1>10 DEF ReadFails, Crash, Close
<1>11. CASE CheckSize \/ Reopen
  <2>1. CASE Close
    BY <2>1 DEF Close
  <2>2. CASE buffer' = buffer /\ Len(buffer) = 0
    BY <1>3, <2>2
  <2> QED  BY <1>11, <2>1, <2>2 DEF CheckSize, Reopen, Layout
<1>12. CASE ReopenLog \/ RenameLog \/ CreateLog \/ CheckRotation \/ Send \/ TakeEvent \/ UNCHANGED vars
  BY <1>2, <1>12
  DEF ReopenLog, RenameLog, CreateLog, CheckRotation, Send, TakeEvent, vars
<1> QED
  BY <1>4, <1>5, <1>6, <1>7, <1>8, <1>9, <1>10, <1>11, <1>12 DEF Next, LogStep, TailStep

LEMMA BufferFollowsStep ==
  TypeOK /\ Layout /\ LineInv /\ [Next]_vars => BufferFollows'
<1> SUFFICES ASSUME TypeOK, Layout, LineInv, [Next]_vars,
                    NEW b \in 1 .. Len(buffer') - 1,
                    b \notin joints', buffer'[b].part = "first"
             PROVE  Follows(buffer'[b], buffer'[b + 1])
  BY DEF BufferFollows, Follows
<1> USE DEF logVars, tailVars, historyVars, bounds
<1>1. Len(buffer) \in Nat /\ pos \in Nat /\ joints \subseteq 1 .. Len(buffer)
  BY SeqFacts DEF TypeOK
<1>2. CASE ReturnLine
  <2>1. PICK n \in 1 .. Len(buffer) : Returned(n)
    BY <1>2, ReturnFacts
  <2>2. /\ b \in 1 .. Len(buffer') /\ b + 1 \in 1 .. Len(buffer')
        /\ b + n \in 1 .. Len(buffer) - 1 /\ (b + 1) + n = (b + n) + 1
        /\ b + n > n /\ (b + n) - n = b
    BY <1>1, <2>1 DEF Returned
  <2>3. buffer'[b] = buffer[b + n] /\ buffer'[b + 1] = buffer[(b + n) + 1]
    BY <1>1, <2>1, <2>2 DEF Returned
  <2>4. b + n \notin joints
    <3>1. joints' = {j - n : j \in {k \in joints : k > n}}
      BY <2>1 DEF Returned
    <3>2. b + n \in joints => (b + n) - n \in joints'
      BY <2>2, <3>1
    <3> QED  BY <2>2, <3>2
  <2> QED  BY <2>2, <2>3, <2>4 DEF LineInv, BufferFollows
<1>3. CASE FillBuffer
  <2>1. file \in File /\ UNCHANGED <<content, file, joints>> /\ file # NoFile
    BY <1>3 DEF FillBuffer, TypeOK
  <2>2. PICK n \in pos + 1 .. Size(file) : Filled(n)
    BY <1>3, <2>1, FillFacts
  <2>3. /\ n \in Nat /\ n > pos /\ n <= Size(file) /\ Size(file) \in Nat
        /\ Len(buffer') = Len(buffer) + (n - pos)
    BY <1>1, <2>1, <2>2, SeqFacts DEF Filled
  <2>4. CASE b < Len(buffer)
    <3>1. b \in 1 .. Len(buffer) - 1 /\ b \in 1 .. Len(buffer) /\ b + 1 \in 1 .. Len(buffer)
      BY <1>1, <2>3, <2>4
    <3>2. buffer'[b] = buffer[b] /\ buffer'[b + 1] = buffer[b + 1]
      BY <2>2, <3>1 DEF Filled
    <3> QED  BY <2>1, <3>1, <3>2 DEF LineInv, BufferFollows
  <2>5. CASE b >= Len(buffer)
    <3> DEFINE i == pos - Len(buffer) + b
    <3>1. i >= 1 /\ buffer'[b] = content[file][i]
      <4>1. CASE b = Len(buffer)
        <5>1. b \in 1 .. Len(buffer) /\ \A j \in joints : j < b
          BY <1>1, <2>1, <4>1
        <5>2. buffer'[b] = buffer[b]
          BY <2>2, <5>1 DEF Filled
        <5> QED  BY <2>1, <5>1, <5>2 DEF LineInv, FreshIsRead, Fresh
      <4>2. CASE b > Len(buffer)
        <5>1. /\ b - Len(buffer) \in 1 .. n - pos /\ Len(buffer) + (b - Len(buffer)) = b
              /\ pos + (b - Len(buffer)) = i /\ i >= 1
          BY <1>1, <2>3, <4>2
        <5> QED  BY <2>2, <5>1 DEF Filled
      <4> QED  BY <1>1, <2>3, <2>5, <4>1, <4>2
    <3>2. buffer'[b + 1] = content[file][i + 1] /\ i < Size(file) /\ i \in Int
      <4>1. /\ (b + 1) - Len(buffer) \in 1 .. n - pos
            /\ Len(buffer) + ((b + 1) - Len(buffer)) = b + 1
            /\ pos + ((b + 1) - Len(buffer)) = i + 1 /\ i < Size(file) /\ i \in Int
        BY <1>1, <2>3, <2>5
      <4> QED  BY <2>2, <4>1 DEF Filled
    <3>3. i \in 1 .. Size(file)
      BY <2>3, <3>1, <3>2
    <3> HIDE DEF i
    <3> QED  BY <2>1, <2>3, <3>1, <3>2, <3>3 DEF LineInv, PiecesFollow
  <2> QED  BY <1>1, <2>3, <2>4, <2>5
<1>4. CASE CopyTruncate
  <2>1. buffer' = buffer /\ joints \subseteq joints'
    BY <1>4 DEF CopyTruncate
  <2> QED  BY <2>1 DEF LineInv, BufferFollows
<1>5. CASE Len(buffer') = 0
  BY <1>5
<1>6. CASE UNCHANGED <<buffer, joints>>
  BY <1>6 DEF LineInv, BufferFollows
<1> QED
  BY <1>2, <1>3, <1>4, <1>5, <1>6, EmptyFacts, XrayWrites
  DEF Next, LogStep, ReopenLog, CreateLog, RenameLog, TailStep, OpenAtEnd,
      ReachEnd, ReadFails, CheckSize, CheckRotation, Reopen, Send, TakeEvent, Crash, Close, vars

(* A line that joins two was read across a truncation. *)
LEMMA JoinedAcross ==
  ASSUME TypeOK, LineInv, NEW n \in 1 .. Len(buffer), EndsLine(n), buffer[1].line # buffer[n].line
  PROVE  n > 1 /\ 1 \in joints
<1>1. Len(buffer) \in Nat /\ n \in Nat /\ n > 1
  BY SeqFacts
<1>2. 1 \in 1 .. Len(buffer) - 1 /\ 1 \in 1 .. n - 1
  BY <1>1
<1>3. buffer[1].part = "first"
  BY <1>2 DEF EndsLine
<1>4. ASSUME 1 \notin joints PROVE FALSE
  <2>1. buffer[2].part = "last" /\ buffer[2].line = buffer[1].line
    BY <1>2, <1>3, <1>4 DEF LineInv, BufferFollows, Follows
  <2>2. n > 2 => 2 \in 1 .. n - 1
    BY <1>1
  <2>3. ~(n > 2)
    BY <2>1, <2>2 DEF EndsLine
  <2> QED  BY <1>1, <2>1, <2>3
<1> QED  BY <1>1, <1>4

(* Fewer joints are left when a line has been taken from the buffer. *)
LEMMA JointsShift ==
  ASSUME TypeOK, NEW n \in Nat, NEW rest, rest = {j - n : j \in {k \in joints : k > n}}
  PROVE  /\ IsFiniteSet(joints) /\ Cardinality(joints) \in Nat
         /\ Cardinality(rest) \in Nat /\ Cardinality(rest) <= Cardinality(joints)
         /\ 1 \in joints /\ n > 1 => Cardinality(rest) + 1 <= Cardinality(joints)
<1> DEFINE behind == {k \in joints : k > n}
           shift == [k \in behind |-> k - n]
<1>1. IsFiniteSet(joints) /\ Cardinality(joints) \in Nat /\ joints \subseteq Int
  <2>1. Len(buffer) \in Int /\ joints \subseteq 1 .. Len(buffer)
    BY SeqFacts DEF TypeOK
  <2>2. IsFiniteSet(1 .. Len(buffer))
    BY <2>1, FS_Interval
  <2>3. IsFiniteSet(joints)
    BY <2>1, <2>2, FS_Subset
  <2> QED  BY <2>1, <2>3, FS_CardinalityType
<1>2. IsFiniteSet(behind) /\ Cardinality(behind) \in Nat /\ Cardinality(behind) <= Cardinality(joints)
  BY <1>1, FS_Subset, FS_CardinalityType
<1>3. shift \in Surjection(behind, rest)
  BY DEF Surjection
<1>4. IsFiniteSet(rest) /\ Cardinality(rest) \in Nat /\ Cardinality(rest) <= Cardinality(behind)
  <2> HIDE DEF behind, shift
  <2>1. IsFiniteSet(rest) /\ Cardinality(rest) <= Cardinality(behind)
    BY <1>2, <1>3, FS_Surjection
  <2> QED  BY <2>1, FS_CardinalityType
<1>5. ASSUME 1 \in joints, n > 1 PROVE Cardinality(behind) + 1 <= Cardinality(joints)
  <2>1. behind \subseteq joints \ {1}
    BY <1>5
  <2>2. IsFiniteSet(joints \ {1}) /\ Cardinality(joints \ {1}) = Cardinality(joints) - 1
    BY <1>1, <1>5, FS_RemoveElement
  <2> HIDE DEF behind
  <2>3. Cardinality(behind) <= Cardinality(joints \ {1})
    BY <2>1, <2>2, FS_Subset
  <2> QED  BY <1>1, <1>2, <2>2, <2>3
<1> HIDE DEF behind
<1> QED  BY <1>1, <1>2, <1>4, <1>5

LEMMA OneMore ==
  ASSUME NEW S, NEW x, NEW T, IsFiniteSet(S), T = S \cup {x}
  PROVE  Cardinality(T) \in Nat /\ Cardinality(T) <= Cardinality(S) + 1
<1>1. Cardinality(S) \in Nat
  BY FS_CardinalityType
<1>2. Cardinality(S \cup {x}) = IF x \in S THEN Cardinality(S) ELSE Cardinality(S) + 1
  BY FS_AddElement
<1> QED  BY <1>1, <1>2

LEMMA CutsStep ==
  TypeOK /\ LineInv /\ [Next]_vars => CutsCount'
<1> SUFFICES ASSUME TypeOK, LineInv, [Next]_vars
             PROVE  CutsCount'
  OBVIOUS
<1> USE DEF logVars, tailVars, historyVars, bounds
<1>1. /\ Len(emitted) \in Nat /\ Len(buffer) \in Nat /\ cuts \in Nat
      /\ IsFiniteSet(Spoiled) /\ Cardinality(Spoiled) \in Nat
      /\ IsFiniteSet(joints) /\ Cardinality(joints) \in Nat
  <2>1. Len(emitted) \in Nat /\ Len(buffer) \in Nat /\ cuts \in Nat
    BY SeqFacts DEF TypeOK
  <2>2. IsFiniteSet(1 .. Len(emitted))
    BY <2>1, FS_Interval
  <2>3. IsFiniteSet(Spoiled)
    BY <2>2, FS_Subset DEF Spoiled
  <2>4. 0 \in Nat
    OBVIOUS
  <2>5. IsFiniteSet(joints) /\ Cardinality(joints) \in Nat
    BY <2>4, JointsShift
  <2> QED  BY <2>1, <2>3, <2>5, FS_CardinalityType
<1>2. emitted' = emitted => Spoiled' = Spoiled
  BY DEF Spoiled, Joined
<1>3. ~Joined(NoEvent)
  BY DEF Joined, NoEvent
<1>4. ASSUME UNCHANGED <<emitted, event, joints, cuts>> PROVE CutsCount'
  BY <1>2, <1>4 DEF LineInv, CutsCount, Joined
<1>5. ASSUME UNCHANGED <<emitted, cuts>>, event' \in {event, NoEvent}, joints' = {} PROVE CutsCount'
  <2>1. Cardinality(joints') = 0
    BY <1>5, FS_EmptySet
  <2> QED  BY <1>1, <1>2, <1>3, <1>5, <2>1 DEF LineInv, CutsCount, Joined
<1>6. CASE CopyTruncate
  <2>1. UNCHANGED <<emitted, event>>
    BY <1>6 DEF CopyTruncate
  <2>2. CASE UNCHANGED <<joints, cuts>>
    BY <1>4, <2>1, <2>2
  <2>3. CASE joints' = joints \cup {Len(buffer)} /\ cuts' = cuts + 1
    <3>1. Cardinality(joints') \in Nat /\ Cardinality(joints') <= Cardinality(joints) + 1
      BY <1>1, <2>3, OneMore
    <3>2. Spoiled' = Spoiled /\ Joined(event)' = Joined(event)
      BY <1>2, <2>1 DEF Joined
    <3> QED  BY <1>1, <2>3, <3>1, <3>2 DEF LineInv, CutsCount
  <2> QED  BY <1>6, <2>2, <2>3 DEF CopyTruncate
<1>7. CASE ReturnLine
  <2>1. PICK n \in 1 .. Len(buffer) : Returned(n)
    BY <1>7, ReturnFacts
  <2>2. UNCHANGED <<emitted, cuts>> /\ event = NoEvent /\ n \in Nat
    BY <1>1, <1>7 DEF ReturnLine, TypeOK
  <2>3. /\ Cardinality(joints') \in Nat /\ Cardinality(joints') <= Cardinality(joints)
        /\ 1 \in joints /\ n > 1 => Cardinality(joints') + 1 <= Cardinality(joints)
    BY <2>1, <2>2, JointsShift DEF Returned
  <2>4. ASSUME Joined(event') PROVE 1 \in joints /\ n > 1
    <3>1. event' = [ip |-> buffer[1].line, uuid |-> buffer[n].line]
      BY <1>3, <2>1, <2>2, <2>4 DEF Returned
    <3>2. buffer[1].line # buffer[n].line
      BY <2>4, <3>1 DEF Joined
    <3> QED  BY <2>1, <3>2, JoinedAcross DEF Returned
  <2>5. Joined(event)' => Joined(event')
    BY DEF Joined
  <2> QED  BY <1>1, <1>2, <2>2, <2>3, <2>4, <2>5 DEF LineInv, CutsCount
<1>8. CASE Send
  <2>1. /\ emitted' = Append(emitted, event) /\ event' = NoEvent
        /\ UNCHANGED <<joints, cuts>>
        /\ event \in Event /\ emitted \in Seq(Event)
    BY <1>8 DEF Send, TypeOK
  <2>2. /\ Len(emitted') = Len(emitted) + 1
        /\ \A e \in 1 .. Len(emitted) : emitted'[e] = emitted[e]
        /\ emitted'[Len(emitted) + 1] = event
    BY <2>1, AppendProperties
  <2>3. \A e : e \in 1 .. Len(emitted') <=> e \in 1 .. Len(emitted) \/ e = Len(emitted) + 1
    BY <1>1, <2>2
  <2>4. Spoiled' = IF Joined(event) THEN Spoiled \cup {Len(emitted) + 1} ELSE Spoiled
    BY <1>1, <2>2, <2>3 DEF Spoiled, Joined
  <2>5. /\ Cardinality(Spoiled') \in Nat
        /\ Cardinality(Spoiled') <= Cardinality(Spoiled) + (IF Joined(event) THEN 1 ELSE 0)
    <3>1. CASE Joined(event)
      <4>1. Spoiled' = Spoiled \cup {Len(emitted) + 1}
        BY <2>4, <3>1
      <4>2. Cardinality(Spoiled') \in Nat /\ Cardinality(Spoiled') <= Cardinality(Spoiled) + 1
        BY <1>1, <4>1, OneMore
      <4> QED  BY <3>1, <4>2
    <3>2. CASE ~Joined(event)
      BY <1>1, <2>4, <3>2
    <3> QED  BY <3>1, <3>2
  <2>6. ~Joined(event)'
    BY <1>3, <2>1 DEF Joined
  <2>7. Cardinality(Spoiled') + Cardinality(joints) <= cuts
    BY <1>1, <2>5 DEF LineInv, CutsCount
  <2> QED  BY <2>1, <2>6, <2>7 DEF CutsCount
<1> QED
  BY <1>4, <1>5, <1>6, <1>7, <1>8, XrayWrites
  DEF Next, LogStep, ReopenLog, CreateLog, RenameLog, TailStep, OpenAtEnd, FillBuffer,
      ReachEnd, ReadFails, CheckSize, CheckRotation, Reopen, TakeEvent, Crash, Close, vars

(***************************************************************************)
(* An event is one line of the log, except for one at most with each       *)
(* truncation of the file while the reader held the beginning of a line:   *)
(* so they all are while no log is truncated.                              *)
(***************************************************************************)
THEOREM EventsAreLines == Spec => []EmittedAreLines
<1>1. Init => LineInv
  <2> SUFFICES ASSUME Init PROVE LineInv
    OBVIOUS
  <2>1. /\ Len(emitted) = 0 /\ Len(buffer) = 0 /\ \A f \in File : Size(f) = 0
        /\ joints = {} /\ cuts = 0 /\ file = NoFile /\ ~Joined(event)
    BY EmptyFacts DEF Init, Size, NoEvent, Joined
  <2>2. Spoiled = {} /\ Cardinality(Spoiled) = 0 /\ Cardinality(joints) = 0
    BY <2>1, FS_EmptySet DEF Spoiled
  <2> QED  BY <2>1, <2>2 DEF LineInv, PiecesFollow, FreshIsRead, BufferFollows, CutsCount
<1>2. TypeOK /\ Layout /\ LineInv /\ [Next]_vars => LineInv'
  BY PiecesStep, FreshStep, BufferFollowsStep, CutsStep DEF LineInv
<1>3. TypeOK /\ LineInv => EmittedAreLines
  <2> SUFFICES ASSUME TypeOK, LineInv PROVE EmittedAreLines
    OBVIOUS
  <2>1. {i \in DOMAIN emitted : Joined(emitted[i])} = Spoiled
    BY SeqFacts DEF Spoiled
  <2>2. IsFiniteSet(1 .. Len(emitted))
    BY SeqFacts, FS_Interval
  <2>3. Cardinality(Spoiled) \in Nat /\ Cardinality(joints) \in Nat /\ cuts \in Nat
    <3>1. IsFiniteSet(Spoiled)
      BY <2>2, FS_Subset DEF Spoiled
    <3>2. Cardinality(joints) \in Nat
      BY 0 \in Nat, JointsShift
    <3> QED  BY <3>1, <3>2, FS_CardinalityType DEF TypeOK
  <2>4. Cardinality(Spoiled) + (IF Joined(event) THEN 1 ELSE 0) <= cuts
    BY <2>3 DEF LineInv, CutsCount
  <2> QED  BY <2>1, <2>4 DEF EmittedAreLines
<1> QED
  BY <1>1, <1>2, <1>3, TypeInitially, TypeStep, LayoutInitially, LayoutStep, PTL DEF Spec
=============================================================================
