----------------------------- MODULE LogTailProofs -----------------------------
(***************************************************************************)
(* Theorems about LogTail, for logs of any length that are rotated any     *)
(* number of times, at any moment of a request.                            *)
(***************************************************************************)
EXTENDS LogTail, TLAPS, SequenceTheorems

USE LogTailAssumption

-----------------------------------------------------------------------------
(***************************************************************************)
(* The inductive invariant.                                                *)
(***************************************************************************)

\* A file holds lines in the order they were written; none is further ahead in it
\* than its number.
FilesAreInOrder ==
    \A f \in Files :
        /\ \A i \in DOMAIN content[f] : i <= content[f][i] /\ content[f][i] <= lines
        /\ \A i, j \in DOMAIN content[f] : i < j => content[f][i] < content[f][j]

\* The names of the files that rotations have made.
RotationsMakeFiles ==
    /\ path = NoFile => log <= rotations
    /\ path # NoFile => path = log /\ log <= rotations + 1

Reading == {"stat", "copy"}

\* The handler has a file open, and has sent nothing before it reads.
HandlerIsOpen ==
    /\ pc \in {"seek", "stat", "copy"} => file # NoFile
    /\ snapshot = "none" \/ pc \in {"open", "seek", "stat"} => sent = <<>> /\ status = "none"
    /\ pc \in {"open", "seek", "stat", "copy", "end"} => snapshot = "waiting"
    /\ snapshot = "waiting" => pc # "idle"

\* What may still be read is newer than what has been sent, and than the window's
\* beginning, in a file that has shrunk, too.
RestIsNewer ==
    pc \in Reading =>
        /\ first <= lines + 1
        /\ LinesSent = DOMAIN sent
        /\ \A i \in DOMAIN content[file] :
              i > pos => /\ content[file][i] >= first
                         /\ \A k \in DOMAIN sent : sent[k] < content[file][i]

\* What has been sent so far.
SentIsInOrder ==
    /\ \A i \in LinesSent : first <= sent[i] /\ sent[i] <= lines
    /\ \A i, j \in LinesSent : i < j => sent[i] < sent[j]

\* A log that nobody has rotated has grown by the lines of the window, and the
\* pieces that have been copied are the first of them.
WindowIsOpen ==
    pc \in Reading /\ ~disturbed =>
        /\ file = path
        /\ Len(content[file]) = startPos + (lines + 1 - first)
        /\ \A k \in 1 .. Len(content[file]) - startPos :
              content[file][startPos + k] = first + k - 1

CopyIsExact ==
    /\ pc = "stat" => pos = startPos
    /\ pc = "copy" /\ ~disturbed =>
        /\ first <= last + 1 /\ last <= lines
        /\ pos + limit = startPos + (last + 1 - first)
        /\ Len(sent) = pos - startPos
        /\ \A k \in 1 .. Len(sent) : sent[k] = first + k - 1

\* An answer that is complete has the lines of the window.
AnswerIsExact ==
    (pc = "end" \/ snapshot = "ok") /\ status = "200" /\ ~disturbed /\ LinesSent = DOMAIN sent =>
        /\ last + 1 - first \in Nat /\ Len(sent) = last + 1 - first
        /\ \A k \in 1 .. Len(sent) : sent[k] = first + k - 1

OnlyAcceptedIsOk == snapshot = "ok" => status = "200" /\ pc = "idle"

IInv ==
    /\ TypeOK /\ FilesAreInOrder /\ RotationsMakeFiles /\ HandlerIsOpen /\ RestIsNewer
    /\ SentIsInOrder /\ WindowIsOpen /\ CopyIsExact /\ AnswerIsExact /\ OnlyAcceptedIsOk

LEMMA InvariantStart == Init => IInv
<1> SUFFICES ASSUME Init PROVE IInv
  OBVIOUS
<1>1. 1 \in Files /\ <<>> \in Seq(1 .. MaxLines) /\ <<>> \in Seq(0 .. MaxLines) /\ NoFile = 0
  BY DEF Files, NoFile
<1>2. TypeOK
  <2>1. content \in [Files -> Seq(1 .. MaxLines)]
    BY <1>1 DEF Init
  <2>2. /\ path = 1 /\ log = 1 /\ lines = 0 /\ rotations = 0 /\ pc = "idle"
        /\ file = NoFile /\ startPos = 0 /\ pos = 0 /\ limit = 0
        /\ status = "none" /\ sent = <<>> /\ snapshot = "none"
        /\ first = 0 /\ last = 0 /\ disturbed = FALSE
    BY DEF Init
  <2> QED
    <3>1. /\ path \in Files \cup {NoFile} /\ log \in Files /\ file \in Files \cup {NoFile}
          /\ sent \in Seq(0 .. MaxLines)
      BY <1>1, <2>2
    <3>2. /\ lines \in 0 .. MaxLines /\ rotations \in 0 .. MaxRotations
          /\ startPos \in 0 .. MaxLines /\ pos \in 0 .. MaxLines /\ limit \in 0 .. MaxLines
          /\ first \in 0 .. MaxLines + 1 /\ last \in 0 .. MaxLines
      BY <2>2
    <3> QED
      BY <2>1, <2>2, <3>1, <3>2 DEF TypeOK
<1>3. \A f \in Files : DOMAIN content[f] = {}
  BY DEF Init
<1>4. DOMAIN sent = {} /\ LinesSent = {}
  BY DEF Init, LinesSent
<1>5. FilesAreInOrder /\ RotationsMakeFiles /\ HandlerIsOpen /\ RestIsNewer
  BY <1>1, <1>3 DEF Init, FilesAreInOrder, RotationsMakeFiles, HandlerIsOpen, RestIsNewer, Reading, NoFile
<1>6. SentIsInOrder /\ WindowIsOpen /\ CopyIsExact /\ AnswerIsExact /\ OnlyAcceptedIsOk
  BY <1>4 DEF Init, SentIsInOrder, WindowIsOpen, CopyIsExact, AnswerIsExact, OnlyAcceptedIsOk, Reading
<1> QED
  BY <1>2, <1>5, <1>6 DEF IInv

\* A file has no more lines than have been written.
LEMMA FilesAreShort ==
    ASSUME TypeOK, FilesAreInOrder, NEW f \in Files
    PROVE  /\ content[f] \in Seq(1 .. MaxLines) /\ Len(content[f]) \in 0 .. lines
           /\ DOMAIN content[f] = 1 .. Len(content[f])
           /\ \A i \in 1 .. Len(content[f]) : content[f][i] \in 1 .. MaxLines
<1>1. content[f] \in Seq(1 .. MaxLines) /\ lines \in Nat
  BY DEF TypeOK
<1>2. /\ Len(content[f]) \in Nat /\ DOMAIN content[f] = 1 .. Len(content[f])
      /\ \A i \in 1 .. Len(content[f]) : content[f][i] \in 1 .. MaxLines
  BY <1>1
<1>3. Len(content[f]) <= lines
  <2>1. CASE Len(content[f]) = 0
    BY <1>1, <2>1
  <2>2. CASE Len(content[f]) # 0
    <3>1. Len(content[f]) \in DOMAIN content[f]
      BY <1>2, <2>2
    <3>2. Len(content[f]) <= content[f][Len(content[f])] /\ content[f][Len(content[f])] <= lines
      BY <3>1 DEF FilesAreInOrder
    <3>3. content[f][Len(content[f])] \in Nat
      BY <1>2, <3>1
    <3> QED
      BY <1>1, <1>2, <3>2, <3>3
  <2> QED
    BY <2>1, <2>2
<1> QED
  BY <1>1, <1>2, <1>3

LEMMA SentIsSequence ==
    ASSUME TypeOK
    PROVE  /\ Len(sent) \in Nat /\ DOMAIN sent = 1 .. Len(sent)
           /\ \A i \in 1 .. Len(sent) : sent[i] \in 0 .. MaxLines
BY DEF TypeOK

-----------------------------------------------------------------------------
(***************************************************************************)
(* The log.                                                                *)
(***************************************************************************)

LEMMA WriteLineStep == ASSUME IInv, WriteLine PROVE IInv'
<1>1. TypeOK /\ log \in Files /\ lines \in Nat /\ lines' = lines + 1 /\ lines' \in 0 .. MaxLines
  BY DEF IInv, TypeOK, WriteLine
<1> DEFINE n == Len(content[log])
<1>2. /\ n \in 0 .. lines /\ content[log] \in Seq(1 .. MaxLines)
      /\ DOMAIN content[log] = 1 .. n
  BY <1>1, FilesAreShort DEF IInv
<1>3. /\ content'[log] = Append(content[log], lines + 1)
      /\ \A f \in Files : f # log => content'[f] = content[f]
  BY <1>1 DEF WriteLine, TypeOK
<1>4. /\ Len(content'[log]) = n + 1 /\ DOMAIN content'[log] = 1 .. n + 1
      /\ content'[log][n + 1] = lines + 1
      /\ \A i \in 1 .. n : content'[log][i] = content[log][i]
  BY <1>2, <1>3
<1>5. TypeOK'
  <2>1. lines + 1 \in 1 .. MaxLines
    BY <1>1
  <2>2. content'[log] \in Seq(1 .. MaxLines)
    BY <1>2, <1>3, <2>1
  <2>3. content' \in [Files -> Seq(1 .. MaxLines)]
    BY <1>1, <2>1, <1>2 DEF WriteLine, TypeOK
  <2> QED
    BY <1>1, <2>3 DEF WriteLine, TypeOK, tailVars, history
<1>6. FilesAreInOrder'
  <2>1. \A f \in Files : \A i \in DOMAIN content[f] : content[f][i] \in Nat
    BY <1>1, FilesAreShort DEF IInv
  <2>2. ASSUME NEW f \in Files, f # log
        PROVE  /\ \A i \in DOMAIN content'[f] : i <= content'[f][i] /\ content'[f][i] <= lines'
               /\ \A i, j \in DOMAIN content'[f] : i < j => content'[f][i] < content'[f][j]
    BY <1>1, <1>3, <2>1, <2>2 DEF IInv, FilesAreInOrder
  <2>3. /\ \A i \in 1 .. n : i <= content[log][i] /\ content[log][i] <= lines
        /\ \A i, j \in 1 .. n : i < j => content[log][i] < content[log][j]
        /\ \A i \in 1 .. n : content[log][i] \in Nat
    BY <1>1, <1>2, <2>1 DEF IInv, FilesAreInOrder
  <2>4. /\ \A i \in 1 .. n + 1 : i <= content'[log][i] /\ content'[log][i] <= lines + 1
        /\ \A i, j \in 1 .. n + 1 : i < j => content'[log][i] < content'[log][j]
    <3> HIDE DEF n
    <3>1. n \in Nat /\ n <= lines
      BY <1>2
    <3> QED
      BY <1>1, <1>4, <2>3, <3>1
  <2> QED
    BY <1>1, <1>4, <2>2, <2>4 DEF FilesAreInOrder
<1>7. RotationsMakeFiles' /\ HandlerIsOpen' /\ OnlyAcceptedIsOk'
  BY DEF IInv, WriteLine, RotationsMakeFiles, HandlerIsOpen, OnlyAcceptedIsOk, tailVars
<1>8. SentIsInOrder' /\ LinesSent' = LinesSent
  <2>1. LinesSent' = LinesSent
    BY DEF WriteLine, tailVars, LinesSent, ErrorText
  <2>2. \A i \in LinesSent : sent[i] \in Nat
    BY <1>1, SentIsSequence DEF LinesSent
  <2> QED
    BY <1>1, <2>1, <2>2 DEF IInv, SentIsInOrder, WriteLine, tailVars, history
<1>9. RestIsNewer'
  <2> SUFFICES ASSUME pc \in Reading PROVE RestIsNewer'
    BY DEF RestIsNewer, WriteLine, tailVars
  <2>1. file \in Files /\ first \in Nat /\ pos \in Nat /\ first <= lines + 1
    BY <1>1 DEF IInv, TypeOK, HandlerIsOpen, RestIsNewer, Reading
  <2>2. \A k \in DOMAIN sent : sent[k] \in Nat /\ sent[k] <= lines
    <3>1. DOMAIN sent = LinesSent
      BY DEF IInv, RestIsNewer
    <3> QED
      BY <3>1, <1>1, SentIsSequence DEF IInv, SentIsInOrder
  <2>3. \A i \in DOMAIN content[file] :
           i > pos => /\ content[file][i] >= first
                      /\ \A k \in DOMAIN sent : sent[k] < content[file][i]
    BY DEF IInv, RestIsNewer
  <2>4. \A i \in DOMAIN content'[file] :
           \/ content'[file][i] = lines + 1
           \/ i \in DOMAIN content[file] /\ content'[file][i] = content[file][i]
    <3>1. CASE file = log
      BY <1>2, <1>4, <3>1
    <3>2. CASE file # log
      BY <1>3, <2>1, <3>2
    <3> QED
      BY <3>1, <3>2
  <2>5. ASSUME NEW i \in DOMAIN content'[file], i > pos
        PROVE  /\ content'[file][i] >= first
               /\ \A k \in DOMAIN sent : sent[k] < content'[file][i]
    <3>1. CASE content'[file][i] = lines + 1
      BY <1>1, <2>1, <2>2, <3>1
    <3>2. CASE i \in DOMAIN content[file] /\ content'[file][i] = content[file][i]
      BY <2>3, <2>5, <3>2
    <3> QED
      BY <2>4, <3>1, <3>2
  <2>6. first <= lines' + 1 /\ LinesSent' = DOMAIN sent
    BY <1>1, <1>8, <2>1 DEF IInv, RestIsNewer
  <2> QED
    BY <2>5, <2>6 DEF RestIsNewer, WriteLine, tailVars, history
<1>10. WindowIsOpen'
  <2> SUFFICES ASSUME pc \in Reading, ~disturbed PROVE WindowIsOpen'
    BY DEF WindowIsOpen, WriteLine, tailVars, history
  <2>1. /\ file = path /\ file = log /\ first \in Nat /\ startPos \in Nat
        /\ n = startPos + (lines + 1 - first) /\ first <= lines + 1
        /\ \A k \in 1 .. n - startPos : content[log][startPos + k] = first + k - 1
    <3>1. /\ file = path /\ Len(content[file]) = startPos + (lines + 1 - first)
          /\ \A k \in 1 .. Len(content[file]) - startPos :
                content[file][startPos + k] = first + k - 1
      BY DEF IInv, WindowIsOpen
    <3>2. file # NoFile
      BY DEF IInv, HandlerIsOpen, Reading
    <3>3. file = log /\ first <= lines + 1
      BY <3>1, <3>2 DEF IInv, RotationsMakeFiles, RestIsNewer
    <3>4. first \in Nat /\ startPos \in Nat
      BY <1>1 DEF TypeOK
    <3> QED
      BY <3>1, <3>3, <3>4
  <2>2. n + 1 = startPos + (lines' + 1 - first)
    BY <1>1, <1>2, <2>1
  <2>3. ASSUME NEW k \in 1 .. n + 1 - startPos
        PROVE  content'[log][startPos + k] = first + k - 1
    <3>1. CASE k = n + 1 - startPos
      BY <1>1, <1>2, <1>4, <2>1, <3>1
    <3>2. CASE k # n + 1 - startPos
      <4>1. k \in 1 .. n - startPos /\ startPos + k \in 1 .. n
        BY <1>2, <2>1, <3>2
      <4> QED
        BY <1>4, <2>1, <4>1
    <3> QED
      BY <3>1, <3>2
  <2> HIDE DEF n
  <2>4. /\ file' = path' /\ file' = log /\ startPos' = startPos /\ first' = first
        /\ Len(content'[log]) = n + 1 /\ n \in Nat /\ first \in Nat /\ startPos \in Nat
    <3> USE DEF n
    <3> QED
      BY <1>2, <1>4, <2>1 DEF WriteLine, tailVars, history
  <2>5. Len(content'[file']) = n + 1
    BY <2>4
  <2>6. \A k \in 1 .. Len(content'[file']) - startPos' :
           content'[file'][startPos' + k] = first' + k - 1
    <3>1. 1 .. Len(content'[file']) - startPos' = 1 .. n + 1 - startPos
      BY <2>4, <2>5
    <3>2. ASSUME NEW k \in 1 .. n + 1 - startPos
          PROVE  content'[file'][startPos' + k] = first' + k - 1
      <4>1. content'[log][startPos + k] = first + k - 1
        BY <2>3
      <4> QED
        BY <2>4, <4>1
    <3> QED
      BY <3>1, <3>2
  <2>7. Len(content'[file']) = startPos' + (lines' + 1 - first')
    BY <2>2, <2>4, <2>5
  <2> QED
    BY <2>4, <2>6, <2>7 DEF WindowIsOpen
<1>11. CopyIsExact' /\ AnswerIsExact'
  <2>1. last \in Nat /\ last + 1 - first = last + 1 - first
    BY DEF IInv, TypeOK
  <2> QED
    BY <1>1, <1>8, <2>1 DEF IInv, CopyIsExact, AnswerIsExact, WriteLine, tailVars, history
<1> QED
  BY <1>5, <1>6, <1>7, <1>8, <1>9, <1>10, <1>11 DEF IInv

LEMMA RenameStep == ASSUME IInv, Rename PROVE IInv'
<1>1. TypeOK /\ rotations' = rotations + 1 /\ disturbed' /\ path' = NoFile /\ path # NoFile
  BY DEF IInv, Rename
<1>2. LinesSent' = LinesSent
  BY DEF Rename, tailVars, LinesSent, ErrorText
<1>3. TypeOK'
  BY <1>1 DEF TypeOK, Rename, tailVars
<1>4. RotationsMakeFiles'
  BY <1>1 DEF IInv, TypeOK, Files, RotationsMakeFiles, Rename
<1>5. FilesAreInOrder' /\ HandlerIsOpen' /\ OnlyAcceptedIsOk'
  BY DEF IInv, FilesAreInOrder, HandlerIsOpen, OnlyAcceptedIsOk, Rename, tailVars
<1>6. RestIsNewer' /\ SentIsInOrder'
  BY <1>2 DEF IInv, RestIsNewer, SentIsInOrder, Rename, tailVars
<1>7. WindowIsOpen' /\ CopyIsExact' /\ AnswerIsExact'
  BY <1>1 DEF IInv, WindowIsOpen, CopyIsExact, AnswerIsExact, Rename, tailVars
<1> QED
  BY <1>3, <1>4, <1>5, <1>6, <1>7 DEF IInv

LEMMA ReopenStep == ASSUME IInv, Reopen PROVE IInv'
<1>1. TypeOK /\ path = NoFile /\ path' = log + 1 /\ log' = log + 1
  BY DEF IInv, Reopen
<1>2. LinesSent' = LinesSent
  BY DEF Reopen, tailVars, LinesSent, ErrorText
<1>3. log \in Nat /\ log <= rotations /\ rotations \in 0 .. MaxRotations /\ log + 1 \in Files /\ log + 1 # NoFile
  BY <1>1 DEF IInv, TypeOK, Files, NoFile, RotationsMakeFiles
<1>4. TypeOK'
  BY <1>1, <1>3 DEF TypeOK, Reopen, tailVars, history
<1>5. RotationsMakeFiles'
  BY <1>1, <1>3 DEF RotationsMakeFiles, Reopen
<1>6. FilesAreInOrder' /\ HandlerIsOpen' /\ OnlyAcceptedIsOk'
  BY DEF IInv, FilesAreInOrder, HandlerIsOpen, OnlyAcceptedIsOk, Reopen, tailVars
<1>7. RestIsNewer' /\ SentIsInOrder'
  BY <1>2 DEF IInv, RestIsNewer, SentIsInOrder, Reopen, tailVars, history
<1>8. pc \in Reading => disturbed
  BY <1>1 DEF IInv, WindowIsOpen, HandlerIsOpen, Reading
<1>9. WindowIsOpen' /\ CopyIsExact' /\ AnswerIsExact'
  BY <1>2, <1>8 DEF IInv, WindowIsOpen, CopyIsExact, AnswerIsExact, Reopen, tailVars, history
<1> QED
  BY <1>4, <1>5, <1>6, <1>7, <1>9 DEF IInv

LEMMA EmptyStep == ASSUME IInv, Empty PROVE IInv'
<1>1. TypeOK /\ rotations' = rotations + 1 /\ rotations < MaxRotations /\ disturbed' /\ path \in Files
  BY DEF IInv, TypeOK, Empty
<1>2. LinesSent' = LinesSent
  BY DEF Empty, tailVars, LinesSent, ErrorText
<1>3. /\ content'[path] = <<>> /\ DOMAIN content'[path] = {}
      /\ \A f \in Files : f # path => content'[f] = content[f]
  BY <1>1 DEF TypeOK, Empty
<1>4. TypeOK'
  <2>1. content' \in [Files -> Seq(1 .. MaxLines)]
    BY <1>1 DEF TypeOK, Empty
  <2>2. rotations' \in 0 .. MaxRotations
    BY <1>1 DEF TypeOK
  <2> QED
    BY <1>1, <2>1, <2>2 DEF TypeOK, Empty, tailVars
<1>5. RotationsMakeFiles'
  BY <1>1 DEF IInv, TypeOK, Files, RotationsMakeFiles, Empty
<1>6. FilesAreInOrder'
  <2>1. ASSUME NEW f \in Files
        PROVE  /\ \A i \in DOMAIN content'[f] : i <= content'[f][i] /\ content'[f][i] <= lines
               /\ \A i, j \in DOMAIN content'[f] : i < j => content'[f][i] < content'[f][j]
    <3>1. CASE f = path
      BY <1>3, <3>1
    <3>2. CASE f # path
      BY <1>3, <3>2 DEF IInv, FilesAreInOrder
    <3> QED
      BY <3>1, <3>2
  <2> QED
    BY <2>1 DEF FilesAreInOrder, Empty
<1>7. HandlerIsOpen' /\ OnlyAcceptedIsOk' /\ SentIsInOrder'
  BY <1>2 DEF IInv, HandlerIsOpen, OnlyAcceptedIsOk, SentIsInOrder, Empty, tailVars
<1>8. RestIsNewer'
  <2> SUFFICES ASSUME pc \in Reading PROVE RestIsNewer'
    BY DEF RestIsNewer, Empty, tailVars
  <2>1. file \in Files
    BY <1>1 DEF IInv, TypeOK, HandlerIsOpen, Reading
  <2>2. \A i \in DOMAIN content'[file] : i \in DOMAIN content[file] /\ content'[file][i] = content[file][i]
    BY <1>3, <2>1
  <2> QED
    BY <1>2, <2>2 DEF IInv, RestIsNewer, Empty, tailVars
<1>9. WindowIsOpen' /\ CopyIsExact' /\ AnswerIsExact'
  BY <1>1 DEF IInv, WindowIsOpen, CopyIsExact, AnswerIsExact, Empty, tailVars
<1> QED
  BY <1>4, <1>5, <1>6, <1>7, <1>8, <1>9 DEF IInv

-----------------------------------------------------------------------------
(***************************************************************************)
(* The handler and its client.                                             *)
(***************************************************************************)

\* What the handler and the client do leaves the log alone.
LEMMA LogIsLeftAlone ==
    ASSUME FilesAreInOrder, RotationsMakeFiles, UNCHANGED logVars
    PROVE  FilesAreInOrder' /\ RotationsMakeFiles'
BY DEF FilesAreInOrder, RotationsMakeFiles, logVars

\* An answer that ends with the text of an error is none of a whole window.
LEMMA ErrorIsTold ==
    ASSUME TypeOK, Failed
    PROVE  /\ sent' \in Seq(0 .. MaxLines) /\ sent' # <<>>
           /\ LinesSent' = LinesSent /\ LinesSent' # DOMAIN sent'
           /\ \A i \in LinesSent : sent'[i] = sent[i]
<1>1. sent' = Append(sent, ErrorText) /\ ErrorText = 0
  BY DEF Failed, ErrorText
<1>2. sent' \in Seq(0 .. MaxLines)
  BY <1>1 DEF TypeOK
<1>3. /\ Len(sent) \in Nat /\ DOMAIN sent = 1 .. Len(sent) /\ DOMAIN sent' = 1 .. Len(sent) + 1
      /\ sent'[Len(sent) + 1] = ErrorText /\ \A i \in 1 .. Len(sent) : sent'[i] = sent[i]
  BY <1>1 DEF TypeOK
<1>4. LinesSent' = {i \in DOMAIN sent' : sent'[i] # ErrorText}
  BY DEF LinesSent, ErrorText
<1>5. LinesSent' = LinesSent
  BY <1>3, <1>4 DEF LinesSent
<1>6. Len(sent) + 1 \in DOMAIN sent' /\ Len(sent) + 1 \notin LinesSent'
  BY <1>3, <1>4
<1> QED
  BY <1>2, <1>3, <1>5, <1>6 DEF LinesSent

LEMMA OpenStep == ASSUME IInv, Open PROVE IInv'
<1>1. TypeOK /\ pc = "open" /\ snapshot = "waiting" /\ sent = <<>>
  BY DEF IInv, Open, HandlerIsOpen
<1>2. FilesAreInOrder' /\ RotationsMakeFiles'
  BY LogIsLeftAlone DEF IInv, Open
<1>3. CASE path # NoFile /\ pc' = "seek" /\ file' = path /\ UNCHANGED <<status, sent>>
  <2>1. TypeOK'
    BY <1>1, <1>3 DEF TypeOK, Open, logVars, history
  <2>2. LinesSent' = LinesSent
    BY <1>3 DEF LinesSent, ErrorText
  <2>3. HandlerIsOpen' /\ OnlyAcceptedIsOk'
    BY <1>1, <1>3 DEF IInv, HandlerIsOpen, OnlyAcceptedIsOk, Open
  <2>4. RestIsNewer' /\ WindowIsOpen' /\ CopyIsExact' /\ AnswerIsExact'
    BY <1>1, <1>3 DEF RestIsNewer, WindowIsOpen, CopyIsExact, AnswerIsExact, Reading, Open
  <2>5. SentIsInOrder'
    BY <1>3, <2>2 DEF IInv, SentIsInOrder, Open, logVars, history
  <2> QED
    BY <1>2, <2>1, <2>3, <2>4, <2>5 DEF IInv
<1>4. CASE path = NoFile /\ Failed /\ UNCHANGED file
  <2>1. pc' = "end" /\ status' = "500"
    BY <1>1, <1>4 DEF Failed
  <2>2. TypeOK'
    BY <1>1, <1>4, <2>1, ErrorIsTold DEF TypeOK, Open, logVars, history
  <2>3. HandlerIsOpen' /\ OnlyAcceptedIsOk'
    BY <1>1, <2>1 DEF HandlerIsOpen, OnlyAcceptedIsOk, Open
  <2>4. RestIsNewer' /\ WindowIsOpen' /\ CopyIsExact' /\ AnswerIsExact'
    BY <2>1 DEF RestIsNewer, WindowIsOpen, CopyIsExact, AnswerIsExact, Reading
  <2>5. LinesSent' = {}
    BY <1>1, <1>4, ErrorIsTold DEF LinesSent
  <2>6. SentIsInOrder'
    BY <2>5 DEF SentIsInOrder
  <2> QED
    BY <1>2, <2>2, <2>3, <2>4, <2>6 DEF IInv
<1> QED
  BY <1>3, <1>4 DEF Open

LEMMA SeekStep == ASSUME IInv, Seek PROVE IInv'
<1>1. /\ TypeOK /\ pc = "seek" /\ pc' = "stat" /\ snapshot = "waiting" /\ file \in Files
      /\ sent = <<>> /\ status = "none"
  BY DEF IInv, Seek, HandlerIsOpen, TypeOK
<1>2. FilesAreInOrder' /\ RotationsMakeFiles'
  BY LogIsLeftAlone DEF IInv, Seek
<1>3. /\ Len(content[file]) \in 0 .. lines /\ DOMAIN content[file] = 1 .. Len(content[file])
      /\ lines \in 0 .. MaxLines
  BY <1>1, FilesAreShort DEF IInv, TypeOK
<1>4. /\ startPos' = Len(content[file]) /\ pos' = Len(content[file])
      /\ first' = lines + 1 /\ disturbed' = (path # file)
      /\ UNCHANGED <<content, path, lines, log, rotations, file, limit, status, sent, snapshot, last>>
  BY DEF Seek, logVars
<1>5. TypeOK'
  <2>1. startPos' \in 0 .. MaxLines /\ pos' \in 0 .. MaxLines /\ first' \in 0 .. MaxLines + 1
    BY <1>3, <1>4
  <2>2. disturbed' \in BOOLEAN
    BY <1>4
  <2> QED
    BY <1>1, <1>4, <2>1, <2>2 DEF TypeOK
<1>6. HandlerIsOpen' /\ OnlyAcceptedIsOk'
  BY <1>1, <1>4 DEF IInv, HandlerIsOpen, OnlyAcceptedIsOk
<1>7. DOMAIN sent' = {} /\ LinesSent' = {}
  BY <1>1, <1>4 DEF LinesSent
<1>8. SentIsInOrder'
  BY <1>7 DEF SentIsInOrder
<1>9. RestIsNewer'
  <2>1. \A i \in DOMAIN content'[file'] : ~ i > pos'
    BY <1>3, <1>4
  <2>2. first' <= lines' + 1
    BY <1>3, <1>4
  <2> QED
    BY <1>7, <2>1, <2>2 DEF RestIsNewer
<1>10. WindowIsOpen'
  <2> SUFFICES ASSUME path = file PROVE WindowIsOpen'
    BY <1>4 DEF WindowIsOpen
  <2>1. Len(content'[file']) = startPos' + (lines' + 1 - first')
    <3>1. lines' + 1 - first' = 0 /\ startPos' \in Nat
      BY <1>3, <1>4
    <3>2. Len(content'[file']) = startPos'
      BY <1>4
    <3> QED
      BY <3>1, <3>2
  <2>2. 1 .. Len(content'[file']) - startPos' = {}
    BY <1>3, <1>4
  <2> QED
    BY <1>4, <2>1, <2>2 DEF WindowIsOpen
<1>11. CopyIsExact' /\ AnswerIsExact'
  BY <1>1, <1>4 DEF CopyIsExact, AnswerIsExact
<1> QED
  BY <1>2, <1>5, <1>6, <1>8, <1>9, <1>10, <1>11 DEF IInv

LEMMA StatStep == ASSUME IInv, Stat PROVE IInv'
<1>1. /\ TypeOK /\ pc = "stat" /\ pc' = "copy" /\ snapshot = "waiting" /\ file \in Files
      /\ sent = <<>> /\ pos = startPos
  BY DEF IInv, Stat, HandlerIsOpen, CopyIsExact, TypeOK
<1>2. FilesAreInOrder' /\ RotationsMakeFiles'
  BY LogIsLeftAlone DEF IInv, Stat
<1> DEFINE n == Len(content[file])
<1>3. n \in 0 .. lines /\ lines \in 0 .. MaxLines /\ startPos \in 0 .. MaxLines /\ first \in Nat
  BY <1>1, FilesAreShort DEF IInv, TypeOK
<1>4. /\ limit' = IF n > startPos THEN n - startPos ELSE 0
      /\ last' = lines
      /\ UNCHANGED <<content, path, lines, log, rotations, file, startPos, pos, status, sent,
                     snapshot, first, disturbed>>
  BY DEF Stat, logVars
<1>5. TypeOK'
  <2>1. limit' \in 0 .. MaxLines
    BY <1>3, <1>4
  <2> QED
    BY <1>1, <1>3, <1>4, <2>1 DEF TypeOK
<1>6. LinesSent' = LinesSent
  BY <1>4 DEF LinesSent, ErrorText
<1>7. HandlerIsOpen' /\ OnlyAcceptedIsOk'
  BY <1>1, <1>4 DEF IInv, HandlerIsOpen, OnlyAcceptedIsOk
<1>8. SentIsInOrder' /\ RestIsNewer' /\ WindowIsOpen'
  BY <1>1, <1>4, <1>6 DEF IInv, SentIsInOrder, RestIsNewer, WindowIsOpen, Reading
<1>9. CopyIsExact'
  <2> SUFFICES ASSUME ~disturbed PROVE CopyIsExact'
    BY <1>1, <1>4 DEF CopyIsExact
  <2>1. n = startPos + (lines + 1 - first) /\ first <= lines + 1
    BY <1>1 DEF IInv, WindowIsOpen, RestIsNewer, Reading
  <2>2. n >= startPos /\ limit' = n - startPos
    BY <1>3, <1>4, <2>1
  <2>3. pos' + limit' = startPos' + (last' + 1 - first')
    BY <1>1, <1>3, <1>4, <2>1, <2>2
  <2>4. first' <= last' + 1 /\ last' <= lines'
    BY <1>3, <1>4, <2>1
  <2>5. Len(sent') = 0 /\ pos' - startPos' = 0 /\ 1 .. Len(sent') = {}
    BY <1>1, <1>3, <1>4
  <2> QED
    BY <1>1, <2>3, <2>4, <2>5 DEF CopyIsExact
<1>10. AnswerIsExact'
  BY <1>1, <1>4 DEF AnswerIsExact
<1> QED
  BY <1>2, <1>5, <1>7, <1>8, <1>9, <1>10 DEF IInv

\* What the answer is after a piece of the file has been written to it.
LEMMA PieceIsAppended ==
    ASSUME NEW S, NEW s \in Seq(S), NEW c \in Seq(S), NEW p \in Nat, NEW n \in Nat, p + n <= Len(c)
    PROVE  LET t == s \o SubSeq(c, p + 1, p + n) IN
           /\ t \in Seq(S) /\ Len(t) = Len(s) + n /\ DOMAIN t = 1 .. Len(s) + n
           /\ \A k \in 1 .. Len(s) : t[k] = s[k]
           /\ \A k \in Len(s) + 1 .. Len(s) + n : t[k] = c[p + (k - Len(s))]
<1> DEFINE u == SubSeq(c, p + 1, p + n)
<1>1. Len(s) \in Nat /\ Len(c) \in Nat
  OBVIOUS
<1>2. u \in Seq(S) /\ Len(u) = n /\ \A k \in 1 .. n : u[k] = c[p + k]
  <2>1. \A i \in p + 1 .. p + n : c[i] \in S
    BY <1>1
  <2>2. u \in Seq(S) /\ Len(u) = IF p + 1 <= p + n THEN p + n - (p + 1) + 1 ELSE 0
    BY <2>1, SubSeqProperties
  <2>3. Len(u) = n
    BY <2>2
  <2>4. ASSUME NEW k \in 1 .. n PROVE u[k] = c[p + k]
    BY <2>1, <2>4, SubSeqProperties
  <2> QED
    BY <2>2, <2>3, <2>4
<1> HIDE DEF u
<1>3. /\ s \o u \in Seq(S) /\ Len(s \o u) = Len(s) + n
      /\ \A k \in 1 .. Len(s) + n : (s \o u)[k] = IF k <= Len(s) THEN s[k] ELSE u[k - Len(s)]
  BY <1>2, ConcatProperties
<1>4. DOMAIN (s \o u) = 1 .. Len(s) + n
  BY <1>3
<1>5. ASSUME NEW k \in 1 .. Len(s) PROVE (s \o u)[k] = s[k]
  BY <1>1, <1>3
<1>6. ASSUME NEW k \in Len(s) + 1 .. Len(s) + n PROVE (s \o u)[k] = c[p + (k - Len(s))]
  <2>1. k \in 1 .. Len(s) + n /\ ~ k <= Len(s) /\ k - Len(s) \in 1 .. n
    BY <1>1
  <2> QED
    BY <1>2, <1>3, <2>1
<1> QED
  BY <1>3, <1>4, <1>5, <1>6 DEF u

LEMMA CopyPieceStep == ASSUME IInv, CopyPiece PROVE IInv'
<1>1. /\ TypeOK /\ pc = "copy" /\ snapshot = "waiting" /\ file \in Files /\ file # NoFile
      /\ first <= lines + 1 /\ LinesSent = DOMAIN sent
  BY DEF IInv, CopyPiece, HandlerIsOpen, RestIsNewer, Reading, TypeOK
<1>2. /\ FilesAreInOrder' /\ RotationsMakeFiles' /\ FilesAreInOrder
  BY LogIsLeftAlone DEF IInv, CopyPiece
<1>2a. PICK c \in Seq(1 .. MaxLines) :
        /\ c = content[file] /\ Len(c) \in 0 .. lines /\ DOMAIN c = 1 .. Len(c)
        /\ \A i \in 1 .. Len(c) : c[i] \in 1 .. MaxLines
  BY <1>1, FilesAreShort DEF IInv
<1>3. /\ c = content[file] /\ Len(c) \in 0 .. lines /\ DOMAIN c = 1 .. Len(c)
      /\ \A i \in 1 .. Len(c) : c[i] \in 1 .. MaxLines
      /\ lines \in 0 .. MaxLines /\ startPos \in 0 .. MaxLines /\ pos \in 0 .. MaxLines
      /\ limit \in 0 .. MaxLines /\ first \in Nat
  BY <1>1, <1>2a DEF IInv, TypeOK
<1>4. PICK l \in Nat : l = Len(sent) /\ DOMAIN sent = 1 .. l /\ \A i \in 1 .. l : sent[i] \in 0 .. MaxLines
  BY <1>1, SentIsSequence
<1>5. PICK n \in Nat :
        /\ 1 <= n /\ n <= limit /\ pos + n <= Len(c) /\ sent' = sent \o SubSeq(c, pos + 1, pos + n)
        /\ pos' = pos + n /\ limit' = limit - n
  <2>1. PICK n \in 1 .. limit :
          /\ pos + n <= Len(content[file])
          /\ sent' = sent \o SubSeq(content[file], pos + 1, pos + n)
          /\ pos' = pos + n /\ limit' = limit - n
    BY DEF CopyPiece
  <2>2. n \in Nat /\ 1 <= n /\ n <= limit
    BY <1>3
  <2> QED
    BY <1>3, <2>1, <2>2
<1>6. /\ pc' = "copy" /\ status' = "200"
      /\ UNCHANGED <<content, path, lines, log, rotations, file, startPos, snapshot, first, last, disturbed>>
  BY <1>1 DEF CopyPiece, logVars, history
<1>7. /\ sent' \in Seq(0 .. MaxLines) /\ Len(sent') = l + n /\ DOMAIN sent' = 1 .. l + n
      /\ \A k \in 1 .. l : sent'[k] = sent[k]
      /\ \A k \in l + 1 .. l + n : sent'[k] = c[pos + (k - l)]
  <2>1. sent \in Seq(0 .. MaxLines) /\ c \in Seq(0 .. MaxLines)
    BY <1>1, <1>3 DEF TypeOK
  <2>2. pos \in Nat /\ pos + n <= Len(c)
    BY <1>3, <1>5
  <2>3. LET t == sent \o SubSeq(c, pos + 1, pos + n) IN
        /\ t \in Seq(0 .. MaxLines) /\ Len(t) = Len(sent) + n /\ DOMAIN t = 1 .. Len(sent) + n
        /\ \A k \in 1 .. Len(sent) : t[k] = sent[k]
        /\ \A k \in Len(sent) + 1 .. Len(sent) + n : t[k] = c[pos + (k - Len(sent))]
    BY <2>1, <2>2, PieceIsAppended
  <2> QED
    BY <1>4, <1>5, <2>3
<1>8. /\ \A i \in 1 .. Len(c) : i > pos => c[i] >= first /\ \A k \in 1 .. l : sent[k] < c[i]
      /\ \A i, j \in 1 .. Len(c) : i < j => c[i] < c[j]
      /\ \A i \in 1 .. Len(c) : c[i] <= lines
  BY <1>1, <1>2, <1>3, <1>4 DEF IInv, RestIsNewer, FilesAreInOrder, Reading
<1>9. /\ \A i \in 1 .. l : first <= sent[i] /\ sent[i] <= lines /\ sent[i] # ErrorText
      /\ \A i, j \in 1 .. l : i < j => sent[i] < sent[j]
  BY <1>1, <1>4 DEF IInv, SentIsInOrder, LinesSent
<1>10. ASSUME NEW k \in l + 1 .. l + n
       PROVE  /\ pos + (k - l) \in 1 .. Len(c) /\ pos + (k - l) > pos /\ pos + (k - l) <= pos + n
              /\ sent'[k] = c[pos + (k - l)]
  <2>1. k - l \in Nat /\ 1 <= k - l /\ k - l <= n
    OBVIOUS
  <2>2. pos + (k - l) <= pos + n /\ pos + (k - l) > pos /\ pos + (k - l) \in Nat
    BY <1>3, <2>1
  <2>3. pos + (k - l) \in 1 .. Len(c)
    BY <1>3, <1>5, <2>2
  <2> QED
    BY <1>7, <2>2, <2>3
<1>10a. \A k \in 1 .. l + n : k \in 1 .. l \/ k \in l + 1 .. l + n
  OBVIOUS
<1>11. ASSUME NEW k \in 1 .. l + n
       PROVE  sent'[k] \in Nat /\ first <= sent'[k] /\ sent'[k] <= lines /\ sent'[k] # ErrorText
  <2>1. CASE k \in 1 .. l
    BY <1>4, <1>7, <1>9, <2>1
  <2>2. CASE k \in l + 1 .. l + n
    <3>1. /\ sent'[k] = c[pos + (k - l)] /\ c[pos + (k - l)] \in 1 .. MaxLines
          /\ c[pos + (k - l)] >= first /\ c[pos + (k - l)] <= lines
      BY <1>3, <1>8, <1>10, <2>2
    <3> QED
      BY <3>1 DEF ErrorText
  <2> QED
    BY <1>10a, <2>1, <2>2
<1>12. ASSUME NEW j \in 1 .. l + n, NEW k \in 1 .. l + n, j < k PROVE sent'[j] < sent'[k]
  <2>1. CASE k \in 1 .. l
    <3>1. j \in 1 .. l
      BY <1>4, <1>5, <1>12, <2>1
    <3> QED
      BY <1>7, <1>9, <1>12, <2>1, <3>1
  <2>2. CASE j \in 1 .. l /\ k \in l + 1 .. l + n
    BY <1>7, <1>8, <1>10, <2>2
  <2>3. CASE j \in l + 1 .. l + n
    <3>1. k \in l + 1 .. l + n
      BY <1>4, <1>5, <1>12, <2>3
    <3>2. pos + (j - l) < pos + (k - l)
      BY <1>3, <1>4, <1>5, <1>12
    <3> QED
      BY <1>8, <1>10, <2>3, <3>1, <3>2
  <2> QED
    BY <1>10a, <2>1, <2>2, <2>3
<1>13. LinesSent' = DOMAIN sent' /\ DOMAIN sent' = 1 .. l + n
  <2>1. LinesSent' = {i \in DOMAIN sent' : sent'[i] # ErrorText}
    BY DEF LinesSent, ErrorText
  <2> QED
    BY <1>7, <1>11, <2>1
<1>14. TypeOK'
  <2>1. pos' \in 0 .. MaxLines /\ limit' \in 0 .. MaxLines
    BY <1>3, <1>5
  <2> QED
    BY <1>1, <1>6, <1>7, <2>1 DEF TypeOK
<1>15. HandlerIsOpen' /\ OnlyAcceptedIsOk'
  BY <1>1, <1>6 DEF HandlerIsOpen, OnlyAcceptedIsOk
<1>16. SentIsInOrder'
  BY <1>6, <1>11, <1>12, <1>13 DEF SentIsInOrder
<1>17. RestIsNewer'
  <2>1. ASSUME NEW i \in 1 .. Len(c), i > pos + n
        PROVE  c[i] >= first /\ \A k \in 1 .. l + n : sent'[k] < c[i]
    <3>1. i > pos
      BY <1>3, <1>5, <2>1
    <3>2. ASSUME NEW k \in 1 .. l + n PROVE sent'[k] < c[i]
      <4>1. CASE k \in 1 .. l
        BY <1>7, <1>8, <3>1, <4>1
      <4>2. CASE k \in l + 1 .. l + n
        <5>1. pos + (k - l) < i
          BY <1>3, <1>4, <1>5, <1>10, <2>1, <4>2
        <5> QED
          BY <1>8, <1>10, <4>2, <5>1
      <4> QED
        BY <1>10a, <4>1, <4>2
    <3> QED
      BY <1>8, <3>1, <3>2
  <2>2. content'[file'] = c /\ DOMAIN content'[file'] = 1 .. Len(c)
    BY <1>3, <1>6
  <2> QED
    BY <1>1, <1>5, <1>6, <1>13, <2>1, <2>2 DEF RestIsNewer
<1>18. WindowIsOpen'
  BY <1>1, <1>6 DEF IInv, WindowIsOpen, Reading
<1>19. CopyIsExact'
  <2> SUFFICES ASSUME ~disturbed PROVE CopyIsExact'
    BY <1>6 DEF CopyIsExact
  <2>1. /\ first <= last + 1 /\ last <= lines
        /\ pos + limit = startPos + (last + 1 - first)
        /\ l = pos - startPos
        /\ \A k \in 1 .. l : sent[k] = first + k - 1
    BY <1>1, <1>4 DEF IInv, CopyIsExact
  <2>2. \A k \in 1 .. Len(c) - startPos : c[startPos + k] = first + k - 1
    BY <1>1, <1>3 DEF IInv, WindowIsOpen, Reading
  <2>3. ASSUME NEW k \in 1 .. l + n PROVE sent'[k] = first + k - 1
    <3>1. CASE k \in 1 .. l
      BY <1>7, <2>1, <3>1
    <3>2. CASE k \in l + 1 .. l + n
      <4>1. pos + (k - l) = startPos + k /\ k \in 1 .. Len(c) - startPos
        BY <1>3, <1>4, <1>5, <2>1, <3>2
      <4> QED
        BY <1>10, <2>2, <3>2, <4>1
    <3> QED
      BY <1>10a, <3>1, <3>2
  <2>4. last \in Nat
    BY <1>1 DEF TypeOK
  <2>5. pos' + limit' = startPos' + (last' + 1 - first')
    BY <1>3, <1>5, <1>6, <2>1, <2>4
  <2>6. Len(sent') = pos' - startPos'
    BY <1>3, <1>4, <1>5, <1>6, <1>7, <2>1
  <2> QED
    BY <1>6, <1>7, <2>1, <2>3, <2>5, <2>6 DEF CopyIsExact
<1>20. AnswerIsExact'
  BY <1>1, <1>6 DEF AnswerIsExact
<1> QED
  BY <1>2, <1>14, <1>15, <1>16, <1>17, <1>18, <1>19, <1>20 DEF IInv

LEMMA CopyEndsStep == ASSUME IInv, CopyEnds PROVE IInv'
<1>1. /\ TypeOK /\ pc = "copy" /\ snapshot = "waiting" /\ file \in Files /\ first <= lines + 1
      /\ pc' = "end" /\ status' = "200" /\ (limit = 0 \/ pos >= Len(content[file]))
  BY DEF IInv, CopyEnds, HandlerIsOpen, RestIsNewer, Reading, TypeOK
<1>2. FilesAreInOrder' /\ RotationsMakeFiles'
  BY LogIsLeftAlone DEF IInv, CopyEnds
<1>3. UNCHANGED <<content, path, lines, log, rotations, file, startPos, pos, limit, sent, snapshot,
                  first, last, disturbed>>
  BY DEF CopyEnds, logVars, history
<1>4. TypeOK'
  BY <1>1, <1>3 DEF TypeOK
<1>5. LinesSent' = LinesSent
  BY <1>3 DEF LinesSent, ErrorText
<1>6. HandlerIsOpen' /\ OnlyAcceptedIsOk'
  BY <1>1, <1>3 DEF HandlerIsOpen, OnlyAcceptedIsOk
<1>7. SentIsInOrder' /\ RestIsNewer' /\ WindowIsOpen' /\ CopyIsExact'
  BY <1>1, <1>3, <1>5 DEF IInv, SentIsInOrder, RestIsNewer, WindowIsOpen, CopyIsExact, Reading
<1>8. AnswerIsExact'
  <2> SUFFICES ASSUME ~disturbed PROVE AnswerIsExact'
    BY <1>3 DEF AnswerIsExact
  <2>1. /\ first <= last + 1 /\ last <= lines /\ pos + limit = startPos + (last + 1 - first)
        /\ Len(sent) = pos - startPos /\ \A k \in 1 .. Len(sent) : sent[k] = first + k - 1
    BY <1>1 DEF IInv, CopyIsExact
  <2>2. Len(content[file]) = startPos + (lines + 1 - first)
    BY <1>1 DEF IInv, WindowIsOpen, Reading
  <2>3. first \in Nat /\ last \in Nat /\ lines \in Nat /\ pos \in Nat /\ limit \in Nat /\ startPos \in Nat
    BY <1>1 DEF TypeOK
  <2>4. limit = 0
    BY <1>1, <2>1, <2>2, <2>3
  <2>5. last + 1 - first \in Nat /\ Len(sent) = last + 1 - first
    BY <2>1, <2>3, <2>4
  <2> QED
    BY <1>3, <2>1, <2>5 DEF AnswerIsExact
<1> QED
  BY <1>2, <1>4, <1>6, <1>7, <1>8 DEF IInv

LEMMA BreaksStep == ASSUME IInv, Breaks PROVE IInv'
<1>1. TypeOK /\ Failed /\ pc' = "end" /\ snapshot = "waiting"
  BY DEF IInv, Breaks, Failed, HandlerIsOpen
<1>2. FilesAreInOrder' /\ RotationsMakeFiles'
  BY LogIsLeftAlone DEF IInv, Breaks
<1>3. UNCHANGED <<content, path, lines, log, rotations, file, startPos, pos, limit, snapshot,
                  first, last, disturbed>>
  BY DEF Breaks, logVars, history
<1>4. /\ sent' \in Seq(0 .. MaxLines)
      /\ LinesSent' = LinesSent /\ LinesSent' # DOMAIN sent'
      /\ \A i \in LinesSent : sent'[i] = sent[i]
  BY <1>1, ErrorIsTold
<1>5. status' \in {"none", "200", "500"}
  BY <1>1 DEF TypeOK, Failed
<1>6. TypeOK'
  BY <1>1, <1>3, <1>4, <1>5 DEF TypeOK
<1>7. HandlerIsOpen' /\ OnlyAcceptedIsOk'
  BY <1>1, <1>3 DEF HandlerIsOpen, OnlyAcceptedIsOk
<1>8. RestIsNewer' /\ WindowIsOpen' /\ CopyIsExact' /\ AnswerIsExact'
  BY <1>1, <1>4 DEF RestIsNewer, WindowIsOpen, CopyIsExact, AnswerIsExact, Reading
<1>9. SentIsInOrder'
  BY <1>3, <1>4 DEF IInv, SentIsInOrder
<1> QED
  BY <1>2, <1>6, <1>7, <1>8, <1>9 DEF IInv

\* The client only looks at an answer that is there.
LEMMA AnswerStays ==
    ASSUME IInv, UNCHANGED <<logVars, file, startPos, pos, limit, status, sent, history>>
    PROVE  FilesAreInOrder' /\ RotationsMakeFiles' /\ SentIsInOrder' /\ LinesSent' = LinesSent
<1>1. LinesSent' = LinesSent
  BY DEF LinesSent, ErrorText
<1> QED
  BY <1>1, LogIsLeftAlone DEF IInv, SentIsInOrder, logVars, history

LEMMA AskStep == ASSUME IInv, Ask PROVE IInv'
<1>1. /\ TypeOK /\ snapshot = "none" /\ snapshot' = "waiting" /\ pc' = "open"
      /\ sent = <<>> /\ status = "none"
  BY DEF IInv, Ask, HandlerIsOpen
<1>2. FilesAreInOrder' /\ RotationsMakeFiles' /\ SentIsInOrder'
  BY AnswerStays DEF Ask
<1>3. TypeOK'
  BY <1>1 DEF TypeOK, Ask, logVars, history
<1>4. HandlerIsOpen' /\ OnlyAcceptedIsOk' /\ RestIsNewer' /\ WindowIsOpen' /\ CopyIsExact' /\ AnswerIsExact'
  BY <1>1 DEF HandlerIsOpen, OnlyAcceptedIsOk, RestIsNewer, WindowIsOpen, CopyIsExact, AnswerIsExact,
              Reading, Ask
<1> QED
  BY <1>2, <1>3, <1>4 DEF IInv

LEMMA ReceiveStep == ASSUME IInv, Receive PROVE IInv'
<1>1. /\ TypeOK /\ pc = "end" /\ pc' = "idle" /\ snapshot' \in {"ok", "failed"}
      /\ snapshot' = "ok" => status = "200"
  BY DEF IInv, Receive, Accepts
<1>2. FilesAreInOrder' /\ RotationsMakeFiles' /\ SentIsInOrder' /\ LinesSent' = LinesSent
  BY AnswerStays DEF Receive
<1>3. TypeOK'
  BY <1>1 DEF TypeOK, Receive, logVars, history
<1>4. HandlerIsOpen' /\ OnlyAcceptedIsOk' /\ RestIsNewer' /\ WindowIsOpen' /\ CopyIsExact'
  BY <1>1 DEF HandlerIsOpen, OnlyAcceptedIsOk, RestIsNewer, WindowIsOpen, CopyIsExact, Reading, Receive
<1>5. AnswerIsExact'
  BY <1>1, <1>2 DEF IInv, AnswerIsExact, Receive, history
<1> QED
  BY <1>2, <1>3, <1>4, <1>5 DEF IInv

LEMMA CutStep == ASSUME IInv, Cut PROVE IInv'
<1>1. TypeOK /\ pc' = "idle" /\ snapshot' = "failed"
  BY DEF IInv, Cut
<1>2. FilesAreInOrder' /\ RotationsMakeFiles' /\ SentIsInOrder'
  BY AnswerStays DEF Cut
<1>3. TypeOK'
  BY <1>1 DEF TypeOK, Cut, logVars, history
<1>4. HandlerIsOpen' /\ OnlyAcceptedIsOk' /\ RestIsNewer' /\ WindowIsOpen' /\ CopyIsExact' /\ AnswerIsExact'
  BY <1>1 DEF HandlerIsOpen, OnlyAcceptedIsOk, RestIsNewer, WindowIsOpen, CopyIsExact, AnswerIsExact, Reading
<1> QED
  BY <1>2, <1>3, <1>4 DEF IInv

LEMMA NothingHappens == ASSUME IInv, UNCHANGED vars PROVE IInv'
<1>1. LinesSent' = LinesSent
  BY DEF LinesSent, ErrorText, vars, tailVars
<1>2. TypeOK'
  BY DEF IInv, TypeOK, vars, logVars, tailVars, history
<1>3. FilesAreInOrder' /\ RotationsMakeFiles' /\ HandlerIsOpen' /\ OnlyAcceptedIsOk'
  BY DEF IInv, FilesAreInOrder, RotationsMakeFiles, HandlerIsOpen, OnlyAcceptedIsOk,
         vars, logVars, tailVars
<1>4. RestIsNewer' /\ SentIsInOrder' /\ WindowIsOpen' /\ CopyIsExact' /\ AnswerIsExact'
  BY <1>1 DEF IInv, RestIsNewer, SentIsInOrder, WindowIsOpen, CopyIsExact, AnswerIsExact,
              vars, logVars, tailVars, history
<1> QED
  BY <1>2, <1>3, <1>4 DEF IInv

LEMMA InvariantStep == IInv /\ [Next]_vars => IInv'
BY WriteLineStep, RenameStep, ReopenStep, EmptyStep, OpenStep, SeekStep, StatStep, CopyPieceStep,
   CopyEndsStep, BreaksStep, AskStep, ReceiveStep, CutStep, NothingHappens
   DEF Next, Serve

LEMMA InvariantHolds == Spec => []IInv
BY InvariantStart, InvariantStep, PTL DEF Spec

-----------------------------------------------------------------------------
(***************************************************************************)
(* What a snapshot of a log holds.                                         *)
(***************************************************************************)

\* The variables stay in their types.
THEOREM TypeCorrect == Spec => []TypeOK
<1>1. IInv => TypeOK
  BY DEF IInv
<1> QED
  BY <1>1, InvariantHolds, PTL

\* However often the log is rotated during a request, a snapshot has only lines
\* written after its window was opened, each once and in order (tail.go:68-81).
THEOREM OnlyTheWindowIsKept == Spec => []OnlyNewLines
<1>1. IInv => OnlyNewLines
  BY DEF IInv, TypeOK, SentIsInOrder, OnlyNewLines, LinesSent
<1> QED
  BY <1>1, InvariantHolds, PTL

\* A snapshot of a log that is not rotated has every line of its window, and no
\* line that is written while it is copied.
THEOREM TheWholeWindowIsKept == Spec => []WindowIsExact
<1>1. ASSUME IInv, snapshot = "ok", ~disturbed, LinesSent = DOMAIN sent
      PROVE  sent = [i \in 1 .. last + 1 - first |-> first + i - 1]
  <2>1. /\ Len(sent) = last + 1 - first
        /\ \A k \in 1 .. Len(sent) : sent[k] = first + k - 1
    BY <1>1 DEF IInv, OnlyAcceptedIsOk, AnswerIsExact
  <2>2. sent \in Seq(0 .. MaxLines)
    BY <1>1 DEF IInv, TypeOK
  <2>3. sent = [i \in 1 .. Len(sent) |-> sent[i]]
    BY <2>2
  <2> QED
    BY <2>1, <2>3
<1>2. IInv => WindowIsExact
  BY <1>1 DEF WindowIsExact
<1> QED
  BY <1>2, InvariantHolds, PTL

=============================================================================
