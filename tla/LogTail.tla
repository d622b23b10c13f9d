-------------------------------- MODULE LogTail --------------------------------
(***************************************************************************)
(* internal/tail: the agent's handler that answers with what is appended   *)
(* to a log within a window of time, and Snapshot.Collect, the client that *)
(* keeps the answer or fails.                                              *)
(*                                                                         *)
(* The log is written by another program and rotated by yet another one,   *)
(* by renaming or by truncating it, at any moment.  A file is the sequence *)
(* of its lines, which are numbered as they are written.                   *)
(***************************************************************************)
EXTENDS Integers, Sequences

CONSTANTS
    MaxLines,       \* bound on the number of lines
    MaxRotations    \* bound on renames and truncations

ASSUME LogTailAssumption == MaxLines \in Nat /\ MaxRotations \in Nat

Files == 1 .. MaxRotations + 1
NoFile == 0

\* The text of an error in the body of an answer.
ErrorText == 0

VARIABLES
    content,    \* content[f]: the lines of file f
    path,       \* the file under the configured name, or NoFile
    log,        \* the file the logging program has open
    lines,      \* the number of lines written so far
    rotations,  \* the number of renames and truncations so far
    pc,         \* the next step of serve: "idle", "open", "seek", "stat", "copy", "end"
    file,       \* the open file
    startPos,   \* startPos
    pos,        \* the offset of the open file
    limit,      \* the bytes that r, the LimitReader, still lets through
    status,     \* the status of the answer, "none" until it is sent
    sent,       \* the body written so far
    snapshot,   \* Snapshot.Collect: "none", "waiting", "ok" or "failed"
    first,      \* history: the first line after the window was opened
    last,       \* history: the last line before it was closed
    disturbed   \* history: the log has been rotated since the window was opened

logVars == <<content, path, log, lines, rotations>>
tailVars == <<pc, file, startPos, pos, limit, status, sent>>
history == <<first, last, disturbed>>
vars == <<logVars, tailVars, snapshot, history>>

Init ==
    /\ content = [f \in Files |-> <<>>]
    /\ path = 1 /\ log = 1
    /\ lines = 0 /\ rotations = 0
    /\ pc = "idle"
    /\ file = NoFile
    /\ startPos = 0 /\ pos = 0 /\ limit = 0
    /\ status = "none" /\ sent = <<>>
    /\ snapshot = "none"
    /\ first = 0 /\ last = 0 /\ disturbed = FALSE

-----------------------------------------------------------------------------
(***************************************************************************)
(* The log.                                                                *)
(***************************************************************************)

WriteLine ==
    /\ lines < MaxLines
    /\ lines' = lines + 1
    /\ content' = [content EXCEPT ![log] = Append(@, lines + 1)]
    /\ UNCHANGED <<path, log, rotations, tailVars, snapshot, history>>

\* The log is renamed; its program goes on writing to the file it has open.
Rename ==
    /\ path # NoFile
    /\ rotations < MaxRotations
    /\ rotations' = rotations + 1
    /\ path' = NoFile
    /\ disturbed' = TRUE
    /\ UNCHANGED <<content, log, lines, tailVars, snapshot, first, last>>

\* The program opens the log again, which creates it.
Reopen ==
    /\ path = NoFile
    /\ path' = log + 1
    /\ log' = log + 1
    /\ UNCHANGED <<content, lines, rotations, tailVars, snapshot, history>>

\* The log is emptied; its program appends from the beginning.
Empty ==
    /\ path # NoFile
    /\ rotations < MaxRotations
    /\ rotations' = rotations + 1
    /\ content' = [content EXCEPT ![path] = <<>>]
    /\ disturbed' = TRUE
    /\ UNCHANGED <<path, log, lines, tailVars, snapshot, first, last>>

-----------------------------------------------------------------------------
(***************************************************************************)
(* The handler.  The status is sent with the first byte of the body.       *)
(***************************************************************************)

\* serve after an error of tail: WriteHeader has no effect on an answer that has
\* begun, and the text of the error is written into the body.
Failed ==
    /\ pc' = "end"
    /\ status' = IF sent = <<>> THEN "500" ELSE status
    /\ sent' = Append(sent, ErrorText)

\* os.Open
Open ==
    /\ pc = "open"
    /\ \/ /\ path # NoFile
          /\ pc' = "seek"
          /\ file' = path
          /\ UNCHANGED <<status, sent>>
       \/ /\ path = NoFile
          /\ Failed
          /\ UNCHANGED file
    /\ UNCHANGED <<logVars, startPos, pos, limit, snapshot, history>>

\* A mutant that remembers the end but reads from the beginning.
MutSeek ==
    /\ pc = "seek"
    /\ pc' = "stat"
    /\ startPos' = Len(content[file])
    /\ pos' = 0
    /\ first' = lines + 1
    /\ disturbed' = (path # file)
    /\ UNCHANGED <<logVars, file, limit, status, sent, snapshot, last>>

\* file.Seek(0, io.SeekEnd); the handler then sleeps.
Seek ==
    /\ pc = "seek"
    /\ pc' = "stat"
    /\ startPos' = Len(content[file])
    /\ pos' = Len(content[file])
    /\ first' = lines + 1
    /\ disturbed' = (path # file)
    /\ UNCHANGED <<logVars, file, limit, status, sent, snapshot, last>>

\* A mutant that lets through everything up to the end of the file.
MutStat ==
    /\ pc = "stat"
    /\ pc' = "copy"
    /\ limit' = MaxLines
    /\ last' = lines
    /\ UNCHANGED <<logVars, file, startPos, pos, status, sent, snapshot, first, disturbed>>

\* A mutant that does not mind a size that is less than startPos.
MutLimit ==
    /\ pc = "stat"
    /\ pc' = "copy"
    /\ limit' = Len(content[file]) - startPos
    /\ last' = lines
    /\ UNCHANGED <<logVars, file, startPos, pos, status, sent, snapshot, first, disturbed>>

\* file.Stat(); the size may be less than startPos, and then nothing is read.
Stat ==
    /\ pc = "stat"
    /\ pc' = "copy"
    /\ limit' = IF Len(content[file]) > startPos THEN Len(content[file]) - startPos ELSE 0
    /\ last' = lines
    /\ UNCHANGED <<logVars, file, startPos, pos, status, sent, snapshot, first, disturbed>>

\* io.Copy reads one piece and writes it to the answer.
CopyPiece ==
    /\ pc = "copy"
    /\ \E n \in 1 .. limit :
          /\ pos + n <= Len(content[file])
          /\ sent' = sent \o SubSeq(content[file], pos + 1, pos + n)
          /\ pos' = pos + n
          /\ limit' = limit - n
    /\ status' = "200"
    /\ UNCHANGED <<logVars, pc, file, startPos, snapshot, history>>

\* A mutant that waits for the bytes it has been promised, as `tail -f` does.
MutCopyEnds ==
    /\ pc = "copy"
    /\ limit = 0
    /\ pc' = "end"
    /\ status' = "200"
    /\ UNCHANGED <<logVars, file, startPos, pos, limit, sent, snapshot, history>>

\* io.Copy ends at the limit or at the end of the file; serve returns.
CopyEnds ==
    /\ pc = "copy"
    /\ limit = 0 \/ pos >= Len(content[file])
    /\ pc' = "end"
    /\ status' = "200"
    /\ UNCHANGED <<logVars, file, startPos, pos, limit, sent, snapshot, history>>

\* An error of Seek, Stat or Read.
Breaks ==
    /\ pc \in {"seek", "stat", "copy"}
    /\ Failed
    /\ UNCHANGED <<logVars, file, startPos, pos, limit, snapshot, history>>

-----------------------------------------------------------------------------
(***************************************************************************)
(* Snapshot.Collect.                                                       *)
(***************************************************************************)

Ask ==
    /\ snapshot = "none"
    /\ snapshot' = "waiting"
    /\ pc' = "open"
    /\ UNCHANGED <<logVars, file, startPos, pos, limit, status, sent, history>>

\* The answer is kept unless it has another status than 200 or is empty.
Accepts == status = "200" /\ sent # <<>>

Receive ==
    /\ snapshot = "waiting"
    /\ pc = "end"
    /\ pc' = "idle"
    /\ snapshot' = IF Accepts THEN "ok" ELSE "failed"
    /\ UNCHANGED <<logVars, file, startPos, pos, limit, status, sent, history>>

\* The agent is killed or the connection is lost: reading the body fails.
Cut ==
    /\ snapshot = "waiting"
    /\ pc' = "idle"
    /\ snapshot' = "failed"
    /\ UNCHANGED <<logVars, file, startPos, pos, limit, status, sent, history>>

-----------------------------------------------------------------------------

Serve == Open \/ Seek \/ Stat \/ CopyPiece \/ CopyEnds

Next ==
    \/ WriteLine \/ Rename \/ Reopen \/ Empty
    \/ Serve \/ Breaks
    \/ Ask \/ Receive \/ Cut

Spec == Init /\ [][Next]_vars

\* Requests are served; neither errors nor the programs around the log are relied on.
FairSpec == Spec /\ WF_vars(Serve) /\ WF_vars(Receive)

-----------------------------------------------------------------------------
(***************************************************************************)
(* Properties.                                                             *)
(***************************************************************************)

\* The type invariant.
TypeOK ==
    /\ content \in [Files -> Seq(1 .. MaxLines)]
    /\ path \in Files \cup {NoFile} /\ log \in Files
    /\ lines \in 0 .. MaxLines /\ rotations \in 0 .. MaxRotations
    /\ pc \in {"idle", "open", "seek", "stat", "copy", "end"}
    /\ file \in Files \cup {NoFile}
    /\ startPos \in 0 .. MaxLines /\ pos \in 0 .. MaxLines /\ limit \in 0 .. MaxLines
    /\ status \in {"none", "200", "500"}
    /\ sent \in Seq(0 .. MaxLines)
    /\ snapshot \in {"none", "waiting", "ok", "failed"}
    /\ first \in 0 .. MaxLines + 1 /\ last \in 0 .. MaxLines
    /\ disturbed \in BOOLEAN

\* The positions of the lines of the log in an answer.
LinesSent == {i \in DOMAIN sent : sent[i] # ErrorText}

\* Whatever happens to the log, a snapshot holds no line from before its window,
\* none twice, and all in the order they were written (tail.go:68-81): a file that
\* has shrunk and grown again has only newer lines where the window begins.
OnlyNewLines ==
    snapshot = "ok" =>
        /\ \A i \in LinesSent : sent[i] >= first
        /\ \A i, j \in LinesSent : i < j => sent[i] < sent[j]

\* If the log has not been rotated, a snapshot of a handler that did not break holds
\* exactly the lines of the window, although the log grows while it is copied.
WindowIsExact ==
    snapshot = "ok" /\ ~disturbed /\ LinesSent = DOMAIN sent =>
        sent = [i \in 1 .. last + 1 - first |-> first + i - 1]

\* A request ends, also when the log has shrunk below the window or is renamed
\* while it is read (tail.go:80-84), and its client keeps or refuses the answer.
RequestEnds == snapshot = "waiting" ~> snapshot \in {"ok", "failed"}

=============================================================================
