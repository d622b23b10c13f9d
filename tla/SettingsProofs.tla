---------------------------- MODULE SettingsProofs ----------------------------
(***************************************************************************)
(* Theorems about Settings, for any pages, documents, saves and kills: a   *)
(* save that has run alone determines the file, what a page shows of it    *)
(* and what a collection reads, whatever the saves before it have left.    *)
(***************************************************************************)
EXTENDS Settings, TLAPS

USE SettingsAssumption

\* The file of a document tells which one it is, and that it is not empty.
LEMMA WholeFiles ==
    /\ \A d \in Docs : /\ Whole(d) \in Seq(Docs) /\ Len(Whole(d)) = Size[d]
                       /\ Size[d] \in Nat \ {0} /\ Whole(d) # <<>>
    /\ \A d, e \in Docs : Whole(d) = Whole(e) => d = e
<1>1. ASSUME NEW d \in Docs
      PROVE  /\ Whole(d) \in Seq(Docs) /\ Len(Whole(d)) = Size[d]
             /\ Size[d] \in Nat \ {0} /\ Whole(d)[1] = d
  BY DEF Whole
<1>2. ASSUME NEW d \in Docs PROVE Whole(d) # <<>>
  BY <1>1
<1> QED
  BY <1>1, <1>2

LEMMA BlocksAreDocument ==
    /\ \A blocks : DocumentIn(blocks) \in Docs \cup {Torn}
    /\ \A d \in Docs : DocumentIn(Whole(d)) = d
BY WholeFiles DEF DocumentIn

LEMMA ContentIsDocument ==
    /\ Content \in Docs \cup {Torn}
    /\ \A d \in Docs : file = Whole(d) => Content = d
    /\ file = <<>> => Content = Torn
BY WholeFiles DEF Content, DocumentIn

\* Writing over a file, from its beginning.
LEMMA OverlayIsFile ==
    ASSUME NEW d \in Docs, NEW n \in Nat, file \in Seq(Docs)
    PROVE  /\ Overlay(d, n) \in Seq(Docs)
           /\ file = <<>> /\ n = Size[d] => Overlay(d, n) = Whole(d)
<1>1. Len(file) \in Nat /\ \A i \in 1 .. Len(file) : file[i] \in Docs
  OBVIOUS
<1>2. Overlay(d, n) \in Seq(Docs)
  <2> DEFINE m == IF Len(file) > n THEN Len(file) ELSE n
  <2>1. m \in Nat
    BY <1>1
  <2>2. \A i \in 1 .. m : (IF i <= n THEN d ELSE file[i]) \in Docs
    BY <1>1
  <2> HIDE DEF m
  <2>3. [i \in 1 .. m |-> IF i <= n THEN d ELSE file[i]] \in Seq(Docs)
    BY <2>1, <2>2
  <2> QED
    BY <2>3 DEF Overlay, m
<1>3. ASSUME file = <<>>, n = Size[d] PROVE Overlay(d, n) = Whole(d)
  <2>1. Len(file) = 0 /\ Size[d] \in Nat \ {0}
    BY <1>3
  <2> QED
    BY <1>3, <2>1 DEF Overlay, Whole
<1> QED
  BY <1>2, <1>3

\* The history stays a record of versions.
LEMMA SeenStays ==
    ASSUME NEW v \in Nat, NEW w \in Nat, v <= w, NEW f \in [Pages -> Versions(v)],
           NEW p \in Pages, NEW n \in 0 .. w
    PROVE  /\ [f EXCEPT ![p].response = n] \in [Pages -> Versions(w)]
           /\ [f EXCEPT ![p].save = n] \in [Pages -> Versions(w)]
<1>1. \A q \in Pages : f[q] \in Versions(w)
  <2> SUFFICES ASSUME NEW q \in Pages PROVE f[q] \in Versions(w)
    OBVIOUS
  <2>1. f[q] \in Versions(v)
    OBVIOUS
  <2>2. \A i \in 0 .. v : i \in 0 .. w
    OBVIOUS
  <2> QED
    BY <2>1, <2>2 DEF Versions
<1>2. \A q \in Pages : /\ [f[q] EXCEPT !.response = n] \in Versions(w)
                       /\ [f[q] EXCEPT !.save = n] \in Versions(w)
  BY <1>1 DEF Versions
<1> QED
  BY <1>1, <1>2

\* So does what is kept of a save.
LEMMA SaveStays ==
    ASSUME NEW f \in [Pages -> SaveStates], NEW p \in Pages,
           NEW step \in {"none", "sent", "write", "saved"}
    PROVE  [f EXCEPT ![p].step = step] \in [Pages -> SaveStates]
<1>1. \A q \in Pages : f[q] \in SaveStates /\ [f[q] EXCEPT !.step = step] \in SaveStates
  BY DEF SaveStates
<1> QED
  BY <1>1

-----------------------------------------------------------------------------
(***************************************************************************)
(* The inductive invariant.                                                *)
(***************************************************************************)

\* New runs before any request is served, and a kill ends them all.
OnlyUpServes ==
    /\ server # "up" => \A p \in Pages : save[p].step = "none" /\ load[p] \in {"none", "done"}
    /\ server = "creating" => file = <<>> /\ expected = Default

\* A page whose save has been accepted has sent a text that sanitize accepts.
AcceptedIsDocument ==
    \A p \in Pages : save[p].step \in {"write", "saved"} => DocOf(p) \in Docs

FileIsSequence == server # "down" => file \in Seq(Docs)

\* As long as nothing has overlapped, the file is empty while its save writes it, and
\* the document of the save before and after that.
FileIsExpected ==
    expected # Invalid =>
        /\ \A p \in Writers : file = <<>> /\ DocOf(p) = expected /\ Writers = {p}
        /\ Writers = {} /\ server = "up" => file = Whole(expected)
        /\ server = "down" => file \in {NoFile, Whole(expected)}

\* A page has been told nothing, and has sent no save, before it is opened, nor, unless
\* it is hasty, before its load has ended.
OnlyHastySave ==
    \A p \in Pages :
        load[p] = "none" \/ (load[p] # "done" /\ p \notin hasty)
            => save[p].step = "none" /\ informed[p] = 0

\* An answer of the newest version has the size of its document before it has its text.
AnswersAreExpected ==
    expected # Invalid => \A p \in Pages :
        /\ load[p] = "sized" /\ seen[p].response = version
              => Writers = {} /\ length[p] = Size[expected]
        /\ load[p] = "answered" /\ seen[p].response = version => response[p] = expected

\* What a page saves, and what it shows, of the newest version.
NewestIsExpected ==
    expected # Invalid => \A p \in Pages :
        /\ save[p].step \in {"write", "saved"} /\ seen[p].save = version => DocOf(p) = expected
        /\ informed[p] = version /\ ~(p \in hasty /\ load[p] = "done")
              => shown[p] \in Texts /\ Sanitized[shown[p]] = expected

IInv ==
    /\ TypeOK /\ FileIsSequence /\ OnlyUpServes /\ AcceptedIsDocument /\ OnlyHastySave
    /\ FileIsExpected /\ AnswersAreExpected /\ NewestIsExpected

LEMMA InvariantStart == Init => IInv
<1> SUFFICES ASSUME Init PROVE IInv
  OBVIOUS
<1>1. Whole(Default) \in Seq(Docs) /\ Default \in Docs
  BY WholeFiles
<1>2. \A p \in Pages : save[p] = Idle /\ load[p] = "none" /\ informed[p] = 0
  BY DEF Init
<1>3. Writers = {} /\ \A p \in Pages : save[p].step = "none"
  BY <1>2 DEF Writers, Idle
<1>4. TypeOK
  BY <1>1 DEF Init, TypeOK, SaveStates, Versions, Idle
<1>5. OnlyUpServes /\ AcceptedIsDocument /\ FileIsSequence /\ OnlyHastySave
  BY <1>2, <1>3 DEF Init, OnlyUpServes, AcceptedIsDocument, FileIsSequence, OnlyHastySave
<1>6. FileIsExpected
  BY <1>3 DEF Init, FileIsExpected
<1>7. AnswersAreExpected /\ NewestIsExpected
  BY <1>2, <1>3 DEF Init, AnswersAreExpected, NewestIsExpected
<1> QED
  BY <1>4, <1>5, <1>6, <1>7 DEF IInv

\* The steps that change no file and tell no page anything.
LEMMA QuietSteps ==
    ASSUME IInv, UNCHANGED vars \/ Collect \/ (\E p \in Pages : Refuse(p) \/ CreateFails(p) \/ Open(p))
                 \/ (\E p \in Pages, text \in Texts : Update(p, text))
    PROVE  IInv'
<1>1. ASSUME UNCHANGED vars PROVE IInv'
  <2>1. TypeOK'
    BY <1>1 DEF IInv, TypeOK, SaveStates, Versions, vars, request, history
  <2>2. FileIsSequence' /\ OnlyUpServes' /\ AcceptedIsDocument' /\ OnlyHastySave'
    BY <1>1 DEF IInv, FileIsSequence, OnlyUpServes, AcceptedIsDocument, OnlyHastySave, vars,
       request, history, DocOf
  <2>3. FileIsExpected' /\ AnswersAreExpected' /\ NewestIsExpected'
    BY <1>1 DEF IInv, FileIsExpected, AnswersAreExpected, NewestIsExpected, vars, request, history,
       Writers, DocOf
  <2> QED
    BY <2>1, <2>2, <2>3 DEF IInv
<1>2. ASSUME Collect PROVE IInv'
  BY <1>2, ContentIsDocument DEF IInv, TypeOK, SaveStates, Versions, FileIsSequence, OnlyUpServes,
     AcceptedIsDocument, OnlyHastySave, FileIsExpected, AnswersAreExpected, NewestIsExpected,
     Collect, Writers, DocOf, request, history
<1>3. ASSUME NEW p \in Pages, Refuse(p) \/ CreateFails(p) PROVE IInv'
  <2>0. /\ save[p].step = "sent" /\ save' = [save EXCEPT ![p] = Idle]
        /\ UNCHANGED <<server, file, load, length, response, shown, used, saves, kills>>
        /\ UNCHANGED <<version, expected, seen, informed, hasty>>
    BY <1>3 DEF Refuse, CreateFails, request, history
  <2>1. Writers' = Writers
    BY <2>0 DEF IInv, TypeOK, SaveStates, Writers, Idle
  <2>2. \A q \in Pages : save'[q] = save[q] \/ save'[q].step = "none"
    BY <2>0 DEF IInv, TypeOK, SaveStates, Idle
  <2>3. TypeOK'
    BY <2>0 DEF IInv, TypeOK, SaveStates, Versions, Idle
  <2>4. OnlyUpServes' /\ FileIsSequence' /\ OnlyHastySave'
    BY <2>0, <2>2 DEF IInv, OnlyUpServes, FileIsSequence, OnlyHastySave
  <2>5. AcceptedIsDocument'
    BY <2>2 DEF IInv, AcceptedIsDocument, DocOf
  <2>6. FileIsExpected'
    <3>1. \A q \in Writers' : save'[q] = save[q]
      BY <2>2 DEF Writers
    <3> QED
      BY <2>0, <2>1, <3>1 DEF IInv, FileIsExpected, DocOf
  <2>7. AnswersAreExpected' /\ NewestIsExpected'
    BY <2>0, <2>1, <2>2 DEF IInv, AnswersAreExpected, NewestIsExpected, DocOf
  <2> QED
    BY <2>3, <2>4, <2>5, <2>6, <2>7 DEF IInv
<1>4. ASSUME NEW p \in Pages, Open(p) PROVE IInv'
  <2>0. /\ load'[p] = "sent" /\ load[p] = "none"
        /\ \A q \in Pages : q # p => load'[q] = load[q]
        /\ UNCHANGED <<server, file, save, length, response, shown, used, saves, kills>>
        /\ UNCHANGED <<version, expected, seen, informed, hasty>>
    BY <1>4 DEF IInv, TypeOK, Open, history
  <2>1. TypeOK'
    BY <1>4 DEF IInv, TypeOK, SaveStates, Versions, Open, history
  <2>2. OnlyUpServes' /\ FileIsSequence' /\ AcceptedIsDocument' /\ FileIsExpected'
    BY <1>4, <2>0 DEF IInv, OnlyUpServes, FileIsSequence, AcceptedIsDocument, FileIsExpected, Open,
       DocOf, Writers
  <2>3. OnlyHastySave' /\ AnswersAreExpected'
    BY <2>0 DEF IInv, OnlyHastySave, AnswersAreExpected, Writers
  <2>4. NewestIsExpected'
    BY <2>0 DEF IInv, NewestIsExpected, DocOf
  <2> QED
    BY <2>1, <2>2, <2>3, <2>4 DEF IInv
<1>5. ASSUME NEW p \in Pages, NEW text \in Texts, Update(p, text) PROVE IInv'
  <2>0. /\ UNCHANGED <<server, file, load, length, response, shown, used, kills>>
        /\ UNCHANGED <<version, expected, seen, informed>>
        /\ hasty' = (IF load[p] = "done" THEN hasty ELSE hasty \cup {p}) /\ load[p] # "none"
        /\ server = "up"
    BY <1>5 DEF Update, request
  <2>1. save[p].step = "none" /\ save'[p] = [step |-> "sent", text |-> text]
    BY <1>5 DEF IInv, TypeOK, SaveStates, Update
  <2>2. \A q \in Pages : q # p => save'[q] = save[q]
    BY <1>5 DEF IInv, TypeOK, SaveStates, Update
  <2>3. Writers' = Writers
    BY <2>1, <2>2 DEF Writers
  <2>4. TypeOK'
    BY <1>5, <2>0 DEF IInv, TypeOK, SaveStates, Versions, Update
  <2>5. OnlyUpServes' /\ FileIsSequence'
    BY <2>0 DEF IInv, OnlyUpServes, FileIsSequence
  <2>6. AcceptedIsDocument'
    BY <2>1, <2>2 DEF IInv, AcceptedIsDocument, DocOf
  <2>7. FileIsExpected'
    BY <2>0, <2>1, <2>2, <2>3 DEF IInv, FileIsExpected, DocOf, Writers
  <2>8. OnlyHastySave' /\ AnswersAreExpected'
    BY <2>0, <2>1, <2>2, <2>3 DEF IInv, OnlyHastySave, AnswersAreExpected
  <2>9. NewestIsExpected'
    BY <2>0, <2>1, <2>2 DEF IInv, NewestIsExpected, DocOf
  <2> QED
    BY <2>4, <2>5, <2>6, <2>7, <2>8, <2>9 DEF IInv
<1> QED
  BY <1>1, <1>2, <1>3, <1>4, <1>5

\* The start, and the end, of the process.
LEMMA LifeSteps ==
    ASSUME IInv, Start \/ SaveDefault \/ DefaultFails \/ Kill
    PROVE  IInv'
<1>1. ASSUME Start PROVE IInv'
  <2>1. \A q \in Pages : save[q].step = "none" /\ load[q] \in {"none", "done"}
    BY <1>1 DEF IInv, OnlyUpServes, Start
  <2>2. Writers = {} /\ Writers' = {}
    BY <1>1, <2>1 DEF Writers, Start
  <2>3. UNCHANGED <<save, load, length, response, shown, used, saves, kills, seen, informed, hasty>>
    BY <1>1 DEF Start, request
  <2>4. OnlyHastySave' /\ AcceptedIsDocument' /\ AnswersAreExpected'
    BY <2>1, <2>3 DEF IInv, OnlyHastySave, AcceptedIsDocument, AnswersAreExpected
  <2>5. CASE file = NoFile
    <3>0. version \in Nat /\ version' = version + 1 /\ \A n \in 0 .. version : n \in 0 .. version'
      BY <1>1, <2>5 DEF IInv, TypeOK, Start
    <3>1. TypeOK'
      <4>1. informed' \in [Pages -> 0 .. version'] /\ seen' \in [Pages -> Versions(version')]
        BY <2>3, <3>0 DEF IInv, TypeOK, Versions
      <4> QED
        BY <1>1, <2>3, <2>5, <3>0, <4>1 DEF IInv, TypeOK, Start
    <3>2. OnlyUpServes' /\ FileIsSequence'
      BY <1>1, <2>1, <2>3, <2>5 DEF OnlyUpServes, FileIsSequence, Start
    <3>3. FileIsExpected'
      BY <1>1, <2>2, <2>5 DEF FileIsExpected, Start
    <3>4. version \in Nat /\ version' = version + 1 /\ \A p \in Pages : informed'[p] \in 0 .. version
      BY <1>1, <2>3, <2>5 DEF IInv, TypeOK, Start
    <3>5. NewestIsExpected'
      BY <2>1, <2>3, <3>4 DEF NewestIsExpected
    <3> QED
      BY <2>4, <3>1, <3>2, <3>3, <3>5 DEF IInv
  <2>6. CASE file # NoFile
    <3>1. TypeOK' /\ FileIsSequence'
      BY <1>1, <2>3, <2>6 DEF IInv, TypeOK, SaveStates, Versions, FileIsSequence, Start
    <3>2. OnlyUpServes'
      BY <1>1, <2>1, <2>3, <2>6 DEF OnlyUpServes, Start
    <3>3. FileIsExpected'
      BY <1>1, <2>2, <2>6 DEF IInv, FileIsExpected, Start
    <3>4. NewestIsExpected'
      BY <1>1, <2>3, <2>6 DEF IInv, NewestIsExpected, Start, DocOf
    <3> QED
      BY <2>4, <3>1, <3>2, <3>3, <3>4 DEF IInv
  <2> QED
    BY <2>5, <2>6
<1>2. ASSUME SaveDefault PROVE IInv'
  <2>0. UNCHANGED <<save, load, length, response, shown, used, saves, kills, version, expected, seen,
                    informed, hasty>>
    BY <1>2 DEF SaveDefault, request, history
  <2>1. \A q \in Pages : save[q].step = "none" /\ load[q] \in {"none", "done"}
    BY <1>2 DEF IInv, OnlyUpServes, SaveDefault
  <2>2. Writers' = {} /\ expected' = Default /\ file' = Whole(Default)
    BY <1>2, <2>0, <2>1 DEF IInv, OnlyUpServes, Writers, SaveDefault
  <2>3. TypeOK' /\ FileIsSequence'
    BY <1>2, <2>0, WholeFiles DEF IInv, TypeOK, SaveStates, Versions, FileIsSequence, SaveDefault
  <2>4. OnlyUpServes' /\ AcceptedIsDocument' /\ OnlyHastySave' /\ AnswersAreExpected'
    BY <1>2, <2>0, <2>1 DEF IInv, OnlyUpServes, AcceptedIsDocument, OnlyHastySave,
       AnswersAreExpected, SaveDefault
  <2>5. FileIsExpected'
    BY <1>2, <2>2 DEF FileIsExpected, SaveDefault
  <2>6. NewestIsExpected'
    BY <2>0 DEF IInv, NewestIsExpected, DocOf
  <2> QED
    BY <2>3, <2>4, <2>5, <2>6 DEF IInv
<1>3. ASSUME DefaultFails PROVE IInv'
  <2>0. /\ UNCHANGED <<save, load, length, response, shown, used, saves, kills, version, seen,
                       informed, hasty>>
        /\ server = "creating" /\ server' = "down" /\ expected' = Invalid
    BY <1>3 DEF DefaultFails, request
  <2>1. \A q \in Pages : save[q].step = "none" /\ load[q] \in {"none", "done"}
    BY <2>0 DEF IInv, OnlyUpServes
  <2>2. file' \in Seq(Docs)
    <3>1. PICK n \in 0 .. Size[Default] - 1 : file' = Overlay(Default, n)
      BY <1>3 DEF DefaultFails
    <3>2. n \in Nat /\ file \in Seq(Docs) /\ Default \in Docs
      BY <2>0, WholeFiles DEF IInv, FileIsSequence
    <3> QED
      BY <3>1, <3>2, OverlayIsFile
  <2>3. TypeOK' /\ FileIsSequence'
    BY <2>0, <2>2 DEF IInv, TypeOK, SaveStates, Versions, FileIsSequence
  <2>4. OnlyUpServes' /\ AcceptedIsDocument' /\ OnlyHastySave'
    BY <2>0, <2>1 DEF IInv, OnlyUpServes, AcceptedIsDocument, OnlyHastySave
  <2>5. FileIsExpected' /\ AnswersAreExpected' /\ NewestIsExpected'
    BY <2>0 DEF FileIsExpected, AnswersAreExpected, NewestIsExpected
  <2> QED
    BY <2>3, <2>4, <2>5 DEF IInv
<1>4. ASSUME Kill PROVE IInv'
  <2>1. \A q \in Pages : /\ save'[q].step = "none"
                         /\ load'[q] = IF load[q] = "none" THEN "none" ELSE "done"
    BY <1>4 DEF Kill, Idle
  <2>2. Writers' = {}
    BY <2>1 DEF Writers
  <2>3. TypeOK'
    BY <1>4 DEF IInv, TypeOK, SaveStates, Versions, Kill, Idle
  <2>4. OnlyUpServes' /\ AcceptedIsDocument' /\ FileIsSequence'
    BY <1>4, <2>1 DEF OnlyUpServes, AcceptedIsDocument, FileIsSequence, Kill
  <2>5. FileIsExpected'
    BY <1>4, <2>2 DEF IInv, TypeOK, SaveStates, Versions, FileIsExpected, Kill
  <2>6. OnlyHastySave' /\ AnswersAreExpected'
    BY <1>4, <2>1 DEF IInv, OnlyHastySave, AnswersAreExpected, Kill
  <2>7. NewestIsExpected'
    BY <1>4, <2>1 DEF IInv, NewestIsExpected, Kill
  <2> QED
    BY <2>3, <2>4, <2>5, <2>6, <2>7 DEF IInv
<1> QED
  BY <1>1, <1>2, <1>3, <1>4

\* A save truncates the file: nothing that is on its way is of the new version.
LEMMA TruncateStep == ASSUME IInv, NEW p \in Pages, Truncate(p) PROVE IInv'
<1>0. UNCHANGED <<server, load, length, response, shown, used, saves, kills, informed, hasty>>
  BY DEF Truncate, request
<1>1. save'[p].step = "write" /\ save'[p].text = save[p].text /\ server = "up" /\ save[p].step = "sent"
  BY DEF IInv, TypeOK, SaveStates, Versions, OnlyUpServes, Truncate
<1>2. \A q \in Pages : q # p => save'[q] = save[q] /\ seen'[q] = seen[q]
  BY DEF IInv, TypeOK, SaveStates, Versions, Truncate
<1>3. seen'[p].save = version + 1 /\ seen'[p].response = seen[p].response
  BY DEF IInv, TypeOK, SaveStates, Versions, Truncate
<1>4. /\ version \in Nat \ {0} /\ version' = version + 1
      /\ \A q \in Pages : /\ seen[q].response \in 0 .. version /\ seen[q].save \in 0 .. version
                          /\ informed'[q] \in 0 .. version
  BY <1>0 DEF IInv, TypeOK, SaveStates, Versions, Truncate
<1>5. Writers' = Writers \cup {p} /\ DocOf(p)' = DocOf(p) /\ DocOf(p) \in Docs
  <2>1. DocOf(p) \in Docs
    BY DEF IInv, TypeOK, SaveStates, Versions, Truncate, DocOf
  <2> QED
    BY <1>1, <1>2, <2>1 DEF Writers, DocOf
<1>6. TypeOK'
  <2>1. seen' \in [Pages -> Versions(version')]
    <3>1. seen \in [Pages -> Versions(version)]
      BY DEF IInv, TypeOK, SaveStates, Versions
    <3>2. seen' = [seen EXCEPT ![p].save = version + 1]
      BY DEF Truncate
    <3>3. version + 1 \in Nat /\ version <= version + 1 /\ version + 1 \in 0 .. version + 1
      BY <1>4
    <3>4. [seen EXCEPT ![p].save = version + 1] \in [Pages -> Versions(version + 1)]
      BY <1>4, <3>1, <3>3, SeenStays
    <3> QED
      BY <1>4, <3>2, <3>4
  <2>2. save' \in [Pages -> SaveStates]
    <3>1. save \in [Pages -> SaveStates]
      BY DEF IInv, TypeOK
    <3> QED
      BY <3>1, SaveStays DEF Truncate
  <2>3. expected' \in Docs \cup {Invalid} /\ file' \in Seq(Docs) /\ version' \in Nat \ {0}
    BY <1>4, <1>5 DEF IInv, TypeOK, SaveStates, Versions, Truncate
  <2>4. informed' \in [Pages -> 0 .. version']
    <3>1. \A n \in 0 .. version : n \in 0 .. version'
      BY <1>4
    <3> QED
      BY <1>0, <3>1 DEF IInv, TypeOK
  <2> QED
    BY <1>0, <2>1, <2>2, <2>3, <2>4 DEF IInv, TypeOK
<1>7. OnlyUpServes' /\ FileIsSequence'
  BY <1>0, <1>1 DEF OnlyUpServes, FileIsSequence, Truncate
<1>8. AcceptedIsDocument' /\ OnlyHastySave'
  BY <1>0, <1>1, <1>2, <1>5 DEF IInv, AcceptedIsDocument, OnlyHastySave, DocOf
<1>9. FileIsExpected'
  <2> SUFFICES ASSUME expected' # Invalid PROVE FileIsExpected'
    BY DEF FileIsExpected
  <2>1. Writers = {} /\ expected' = DocOf(p)
    BY DEF Truncate
  <2>2. Writers' = {p}
    BY <1>5, <2>1
  <2> QED
    BY <1>1, <1>5, <2>1, <2>2 DEF FileIsExpected, Truncate
<1>10. AnswersAreExpected'
  <2>1. \A q \in Pages : seen'[q].response # version'
    BY <1>2, <1>3, <1>4
  <2> QED
    BY <2>1 DEF AnswersAreExpected
<1>11. NewestIsExpected'
  <2> SUFFICES ASSUME expected' # Invalid, NEW q \in Pages
               PROVE /\ save'[q].step \in {"write", "saved"} /\ seen'[q].save = version'
                            => DocOf(q)' = expected'
                     /\ informed'[q] # version'
    BY DEF NewestIsExpected
  <2>1. expected' = DocOf(p)
    BY DEF Truncate
  <2>2. informed'[q] # version'
    BY <1>4
  <2>3. q # p => seen'[q].save # version'
    BY <1>2, <1>4
  <2> QED
    BY <1>5, <2>1, <2>2, <2>3
<1> QED
  BY <1>6, <1>7, <1>8, <1>9, <1>10, <1>11 DEF IInv

\* It is written, and answered.
LEMMA WriteStep == ASSUME IInv, NEW p \in Pages, Write(p) PROVE IInv'
<1>0. UNCHANGED <<server, load, length, response, shown, used, saves, kills, version, expected, seen,
                  informed, hasty>>
  BY DEF Write, request, history
<1>1. /\ p \in Writers /\ server = "up" /\ file \in Seq(Docs)
      /\ DocOf(p) \in Docs /\ Size[DocOf(p)] \in Nat
  BY WholeFiles DEF IInv, OnlyUpServes, FileIsSequence, AcceptedIsDocument, Write, Writers
<1>2. save'[p].step = "saved" /\ save'[p].text = save[p].text
  BY DEF IInv, TypeOK, SaveStates, Versions, Write
<1>3. \A q \in Pages : q # p => save'[q] = save[q]
  BY DEF IInv, TypeOK, SaveStates, Versions, Write
<1>4. Writers' = Writers \ {p} /\ \A q \in Pages : DocOf(q)' = DocOf(q)
  BY <1>2, <1>3 DEF Writers, DocOf
<1>5. file' \in Seq(Docs) /\ (file = <<>> => file' = Whole(DocOf(p)))
  BY <1>1, OverlayIsFile DEF Write
<1>6. TypeOK'
  <2>1. save' \in [Pages -> SaveStates]
    <3>1. save \in [Pages -> SaveStates]
      BY DEF IInv, TypeOK
    <3> QED
      BY <3>1, SaveStays DEF Write
  <2> QED
    BY <1>0, <1>5, <2>1 DEF IInv, TypeOK
<1>7. OnlyUpServes' /\ FileIsSequence'
  BY <1>0, <1>1, <1>5 DEF IInv, OnlyUpServes, FileIsSequence
<1>8. AcceptedIsDocument' /\ OnlyHastySave'
  <2>1. save[p].step = "write"
    BY DEF Write
  <2>2. AcceptedIsDocument'
    BY <1>1, <1>3, <1>4 DEF IInv, AcceptedIsDocument
  <2>3. OnlyHastySave'
    BY <1>0, <1>3, <2>1 DEF IInv, OnlyHastySave
  <2> QED
    BY <2>2, <2>3
<1>9. FileIsExpected'
  <2> SUFFICES ASSUME expected # Invalid PROVE FileIsExpected'
    BY <1>0 DEF FileIsExpected
  <2>1. file = <<>> /\ DocOf(p) = expected /\ Writers = {p}
    BY <1>1 DEF IInv, FileIsExpected
  <2>2. Writers' = {} /\ file' = Whole(expected)
    BY <1>4, <1>5, <2>1
  <2> QED
    BY <1>0, <1>1, <2>2 DEF FileIsExpected
<1>10. AnswersAreExpected' /\ NewestIsExpected'
  <2>1. \A q \in Pages : save'[q].step \in {"write", "saved"} => save[q].step \in {"write", "saved"}
    BY <1>1, <1>3 DEF Writers
  <2>2. Writers # {}
    BY <1>1
  <2> QED
    BY <1>0, <1>4, <2>1, <2>2 DEF IInv, AnswersAreExpected, NewestIsExpected
<1> QED
  BY <1>6, <1>7, <1>8, <1>9, <1>10 DEF IInv

\* The disk is full.
LEMMA WriteFailsStep == ASSUME IInv, NEW p \in Pages, WriteFails(p) PROVE IInv'
<1>0. UNCHANGED <<server, load, length, response, shown, used, saves, kills, version, seen, informed,
                  hasty>>
  BY DEF WriteFails, request
<1>1. server = "up" /\ file \in Seq(Docs) /\ DocOf(p) \in Docs /\ Size[DocOf(p)] \in Nat \ {0}
  BY WholeFiles DEF IInv, OnlyUpServes, FileIsSequence, AcceptedIsDocument, WriteFails
<1>2. file' \in Seq(Docs)
  <2>1. PICK n \in 0 .. Size[DocOf(p)] - 1 : file' = Overlay(DocOf(p), n)
    BY DEF WriteFails
  <2>2. n \in Nat
    BY <1>1
  <2> QED
    BY <1>1, <2>1, <2>2, OverlayIsFile
<1>3. TypeOK'
  BY <1>0, <1>2 DEF IInv, TypeOK, SaveStates, Versions, WriteFails, Idle
<1>4. OnlyUpServes' /\ FileIsSequence'
  BY <1>0, <1>1, <1>2 DEF OnlyUpServes, FileIsSequence
<1>5. AcceptedIsDocument' /\ OnlyHastySave'
  <2>1. \A q \in Pages : save'[q] = save[q] \/ save'[q].step = "none"
    BY DEF IInv, TypeOK, SaveStates, Versions, WriteFails, Idle
  <2> QED
    BY <1>0, <2>1 DEF IInv, AcceptedIsDocument, OnlyHastySave, DocOf
<1>6. FileIsExpected' /\ AnswersAreExpected' /\ NewestIsExpected'
  BY DEF FileIsExpected, AnswersAreExpected, NewestIsExpected, WriteFails
<1> QED
  BY <1>3, <1>4, <1>5, <1>6 DEF IInv

\* The size that the handler takes while nobody writes is that of what is expected.
LEMMA GetSizeStep == ASSUME IInv, NEW p \in Pages, GetSize(p) PROVE IInv'
<1>0. UNCHANGED <<server, file, save, response, shown, used, saves, kills, version, expected,
                  informed, hasty>>
  BY DEF GetSize
<1>1. server = "up" /\ file \in Seq(Docs) /\ Len(file) \in Nat /\ version \in Nat \ {0}
  <2>1. server = "up"
    BY DEF IInv, OnlyUpServes, GetSize
  <2> QED
    BY <2>1 DEF IInv, TypeOK, FileIsSequence
<1>2. /\ load[p] = "sent" /\ load'[p] = "sized" /\ length'[p] = Len(file)
      /\ seen'[p].response = (IF Writers = {} THEN version ELSE 0)
      /\ seen'[p].save = seen[p].save
  BY DEF IInv, TypeOK, SaveStates, Versions, GetSize
<1>3. \A q \in Pages : q # p => load'[q] = load[q] /\ length'[q] = length[q] /\ seen'[q] = seen[q]
  BY DEF IInv, TypeOK, SaveStates, Versions, GetSize
<1>4. Writers' = Writers /\ Writers \subseteq Pages /\ \A q \in Pages : DocOf(q)' = DocOf(q)
  BY <1>0 DEF Writers, DocOf
<1>5. TypeOK'
  <2>1. seen \in [Pages -> Versions(version)]
    BY DEF IInv, TypeOK
  <2>2. (IF Writers = {} THEN version ELSE 0) \in 0 .. version /\ version <= version
    BY <1>1
  <2>3. seen' \in [Pages -> Versions(version)]
    <3>1. seen' = [seen EXCEPT ![p].response = IF Writers = {} THEN version ELSE 0]
      BY DEF GetSize
    <3> QED
      BY <1>1, <2>1, <2>2, <3>1, SeenStays
  <2>4. /\ load' \in [Pages -> {"none", "sent", "sized", "answered", "done"}]
        /\ length' \in [Pages -> Nat]
    BY <1>1 DEF IInv, TypeOK, GetSize
  <2> QED
    BY <1>0, <2>3, <2>4 DEF IInv, TypeOK
<1>6. OnlyUpServes' /\ FileIsSequence' /\ AcceptedIsDocument' /\ FileIsExpected'
  BY <1>0, <1>1, <1>4 DEF IInv, OnlyUpServes, FileIsSequence, AcceptedIsDocument, FileIsExpected
<1>7. OnlyHastySave'
  BY <1>0, <1>2, <1>3 DEF IInv, OnlyHastySave
<1>8. AnswersAreExpected'
  <2>1. ASSUME expected # Invalid, seen'[p].response = version
        PROVE  Writers = {} /\ length'[p] = Size[expected]
    <3>1. Writers = {}
      BY <1>1, <1>2, <2>1
    <3>2. file = Whole(expected) /\ expected \in Docs
      BY <1>1, <2>1, <3>1 DEF IInv, TypeOK, FileIsExpected
    <3> QED
      BY <1>2, <3>1, <3>2, WholeFiles
  <2> QED
    BY <1>0, <1>2, <1>3, <1>4, <2>1 DEF IInv, AnswersAreExpected
<1>9. NewestIsExpected'
  BY <1>0, <1>2, <1>3, <1>4 DEF IInv, NewestIsExpected
<1> QED
  BY <1>5, <1>6, <1>7, <1>8, <1>9 DEF IInv

\* What it copies is that document, if the file has not been truncated since.
LEMMA GetCopyStep == ASSUME IInv, NEW p \in Pages, GetCopy(p) PROVE IInv'
<1>0. UNCHANGED <<server, file, save, shown, used, saves, kills, version, expected, informed>>
  BY DEF GetCopy
<1>1. server = "up" /\ file \in Seq(Docs) /\ version \in Nat \ {0} /\ load[p] = "sized"
  BY DEF IInv, TypeOK, OnlyUpServes, FileIsSequence, GetCopy
<1>2. \A q \in Pages : q # p => /\ load'[q] = load[q] /\ length'[q] = length[q] /\ seen'[q] = seen[q]
                                /\ response'[q] = response[q] /\ (q \in hasty' <=> q \in hasty)
  BY DEF IInv, TypeOK, Versions, GetCopy
<1>3. Writers' = Writers /\ Writers \subseteq Pages /\ \A q \in Pages : DocOf(q)' = DocOf(q)
  BY <1>0 DEF Writers, DocOf
<1>4. length' \in [Pages -> Nat]
  BY DEF IInv, TypeOK, GetCopy
<1>5. CASE Len(file) >= length[p] /\ load' = [load EXCEPT ![p] = "answered"]
  <2>1. /\ response' = [response EXCEPT ![p] = DocumentIn(SubSeq(file, 1, length[p]))]
        /\ seen' = [seen EXCEPT ![p].response = IF @ = version THEN version ELSE 0]
        /\ hasty' = hasty
    BY <1>1, <1>5 DEF IInv, TypeOK, GetCopy
  <2>2. /\ load'[p] = "answered" /\ response'[p] = DocumentIn(SubSeq(file, 1, length[p]))
        /\ seen'[p].response = (IF seen[p].response = version THEN version ELSE 0)
        /\ seen'[p].save = seen[p].save
    BY <1>5, <2>1 DEF IInv, TypeOK, Versions
  <2>3. TypeOK'
    <3>1. seen \in [Pages -> Versions(version)]
      BY DEF IInv, TypeOK
    <3>2. (IF seen[p].response = version THEN version ELSE 0) \in 0 .. version /\ version <= version
      BY <1>1
    <3>3. seen' \in [Pages -> Versions(version)]
      <4>1. seen' = [seen EXCEPT ![p].response = IF seen[p].response = version THEN version ELSE 0]
        BY <2>1, <3>1 DEF Versions
      <4> QED
        BY <1>1, <3>1, <3>2, <4>1, SeenStays
    <3>4. response' \in [Pages -> Docs \cup {Torn}]
      BY <2>1, BlocksAreDocument DEF IInv, TypeOK
    <3>5. load' \in [Pages -> {"none", "sent", "sized", "answered", "done"}]
      BY <1>5 DEF IInv, TypeOK
    <3> QED
      BY <1>0, <1>4, <2>1, <3>3, <3>4, <3>5 DEF IInv, TypeOK
  <2>4. OnlyUpServes' /\ FileIsSequence' /\ AcceptedIsDocument' /\ FileIsExpected'
    BY <1>0, <1>1, <1>3 DEF IInv, OnlyUpServes, FileIsSequence, AcceptedIsDocument, FileIsExpected
  <2>5. OnlyHastySave'
    BY <1>0, <1>1, <1>2, <2>1, <2>2 DEF IInv, OnlyHastySave
  <2>6. AnswersAreExpected'
    <3>1. ASSUME expected # Invalid, seen'[p].response = version PROVE response'[p] = expected
      <4>1. Writers = {} /\ length[p] = Size[expected]
        BY <1>1, <2>2, <3>1 DEF IInv, AnswersAreExpected
      <4>2. file = Whole(expected) /\ expected \in Docs
        BY <1>1, <3>1, <4>1 DEF IInv, TypeOK, FileIsExpected
      <4>3. SubSeq(file, 1, length[p]) = Whole(expected)
        BY <1>1, <4>1, <4>2, WholeFiles
      <4> QED
        BY <2>2, <4>2, <4>3, BlocksAreDocument
    <3> QED
      BY <1>0, <1>2, <1>3, <2>2, <3>1 DEF IInv, AnswersAreExpected
  <2>7. NewestIsExpected'
    BY <1>0, <1>1, <1>2, <1>3, <2>1, <2>2 DEF IInv, NewestIsExpected
  <2> QED
    BY <2>3, <2>4, <2>5, <2>6, <2>7 DEF IInv
<1>6. CASE Len(file) < length[p] /\ load' = [load EXCEPT ![p] = "done"]
  <2>1. hasty' = hasty \ {p} /\ UNCHANGED <<response, seen>> /\ load'[p] = "done"
    BY <1>1, <1>6 DEF IInv, TypeOK, GetCopy
  <2>2. TypeOK'
    <3>1. load' \in [Pages -> {"none", "sent", "sized", "answered", "done"}]
      BY <1>6 DEF IInv, TypeOK
    <3> QED
      BY <1>0, <1>4, <2>1, <3>1 DEF IInv, TypeOK
  <2>3. OnlyUpServes' /\ FileIsSequence' /\ AcceptedIsDocument' /\ FileIsExpected'
    BY <1>0, <1>1, <1>3 DEF IInv, OnlyUpServes, FileIsSequence, AcceptedIsDocument, FileIsExpected
  <2>4. OnlyHastySave' /\ AnswersAreExpected'
    BY <1>0, <1>2, <1>3, <2>1 DEF IInv, OnlyHastySave, AnswersAreExpected
  <2>5. NewestIsExpected'
    BY <1>0, <1>1, <1>2, <1>3, <2>1 DEF IInv, NewestIsExpected
  <2> QED
    BY <2>2, <2>3, <2>4, <2>5 DEF IInv
<1> QED
  BY <1>5, <1>6 DEF GetCopy

\* The page shows the answer to its load, or the text it has saved.
LEMMA PageSteps ==
    ASSUME IInv, NEW p \in Pages, Loaded(p) \/ Updated(p)
    PROVE  IInv'
<1>0. version \in Nat \ {0} /\ seen[p].response \in 0 .. version /\ seen[p].save \in 0 .. version
      /\ informed[p] \in 0 .. version
  BY DEF IInv, TypeOK, Versions
<1>1. ASSUME Loaded(p) PROVE IInv'
  <2>0. /\ UNCHANGED <<server, file, save, length, response, used, saves, kills, version, expected,
                       seen, hasty>>
        /\ load[p] = "answered"
    BY <1>1 DEF Loaded
  <2>1. /\ load'[p] = "done" /\ shown'[p] = response[p]
        /\ informed'[p] = (IF seen[p].response > informed[p] THEN seen[p].response ELSE informed[p])
    BY <1>1 DEF IInv, TypeOK, Loaded
  <2>2. \A q \in Pages : q # p => load'[q] = load[q] /\ shown'[q] = shown[q] /\ informed'[q] = informed[q]
    BY <1>1 DEF IInv, TypeOK, Loaded
  <2>3. TypeOK'
    <3>1. shown' \in [Pages -> Texts \cup {Torn, Invalid}]
      BY <1>1 DEF IInv, TypeOK, Loaded
    <3>2. load' \in [Pages -> {"none", "sent", "sized", "answered", "done"}]
      BY <1>1 DEF IInv, TypeOK, Loaded
    <3>3. informed' \in [Pages -> 0 .. version]
      BY <1>0, <1>1 DEF IInv, TypeOK, Loaded
    <3> QED
      BY <2>0, <3>1, <3>2, <3>3 DEF IInv, TypeOK
  <2>4. OnlyUpServes' /\ FileIsSequence' /\ AcceptedIsDocument' /\ FileIsExpected'
    BY <2>0, <2>1, <2>2 DEF IInv, OnlyUpServes, FileIsSequence, AcceptedIsDocument, FileIsExpected,
       DocOf, Writers
  <2>5. OnlyHastySave' /\ AnswersAreExpected'
    BY <2>0, <2>1, <2>2 DEF IInv, OnlyHastySave, AnswersAreExpected, Writers
  <2>6. ASSUME expected # Invalid, informed'[p] = version, p \notin hasty
        PROVE  shown'[p] \in Texts /\ Sanitized[shown'[p]] = expected
    <3>1. informed[p] = 0
      BY <2>0, <2>6 DEF IInv, OnlyHastySave
    <3>2. seen[p].response = version
      BY <1>0, <2>1, <2>6, <3>1
    <3>3. response[p] = expected
      BY <2>0, <2>6, <3>2 DEF IInv, AnswersAreExpected
    <3> QED
      BY <2>1, <2>6, <3>3 DEF IInv, TypeOK
  <2>7. NewestIsExpected'
    BY <2>0, <2>1, <2>2, <2>6 DEF IInv, NewestIsExpected, DocOf
  <2> QED
    BY <2>3, <2>4, <2>5, <2>7 DEF IInv
<1>2. ASSUME Updated(p) PROVE IInv'
  <2>0. /\ UNCHANGED <<server, file, load, length, response, used, saves, kills, version, expected,
                       seen>>
        /\ save[p].step = "saved"
        /\ hasty' = IF load[p] = "done" THEN hasty \ {p} ELSE hasty
    BY <1>2 DEF Updated, request
  <2>1. save'[p].step = "none" /\ shown'[p] = save[p].text /\ informed'[p] = seen[p].save
    BY <1>2 DEF IInv, TypeOK, SaveStates, Updated, Idle
  <2>2. \A q \in Pages : q # p => save'[q] = save[q] /\ shown'[q] = shown[q] /\ informed'[q] = informed[q]
    BY <1>2 DEF IInv, TypeOK, SaveStates, Updated
  <2>3. TypeOK'
    <3>1. informed' \in [Pages -> 0 .. version]
      BY <1>0, <1>2 DEF IInv, TypeOK, Updated
    <3>2. shown' \in [Pages -> Texts \cup {Torn, Invalid}]
      BY <1>2 DEF IInv, TypeOK, SaveStates, Updated
    <3>3. save' \in [Pages -> SaveStates]
      BY <1>2 DEF IInv, TypeOK, SaveStates, Updated, Idle
    <3> QED
      BY <2>0, <3>1, <3>2, <3>3 DEF IInv, TypeOK
  <2>4. Writers' = Writers /\ \A q \in Pages : q # p => DocOf(q)' = DocOf(q)
    BY <2>0, <2>1, <2>2 DEF Writers, DocOf
  <2>5. OnlyUpServes' /\ FileIsSequence' /\ AcceptedIsDocument'
    BY <2>0, <2>1, <2>2, <2>4 DEF IInv, OnlyUpServes, FileIsSequence, AcceptedIsDocument
  <2>6. FileIsExpected'
    <3>1. p \notin Writers
      BY <2>0 DEF Writers
    <3> QED
      BY <2>0, <2>4, <3>1 DEF IInv, FileIsExpected, Writers
  <2>7. OnlyHastySave'
    <3>1. load[p] = "done" \/ (p \in hasty' /\ load[p] # "none")
      BY <2>0 DEF IInv, OnlyHastySave
    <3> QED
      BY <2>0, <2>2, <3>1 DEF IInv, OnlyHastySave
  <2>8. AnswersAreExpected'
    BY <2>0, <2>4 DEF IInv, AnswersAreExpected
  <2>9. ASSUME expected # Invalid, informed'[p] = version
        PROVE  shown'[p] \in Texts /\ Sanitized[shown'[p]] = expected
    <3>1. DocOf(p) = expected
      BY <2>0, <2>1, <2>9 DEF IInv, NewestIsExpected
    <3> QED
      BY <2>1, <3>1 DEF IInv, TypeOK, SaveStates, DocOf
  <2>10. NewestIsExpected'
    BY <2>0, <2>1, <2>2, <2>4, <2>9 DEF IInv, NewestIsExpected
  <2> QED
    BY <2>3, <2>5, <2>6, <2>7, <2>8, <2>10 DEF IInv
<1> QED
  BY <1>1, <1>2

LEMMA InvariantStep == IInv /\ [Next]_vars => IInv'
BY QuietSteps, LifeSteps, TruncateStep, WriteStep, WriteFailsStep, GetSizeStep, GetCopyStep, PageSteps DEF Next

LEMMA Invariant == Spec => []IInv
BY InvariantStart, InvariantStep, PTL DEF Spec

-----------------------------------------------------------------------------
(***************************************************************************)
(* The theorems.                                                           *)
(***************************************************************************)

\* The type invariant: in particular, the file is a sequence of blocks of documents,
\* whatever has been written over what.
THEOREM TypeCorrect == Spec => []TypeOK
<1>1. IInv => TypeOK
  BY DEF IInv
<1> QED
  BY <1>1, Invariant, PTL

\* The newest save determines the file if it has run alone (file.go:23), whatever
\* overlapped, failed or was killed before it.
THEOREM SavedFileIsWhole == Spec => []QuietFileIsSaved
<1>1. IInv => QuietFileIsSaved
  BY DEF IInv, FileIsExpected, QuietFileIsSaved, Quiet
<1> QED
  BY <1>1, Invariant, PTL

\* A page that has been told of the newest version shows a text of it (store.ts:71,
\* store.ts:128), however its load, whose size and copy are two steps (persistent.go:70),
\* and the saves of all pages interleave; but not a page that has saved before its own
\* load was answered.
THEOREM ShownTextIsSaved == Spec => []ShownIsSaved
<1>1. IInv => ShownIsSaved
  BY DEF IInv, NewestIsExpected, ShownIsSaved
<1> QED
  BY <1>1, Invariant, PTL

\* collectAll reads the newest targets, or is answered 500 while they are being
\* written (group/collector.go:90).
THEOREM CollectionsUseNewest == Spec => CollectsNewest
<1>1. IInv /\ [Next]_vars =>
         [(used' # used /\ expected # Invalid)
             => used' = expected \/ (used' = Torn /\ Writers # {})]_vars
  <2> SUFFICES ASSUME IInv, Next, used' # used, expected # Invalid
               PROVE  used' = expected \/ (used' = Torn /\ Writers # {})
    BY DEF vars
  <2>1. Collect
    BY DEF Next, Start, SaveDefault, DefaultFails, Kill, Refuse, CreateFails, Truncate, Write,
       WriteFails, GetSize, GetCopy, Open, Loaded, Updated, Update
  <2>2. used' = Content /\ expected \in Docs
    BY <2>1 DEF Collect, IInv, TypeOK, SaveStates, Versions
  <2>3. CASE Writers = {}
    BY <2>1, <2>2, <2>3, ContentIsDocument DEF Collect, IInv, FileIsExpected
  <2>4. CASE Writers # {}
    BY <2>2, <2>4, ContentIsDocument DEF IInv, FileIsExpected
  <2> QED
    BY <2>3, <2>4
<1> QED
  BY <1>1, Invariant, PTL DEF Spec, CollectsNewest

=============================================================================
