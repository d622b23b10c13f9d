-------------------------------- MODULE Settings --------------------------------
(***************************************************************************)
(* One setting (targets.json, alp.yml or slp.yml): its file, the handler   *)
(* of internal/persistent, the pages that edit it (view/src/store.ts) and  *)
(* the collections that read it (group.collectAll).                        *)
(*                                                                         *)
(* A document is written as Size[d] blocks.  PutFile truncates the file    *)
(* and then writes it in a second system call, from the beginning, through *)
(* a descriptor of its own; nothing orders the requests.  Hence readers    *)
(* may find the file empty, two saves that overlap may leave a mixture,    *)
(* and a kill or a full disk leaves a prefix.  A page is answered in two   *)
(* steps as well: http.ServeContent takes the size, and copies that many   *)
(* bytes of what the file holds by then.                                   *)
(***************************************************************************)
EXTENDS Naturals, Sequences

CONSTANTS
    Docs,           \* the outputs of sanitize
    Texts,          \* what a user may submit; documents are texts, too
    Sanitized,      \* Sanitized[t]: sanitize(t), or Invalid
    Invalid,        \* sanitize returned an error
    Size,           \* Size[d]: the length of a document
    Default,        \* the sanitized default content
    NoFile,         \* os.Stat fails
    Torn,           \* content that is no document
    Pages,          \* open pages
    MaxSaves,       \* bound on the number of saves
    MaxKills        \* bound on the number of kills

ASSUME SettingsAssumption ==
    /\ Docs \subseteq Texts /\ Default \in Docs
    /\ Sanitized \in [Texts -> Docs \cup {Invalid}]
    /\ \A d \in Docs : Sanitized[d] = d
    /\ Size \in [Docs -> Nat \ {0}]
    /\ {Invalid, NoFile, Torn} \cap Texts = {} /\ Torn # NoFile
    /\ MaxSaves \in Nat /\ MaxKills \in Nat

VARIABLES
    server,     \* "down", "creating" (New saves the default) or "up"
    file,       \* the blocks of the file, or NoFile
    save,       \* save[p]: the page's POST and the step its handler takes next
    load,       \* load[p]: the page's GET: "none", "sent", "sized", "answered" or "done"
    length,     \* length[p]: the Content-Length of the answer to it
    response,   \* response[p]: the content in the answer to it
    shown,      \* shown[p]: state.settings[key].value, Invalid if not set
    used,       \* what the last collectAll read: a document, Torn or NoFile
    saves, kills,
    version,    \* history: counts the times the file is truncated, from 1
    expected,   \* history: the document of the newest of them, Invalid once it
                \* has overlapped with another or has failed
    seen,       \* history: the versions of response[p] and of the page's save; 0 is
                \* none, and that of an answer that has overlapped with a save
    informed,   \* history: informed[p]: the version that p has been told of
    hasty       \* history: the pages that have saved while their GET was on its way

request == <<load, length, response>>
history == <<version, expected, seen, informed, hasty>>
vars == <<server, file, save, request, shown, used, saves, kills, history>>

Whole(d) == [i \in 1 .. Size[d] |-> d]

\* Blocks as those who read them (json.Unmarshal, the page) take them.
DocumentIn(blocks) ==
    IF \E d \in Docs : blocks = Whole(d) THEN CHOOSE d \in Docs : blocks = Whole(d) ELSE Torn
Content == DocumentIn(file)

\* The first n blocks of d written over the file from its beginning.
Overlay(d, n) ==
    [i \in 1 .. (IF Len(file) > n THEN Len(file) ELSE n) |-> IF i <= n THEN d ELSE file[i]]

Idle == [step |-> "none", text |-> Default]

\* The output of sanitize for the text that page p saves.
DocOf(p) == Sanitized[save[p].text]

\* The handlers between truncating and writing.
Writers == {p \in Pages : save[p].step = "write"}

Init ==
    /\ server = "down"
    /\ file \in {NoFile, Whole(Default)}
    /\ save = [p \in Pages |-> Idle]
    /\ load = [p \in Pages |-> "none"]
    /\ length = [p \in Pages |-> 0]
    /\ response = [p \in Pages |-> Torn]
    /\ shown = [p \in Pages |-> Invalid]
    /\ used = NoFile
    /\ saves = 0 /\ kills = 0
    /\ version = 1
    /\ expected = Default
    /\ seen = [p \in Pages |-> [response |-> 0, save |-> 0]]
    /\ informed = [p \in Pages |-> 0]
    /\ hasty = {}

-----------------------------------------------------------------------------
(***************************************************************************)
(* The life of the process.                                                *)
(***************************************************************************)

\* A mutant of Start: New saves the default content at every start.
MutStart ==
    /\ server = "down"
    /\ server' = "creating" /\ file' = <<>>
    /\ UNCHANGED <<save, request, shown, used, saves, kills, history>>

\* New finds the file, whatever is in it, or creates it with the default content.
Start ==
    /\ server = "down"
    /\ IF file = NoFile
       THEN server' = "creating" /\ file' = <<>> /\ version' = version + 1 /\ expected' = Default
       ELSE server' = "up" /\ UNCHANGED <<file, version, expected>>
    /\ UNCHANGED <<save, request, shown, used, saves, kills, seen, informed, hasty>>

SaveDefault ==
    /\ server = "creating"
    /\ server' = "up"
    /\ file' = Whole(Default)
    /\ UNCHANGED <<save, request, shown, used, saves, kills, history>>

\* New cannot write the default content, and main panics.
DefaultFails ==
    /\ server = "creating"
    /\ server' = "down"
    /\ \E n \in 0 .. Size[Default] - 1 : file' = Overlay(Default, n)
    /\ expected' = Invalid
    /\ UNCHANGED <<save, request, shown, used, saves, kills, version, seen, informed, hasty>>

\* The requests of the pages fail; only what is in the file is left.
Kill ==
    /\ server # "down"
    /\ kills < MaxKills
    /\ kills' = kills + 1
    /\ server' = "down"
    /\ save' = [p \in Pages |-> Idle]
    /\ load' = [p \in Pages |-> IF load[p] = "none" THEN "none" ELSE "done"]
    /\ length' = [p \in Pages |-> 0]
    /\ hasty' = {p \in hasty : load[p] = "done"}
    /\ expected' = IF Writers # {} \/ server = "creating" THEN Invalid ELSE expected
    /\ UNCHANGED <<file, response, shown, used, saves, version, seen, informed>>

-----------------------------------------------------------------------------
(***************************************************************************)
(* The handler.                                                            *)
(***************************************************************************)

\* A mutant of Refuse: a refused text is answered 200.
MutRefuse(p) ==
    /\ save[p].step = "sent"
    /\ DocOf(p) = Invalid
    /\ save' = [save EXCEPT ![p].step = "saved"]
    /\ UNCHANGED <<server, file, request, shown, used, saves, kills, history>>

\* handlePost: a text that sanitize refuses is answered 400.
Refuse(p) ==
    /\ save[p].step = "sent"
    /\ DocOf(p) = Invalid
    /\ save' = [save EXCEPT ![p] = Idle]
    /\ UNCHANGED <<server, file, request, shown, used, saves, kills, history>>

\* os.Create fails: 500, and the file is as it was.
CreateFails(p) ==
    /\ save[p].step = "sent"
    /\ DocOf(p) # Invalid
    /\ save' = [save EXCEPT ![p] = Idle]
    /\ UNCHANGED <<server, file, request, shown, used, saves, kills, history>>

\* A mutant of Truncate: the file is opened without O_TRUNC.
MutTruncate(p) ==
    /\ save[p].step = "sent"
    /\ DocOf(p) # Invalid
    /\ save' = [save EXCEPT ![p].step = "write"]
    /\ version' = version + 1
    /\ expected' = IF Writers = {} THEN DocOf(p) ELSE Invalid
    /\ seen' = [seen EXCEPT ![p].save = version + 1]
    /\ UNCHANGED <<server, file, request, shown, used, saves, kills, informed, hasty>>

\* handlePost until os.Create, which truncates the file.
Truncate(p) ==
    /\ save[p].step = "sent"
    /\ DocOf(p) # Invalid
    /\ save' = [save EXCEPT ![p].step = "write"]
    /\ file' = <<>>
    /\ version' = version + 1
    /\ expected' = IF Writers = {} THEN DocOf(p) ELSE Invalid
    /\ seen' = [seen EXCEPT ![p].save = version + 1]
    /\ UNCHANGED <<server, request, shown, used, saves, kills, informed, hasty>>

\* A mutant of Write: the text is written as it was submitted.
MutWrite(p) ==
    /\ save[p].step = "write"
    /\ save' = [save EXCEPT ![p].step = "saved"]
    /\ file' = <<save[p].text>>
    /\ UNCHANGED <<server, request, shown, used, saves, kills, history>>

\* PutFile writes; the answer 200 is on its way to the page.
Write(p) ==
    /\ save[p].step = "write"
    /\ save' = [save EXCEPT ![p].step = "saved"]
    /\ file' = Overlay(DocOf(p), Size[DocOf(p)])
    /\ UNCHANGED <<server, request, shown, used, saves, kills, history>>

\* The write fails after some blocks: 500.
WriteFails(p) ==
    /\ save[p].step = "write"
    /\ save' = [save EXCEPT ![p] = Idle]
    /\ \E n \in 0 .. Size[DocOf(p)] - 1 : file' = Overlay(DocOf(p), n)
    /\ expected' = Invalid
    /\ UNCHANGED <<server, request, shown, used, saves, kills, version, seen, informed, hasty>>

\* handleGet: the size of the file, which becomes the Content-Length ...
GetSize(p) ==
    /\ load[p] = "sent"
    /\ load' = [load EXCEPT ![p] = "sized"]
    /\ length' = [length EXCEPT ![p] = Len(file)]
    /\ seen' = [seen EXCEPT ![p].response = IF Writers = {} THEN version ELSE 0]
    /\ UNCHANGED <<server, file, save, response, shown, used, saves, kills, version, expected,
                   informed, hasty>>

\* ... and as many blocks.  If there are no longer so many the answer breaks off, and
\* the page's fetch fails.
GetCopy(p) ==
    /\ load[p] = "sized"
    /\ length' = [length EXCEPT ![p] = 0]
    /\ \/ /\ Len(file) >= length[p]
          /\ load' = [load EXCEPT ![p] = "answered"]
          /\ response' = [response EXCEPT ![p] = DocumentIn(SubSeq(file, 1, length[p]))]
          /\ seen' = [seen EXCEPT ![p].response = IF @ = version THEN version ELSE 0]
          /\ UNCHANGED hasty
       \/ /\ Len(file) < length[p]
          /\ load' = [load EXCEPT ![p] = "done"]
          /\ hasty' = hasty \ {p}
          /\ UNCHANGED <<response, seen>>
    /\ UNCHANGED <<server, file, save, shown, used, saves, kills, version, expected, informed>>

\* collectAll reads the targets; Torn is answered 500.
Collect ==
    /\ server = "up"
    /\ used' = Content
    /\ UNCHANGED <<server, file, save, request, shown, saves, kills, history>>

-----------------------------------------------------------------------------
(***************************************************************************)
(* The pages.                                                              *)
(***************************************************************************)

\* syncSettingsPlugin: a page is opened and asks for the setting, once.
Open(p) ==
    /\ server = "up"
    /\ load[p] = "none"
    /\ load' = [load EXCEPT ![p] = "sent"]
    /\ UNCHANGED <<server, file, save, length, response, shown, used, saves, kills, history>>

\* syncSettingsPlugin after the await: the answer replaces what the page shows.
Loaded(p) ==
    /\ load[p] = "answered"
    /\ load' = [load EXCEPT ![p] = "done"]
    /\ shown' = [shown EXCEPT ![p] = response[p]]
    /\ informed' = [informed EXCEPT ![p] = IF seen[p].response > @ THEN seen[p].response ELSE @]
    /\ UNCHANGED <<server, file, save, length, response, used, saves, kills, version, expected,
                   seen, hasty>>

\* The user submits a text, also while the page says "Loading ..."; the button is
\* disabled until it has been answered.
Update(p, text) ==
    /\ server = "up"
    /\ load[p] # "none"
    /\ save[p].step = "none"
    /\ saves < MaxSaves
    /\ saves' = saves + 1
    /\ save' = [save EXCEPT ![p] = [step |-> "sent", text |-> text]]
    /\ hasty' = IF load[p] = "done" THEN hasty ELSE hasty \cup {p}
    /\ UNCHANGED <<server, file, request, shown, used, kills, version, expected, seen, informed>>

\* updateSetting after the await: the page keeps the text as it was submitted.
Updated(p) ==
    /\ save[p].step = "saved"
    /\ save' = [save EXCEPT ![p] = Idle]
    /\ shown' = [shown EXCEPT ![p] = save[p].text]
    /\ informed' = [informed EXCEPT ![p] = seen[p].save]
    /\ hasty' = IF load[p] = "done" THEN hasty \ {p} ELSE hasty
    /\ UNCHANGED <<server, file, request, used, saves, kills, version, expected, seen>>

-----------------------------------------------------------------------------

Next ==
    \/ Start \/ SaveDefault \/ DefaultFails \/ Kill \/ Collect
    \/ \E p \in Pages :
          \/ Refuse(p) \/ CreateFails(p) \/ Truncate(p) \/ Write(p) \/ WriteFails(p)
          \/ GetSize(p) \/ GetCopy(p) \/ Open(p) \/ Loaded(p) \/ Updated(p)
          \/ \E text \in Texts : Update(p, text)

Spec == Init /\ [][Next]_vars

-----------------------------------------------------------------------------
(***************************************************************************)
(* Properties.                                                             *)
(***************************************************************************)

SaveStates == [step : {"none", "sent", "write", "saved"}, text : Texts]
Versions(n) == [response : 0 .. n, save : 0 .. n]

\* The type invariant.
TypeOK ==
    /\ server \in {"down", "creating", "up"}
    /\ file = NoFile \/ file \in Seq(Docs)
    /\ save \in [Pages -> SaveStates]
    /\ load \in [Pages -> {"none", "sent", "sized", "answered", "done"}]
    /\ length \in [Pages -> Nat]
    /\ response \in [Pages -> Docs \cup {Torn}]
    /\ shown \in [Pages -> Texts \cup {Torn, Invalid}]
    /\ used \in Docs \cup {Torn, NoFile}
    /\ saves \in 0 .. MaxSaves /\ kills \in 0 .. MaxKills
    /\ version \in Nat \ {0}
    /\ expected \in Docs \cup {Invalid}
    /\ seen \in [Pages -> Versions(version)]
    /\ informed \in [Pages -> 0 .. version]
    /\ hasty \subseteq Pages

Quiet == server = "up" /\ Writers = {}

\* Whatever has been saved before, mixed, cut off by a full disk or a kill: once a
\* save has run without overlapping another, the file is exactly its document
\* (file.go:23), also after a restart (persistent.go:25).
QuietFileIsSaved ==
    Quiet /\ expected # Invalid => file = Whole(expected)

\* A collection never uses the targets from before the last save that has begun:
\* while that save is not finished collectAll is answered 500, afterwards it uses
\* the saved targets (group/collector.go:90).
CollectsNewest ==
    [][(used' # used /\ expected # Invalid)
          => used' = expected \/ (used' = Torn /\ Writers # {})]_vars

\* A page that has been told of the newest version, by the answer to its own save or by
\* a load that no save has overlapped, shows a text of that version (store.ts:71,
\* store.ts:128): whichever of its load and its save is answered first, and whoever
\* saves between the size and the copy of an answer (persistent.go:70).  Excepted are the
\* hasty, who have saved before their own load was answered: it replaces what they show.
ShownIsSaved ==
    \A p \in Pages :
        Quiet /\ expected # Invalid /\ informed[p] = version
              /\ ~(p \in hasty /\ load[p] = "done")
            => shown[p] \in Texts /\ Sanitized[shown[p]] = expected

=============================================================================
